SPECIFICATION Spec
CONSTANTS
  Thread = {t1, t2}
  User = {u, v}
  Id = {i}
  Name = {m, n}
  MaxTime = 1
  Faults <- Combinations
INVARIANTS
  TypeOK
  FilesAgree
  MetaFollowsBin
PROPERTIES
  SaveRepairs
  OwnerBySave
  ImplementsTable
SYMMETRY Symmetry
