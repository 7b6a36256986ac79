---------------------------- MODULE CollabClaims ----------------------------
(***************************************************************************)
(* What comments of the repository say of the collaboration protocol,      *)
(* stated of the model of the code.  Those no run lists are reported in the README.  *)
(***************************************************************************)
EXTENDS Collab

\* redis_client.h: the subscriber calls back for every message "except messages
\* whose session_id matches own_session_id".  So a client gets one answer to an
\* operation of its own, the acknowledgement.
OwnAnsweredOnce ==
  \A s \in Stream : \A i, j \in DOMAIN out[s] :
    /\ out[s][i].session = Token(s[1]) /\ out[s][j].session = Token(s[1])
    /\ out[s][i].rev = out[s][j].rev
    => i = j

\* service.cpp: the "sender receives an ack", and so does not paint its own operation
\* again: no canvas gets a stroke twice.
PaintedOnce ==
  \A c \in Client : \A l \in DOMAIN canvas[c] : \A i, j \in DOMAIN canvas[c][l] :
    canvas[c][l][i] = canvas[c][l][j] => i = j

\* service.cpp: the client uses the acknowledgement "to advance localRevision".
RevisionAdvances == [][\A c \in Client : localRevision'[c] >= localRevision[c]]_vars

\* renderer.js: pendingOps are the "ops sent but not yet ack'd by server"; one the
\* handler has not even read is among them.
UnreadIsPending ==
  \A c \in Client : Connected(c) =>
    \A i \in DOMAIN inbox[ws(c)] :
      inbox[ws(c)][i].n > 0 => \E k \in DOMAIN pendingOps[c] : pendingOps[c][k] = inbox[ws(c)][i]

\* renderer.js: "Every outgoing op carries base_revision (what revision the client
\* was at when the op was made)": a client never claims to have seen a revision its
\* project does not have, and the window the script reads ends where the operation
\* itself is appended.
BaseWithinLog ==
  \A s \in Stream : \A i \in DOMAIN inbox[s] : inbox[s][i].base <= Len(log[project[s]])

\* renderer.js: "Incoming remote ops are transformed against any local pending ops
\* before being applied": when all is delivered, a stroke logged after one of one's
\* own is on one's own canvas.
EveryoneSees ==
  Resting =>
    \A p \in Project : \A c \in Client : \A i, j \in DOMAIN log[p] :
      log[p][i].session = Token(c) /\ i < j =>
        \E l \in DOMAIN canvas[c] : \E k \in DOMAIN canvas[c][l] : canvas[c][l][k] = StrokeId(log[p][j])

\* service.cpp: "Stroke targeting a deleted or cleared layer -> cancel".  When all
\* is delivered, no canvas shows a stroke the server cancelled.
CancelledIsNowhere ==
  Resting =>
    \A p \in Project : \A r \in DOMAIN log[p] :
      CommittedOp(log[p], r).type = "NOOP" =>
        \A c \in Client : \A l \in DOMAIN canvas[c] : \A i \in DOMAIN canvas[c][l] :
          canvas[c][l][i] # StrokeId(log[p][r])

\* service.cpp: "mutating ops go through OT (transform + Redis op log commit) then
\* broadcast.  Sender receives an ack with server revision": what clients are sent
\* of a mutating operation was committed.
SentIsCommitted ==
  \A s \in Stream : \A i \in DOMAIN out[s] : needs_ot(out[s][i].type) => out[s][i].rev # 0
=============================================================================
