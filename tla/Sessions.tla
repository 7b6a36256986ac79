------------------------------ MODULE Sessions ------------------------------
(***************************************************************************)
(* Sessions: made by CreateSession, checked by ValidateSession and by auth *)
(* at the head of every other call.  They are kept in Redis, which server  *)
(* processes share; each process has one connection to it that serves all  *)
(* its threads, and a clock of its own, which runs as fast as Redis's and  *)
(* is not set while the behaviour lasts.  A session ends two ways: Redis   *)
(* drops the key, or a process finds expires_at passed by its own clock    *)
(* and deletes it.  Commands may fail: the connection is broken, or Redis  *)
(* answers with an error.  CreateSession then says that all is well, and   *)
(* ValidateSession that the token is invalid.                              *)
(*                                                                         *)
(* Tokens and what they hash to are unique.  A name that CreateSession     *)
(* rejects, or an empty token, changes nothing and is left out.            *)
(***************************************************************************)
EXTENDS Integers

CONSTANTS
  Server,   \* server processes
  Thread,   \* threads that serve calls
  Token,    \* tokens that can be made
  TTL,      \* SESSION_TTL_S
  MaxSkew,  \* bound: how far apart the processes' clocks are
  MaxTime   \* bound: how long the behaviour lasts

ASSUME SessionsAssumption ==
  TTL \in Nat \ {0} /\ MaxSkew \in Nat /\ MaxTime \in Nat

VARIABLES
  time,      \* Redis's clock
  ahead,     \* process -> how far its clock is ahead; never changes
  connected, \* process -> ctx_ is set and has no error
  redis,     \* token -> {} or {the session stored under it}
  made,      \* token -> {} or {when it was made}
  stored,    \* tokens whose SET reached Redis
  job,       \* thread -> what it is doing
  answer     \* thread -> how its last check of a token ended (see Answer)

vars == <<time, ahead, connected, redis, made, stored, job, answer>>

None == "none"

Job(step, s, k, e, saw) == [step |-> step, server |-> s, token |-> k, expires |-> e, saw |-> saw]

Idle == Job("idle", None, None, 0, FALSE)

Init ==
  /\ time = 0
  /\ ahead \in [Server -> 0..MaxSkew]
  /\ connected \in [Server -> BOOLEAN]
  /\ redis = [k \in Token |-> {}] /\ made = [k \in Token |-> {}] /\ stored = {}
  /\ job = [t \in Thread |-> Idle]
  /\ answer = [t \in Thread |-> None]

now(s) == time + ahead[s]

\* Redis gives a key until its time to live is over.
Kept(k) == {x \in redis[k] : time <= x.drops}

\* The caller is told the token is valid, or that it is not.  The model tells
\* apart why not: there is no session ("invalid"), it is over by this process's
\* clock but Redis still has it ("expired"), or GET failed ("unanswered").
Answer == {None, "valid", "invalid", "expired", "unanswered"}

Begin(t, newJob) == job[t] = Idle /\ job' = [job EXCEPT ![t] = newJob]

Return(t, a) == job' = [job EXCEPT ![t] = Idle] /\ answer' = [answer EXCEPT ![t] = a]
----------------------------------------------------------------------------
(* CreateSession *)

\* Mutant: two sessions may get one token.
StampAgain(t, s, k) ==
  /\ made' = [made EXCEPT ![k] = @ \union {time}]
  /\ Begin(t, Job("set", s, k, now(s) + TTL, FALSE))
  /\ UNCHANGED <<time, ahead, connected, redis, stored, answer>>

\* create: the session is stamped with the clock of its process ...
Stamp(t, s, k) ==
  /\ made[k] = {}
  /\ made' = [made EXCEPT ![k] = {time}]
  /\ Begin(t, Job("set", s, k, now(s) + TTL, FALSE))
  /\ UNCHANGED <<time, ahead, connected, redis, stored, answer>>

\* ... and stored, unless SET fails; the caller is told it was.
set(t) ==
  LET k == job[t].token IN
  /\ job[t].step = "set"
  /\ \/ /\ connected[job[t].server]
        /\ redis' = [redis EXCEPT ![k] = {[expires |-> job[t].expires, drops |-> time + TTL]}]
        /\ stored' = stored \union {k}
     \/ UNCHANGED <<redis, stored>>
  /\ job' = [job EXCEPT ![t] = Idle]
  /\ UNCHANGED <<time, ahead, connected, made, answer>>
----------------------------------------------------------------------------
(* ValidateSession, auth *)

\* A call with a token that some process has handed out arrives at another.
Ask(t, s, k) ==
  /\ made[k] # {} /\ \A u \in Thread : job[u].step = "set" => job[u].token # k
  /\ Begin(t, Job("get", s, k, 0, Kept(k) # {}))
  /\ answer' = [answer EXCEPT ![t] = None]
  /\ UNCHANGED <<time, ahead, connected, redis, made, stored>>

\* A GET that fails is a key that is not there.
get(t) ==
  LET k == job[t].token IN
  /\ job[t].step = "get"
  /\ \/ Return(t, "unanswered")
     \/ connected[job[t].server] /\ Kept(k) = {} /\ Return(t, "invalid")
     \/ /\ connected[job[t].server]
        /\ \E x \in Kept(k) : job' = [job EXCEPT ![t].step = "compare", ![t].expires = x.expires]
        /\ UNCHANGED answer
  /\ UNCHANGED <<time, ahead, connected, redis, made, stored>>

\* Mutant: a session ends when its time has come, not after.
EndsEarly(t) == now(job[t].server) >= job[t].expires

\* Mutant: only Redis ends sessions.
EndsNever(t) == FALSE

Expired(t) == now(job[t].server) > job[t].expires

\* Mutant: every use of a session prolongs it.
validateRenews(t) ==
  LET k == job[t].token IN
  /\ job[t].step = "compare"
  /\ IF Expired(t) THEN job' = [job EXCEPT ![t].step = "del"] /\ UNCHANGED <<answer, redis>>
     ELSE /\ Return(t, "valid")
          /\ redis' = [redis EXCEPT ![k] = {[expires |-> job[t].expires, drops |-> time + TTL]}]
  /\ UNCHANGED <<time, ahead, connected, made, stored>>

validate(t) ==
  /\ job[t].step = "compare"
  /\ IF Expired(t) THEN job' = [job EXCEPT ![t].step = "del"] /\ UNCHANGED answer
     ELSE Return(t, "valid")
  /\ UNCHANGED <<time, ahead, connected, redis, made, stored>>

\* The key goes before the caller is told, unless DEL fails, which is not noticed.
del(t) ==
  /\ job[t].step = "del"
  /\ \/ /\ connected[job[t].server]
        /\ redis' = [redis EXCEPT ![job[t].token] = {}]
        /\ Return(t, "invalid")
     \/ Return(t, "expired") /\ UNCHANGED redis
  /\ UNCHANGED <<time, ahead, connected, made, stored>>
----------------------------------------------------------------------------
Tick == /\ time < MaxTime /\ time' = time + 1
        /\ UNCHANGED <<ahead, connected, redis, made, stored, job, answer>>

\* The connection breaks; nothing mends it while the process runs.
Break(s) == /\ connected[s] /\ connected' = [connected EXCEPT ![s] = FALSE]
            /\ UNCHANGED <<time, ahead, redis, made, stored, job, answer>>

\* The process dies and another is started, with or without Redis.
Restart(s) ==
  /\ \E c \in BOOLEAN : connected' = [connected EXCEPT ![s] = c]
  /\ job' = [t \in Thread |-> IF job[t].server = s THEN Idle ELSE job[t]]
  /\ UNCHANGED <<time, ahead, redis, made, stored, answer>>

Next ==
  \/ \E t \in Thread :
       \/ \E s \in Server, k \in Token : Stamp(t, s, k) \/ Ask(t, s, k)
       \/ set(t) \/ get(t) \/ validate(t) \/ del(t)
  \/ Tick
  \/ \E s \in Server : Break(s) \/ Restart(s)

Spec == Init /\ [][Next]_vars
----------------------------------------------------------------------------
Session == [expires : Nat, drops : Nat]

AtMostOne(S) == \A x \in S, y \in S : x = y

\* What each variable may hold: at most one session to a token.
TypeOK ==
  /\ time \in 0..MaxTime
  /\ ahead \in [Server -> 0..MaxSkew]
  /\ connected \in [Server -> BOOLEAN]
  /\ redis \in [Token -> SUBSET Session] /\ \A k \in Token : AtMostOne(redis[k])
  /\ made \in [Token -> SUBSET (0..time)] /\ \A k \in Token : AtMostOne(made[k])
  /\ stored \subseteq {k \in Token : made[k] # {}}
  /\ \A t \in Thread :
       job[t] = Idle \/ job[t] \in [step : {"set", "get", "compare", "del"}, server : Server,
                                    token : Token, expires : Nat, saw : BOOLEAN]
  /\ DOMAIN job = Thread
  /\ answer \in [Thread -> Answer]

Answers(t, a) == answer[t] # a /\ answer'[t] = a

\* A session that was stored is honoured by every process whose GET Redis answers,
\* whatever other processes with faster clocks have done to it, for its whole
\* time to live but for what the clocks may be apart.
HonouredWhileFresh ==
  [][\A t \in Thread :
       (Answers(t, "invalid") \/ Answers(t, "expired")) /\ job[t].token \in stored =>
         \A m \in made[job[t].token] : time + MaxSkew > m + TTL]_vars

\* No process accepts it after that time, though the one that made it may have
\* stored it late, so that Redis keeps it longer.
RefusedWhenStale ==
  [][\A t \in Thread :
       Answers(t, "valid") => \A m \in made[job[t].token] : time <= m + TTL + MaxSkew]_vars

Checks(t) == job[t].step \in {"get", "compare", "del"}

Life(k) == IF k \notin stored THEN "unborn" ELSE IF Kept(k) # {} THEN "alive" ELSE "ended"

Table == INSTANCE SessionTable WITH
  life <- [k \in Token |-> Life(k)],
  check <- [t \in Thread |->
              IF Checks(t) THEN {[token |-> job[t].token, saw |-> job[t].saw]} ELSE {}]

\* Threads that check a token step by step, on processes that disagree about the
\* time, while it expires, is deleted or is refused deletion, tell one story: a
\* session lives once; who finds it valid asked while it lived, and when somebody
\* has found none, or deleted it, no check that begins later finds it valid.
ImplementsTable == Table!Spec
=============================================================================
