---------------------------- MODULE SessionTable ----------------------------
(***************************************************************************)
(* What the session store promises: a session lives once and ends once,    *)
(* and a check of its token tells what was true while it was being made.   *)
(***************************************************************************)
CONSTANTS Thread, Token

VARIABLES life,    \* token -> whether its session lives
          check,   \* thread -> {} or {the check it is making}
          answer   \* thread -> what it last answered

vars == <<life, check, answer>>

Init ==
  /\ life = [k \in Token |-> "unborn"]
  /\ check = [t \in Thread |-> {}]
  /\ answer = [t \in Thread |-> "none"]

Grant(k) ==
  /\ life[k] = "unborn"
  /\ life' = [life EXCEPT ![k] = "alive"]
  /\ UNCHANGED <<check, answer>>

\* Sessions end, and stay ended.
End(K) ==
  /\ \A k \in K : life[k] = "alive"
  /\ life' = [k \in Token |-> IF k \in K THEN "ended" ELSE life[k]]

\* A check keeps in mind whether the session lived when it was asked for.
Ask(t, k) ==
  /\ check[t] = {}
  /\ check' = [check EXCEPT ![t] = {[token |-> k, saw |-> life[k] = "alive"]}]
  /\ answer' = [answer EXCEPT ![t] = "none"]
  /\ UNCHANGED life

Reply(t, a) ==
  /\ check[t] # {}
  /\ check' = [check EXCEPT ![t] = {}]
  /\ answer' = [answer EXCEPT ![t] = a]

Accept(t) == Reply(t, "valid") /\ UNCHANGED life /\ \A c \in check[t] : c.saw

\* Refusing may be what ends the session.
Refuse(t) == /\ Reply(t, "invalid")
             /\ \A c \in check[t] : /\ UNCHANGED life \/ End({c.token})
                                    /\ life'[c.token] # "alive"

\* A server whose check failed, that took the session for expired and could not
\* delete it, or that dies, promises nothing: the session may live on.
Doubt(t) == (Reply(t, "unanswered") \/ Reply(t, "expired")) /\ UNCHANGED life

Die(T) == /\ check' = [t \in Thread |-> IF t \in T THEN {} ELSE check[t]]
          /\ UNCHANGED <<life, answer>>

Next ==
  \/ \E k \in Token : Grant(k)
  \/ \E K \in SUBSET Token : End(K) /\ UNCHANGED <<check, answer>>
  \/ \E t \in Thread : (\E k \in Token : Ask(t, k)) \/ Accept(t) \/ Refuse(t) \/ Doubt(t)
  \/ \E T \in SUBSET Thread : Die(T)

Spec == Init /\ [][Next]_vars
=============================================================================
