--------------------------- MODULE SessionsProofs ---------------------------
(* For any processes, threads, tokens, times to live and clocks that are no  *)
(* further apart than MaxSkew: when a session is honoured, when it is not,   *)
(* and that all who check it tell one story.                                 *)
EXTENDS Sessions, TLAPS

Work == [step : {"set", "get", "compare", "del"}, server : Server, token : Token,
         expires : Nat, saw : BOOLEAN]

\* What expires_at may be for a session that was made at m.
Stamped(k, e) == \A m \in made[k] : m + TTL <= e /\ e <= m + TTL + MaxSkew

Stamps ==
  /\ \A k \in Token : \A x \in redis[k] :
       Stamped(k, x.expires) /\ \A m \in made[k] : m + TTL <= x.drops
  /\ \A t \in Thread : job[t] # Idle =>
       /\ made[job[t].token] # {}
       /\ job[t].step # "get" => Stamped(job[t].token, job[t].expires)

\* By some clock the time of the session is over.
Over(k) == \A m \in made[k] : time + MaxSkew > m + TTL

\* A session is stored once, by one thread, before anyone asks for it; it goes
\* when its time is over; and who got it from Redis asked while it was there.
Story ==
  /\ \A k \in Token : redis[k] # {} => k \in stored
  /\ \A k \in stored : redis[k] = {} => Over(k)
  /\ \A t \in Thread : job[t].step = "set" =>
       /\ job[t].token \notin stored
       /\ \A u \in Thread : u # t /\ job[u] # Idle => job[u].token # job[t].token
  /\ \A t \in Thread :
       /\ job[t].step \in {"compare", "del"} => job[t].saw
       /\ job[t].step = "del" => Over(job[t].token)
       /\ job[t].step = "get" /\ ~job[t].saw => Kept(job[t].token) = {}

SInv == TypeOK /\ Stamps /\ Story

LEMMA JobFacts ==
  ASSUME TypeOK, NEW t \in Thread
  PROVE  /\ job[t] # Idle => job[t] \in Work
         /\ job[t].step \in {"set", "get", "compare", "del"} <=> job[t] # Idle
<1>1. Idle.step = "idle"
  BY DEF Idle, Job
<1>2. job[t] = Idle \/ job[t] \in Work
  BY DEF TypeOK, Work
<1>3. job[t] \in Work => job[t].step \in {"set", "get", "compare", "del"}
  BY DEF Work
<1> QED BY <1>1, <1>2, <1>3

\* A thread that is told an answer is idle again.
LEMMA JobType ==
  ASSUME TypeOK, NEW t \in Thread, NEW j, j = Idle \/ j \in Work, job' = [job EXCEPT ![t] = j]
  PROVE  /\ DOMAIN job' = Thread
         /\ \A u \in Thread : job'[u] = IF u = t THEN j ELSE job[u]
         /\ \A u \in Thread :
              job'[u] = Idle \/ job'[u] \in [step : {"set", "get", "compare", "del"}, server : Server,
                                           token : Token, expires : Nat, saw : BOOLEAN]
BY DEF TypeOK, Work

LEMMA TimeFacts ==
  ASSUME TypeOK PROVE time \in Nat /\ time <= MaxTime
<1>1. time \in 0..MaxTime /\ MaxTime \in Nat
  BY SessionsAssumption DEF TypeOK
<1> QED BY <1>1

LEMMA ClockFacts ==
  ASSUME TypeOK, NEW s \in Server
  PROVE  now(s) \in Nat /\ time <= now(s) /\ now(s) <= time + MaxSkew
<1>1. ahead[s] \in 0..MaxSkew /\ MaxSkew \in Nat
  BY SessionsAssumption DEF TypeOK
<1> QED BY <1>1, TimeFacts DEF now

LEMMA SessionsInit == Init => SInv
<1> SUFFICES ASSUME Init PROVE SInv
  OBVIOUS
<1>1. TypeOK
  BY SessionsAssumption DEF Init, TypeOK, AtMostOne, Answer
<1>2. \A t \in Thread : job[t] = Idle /\ job[t].step = "idle"
  BY DEF Init, Idle, Job
<1>3. Stamps
  BY <1>2 DEF Init, Stamps
<1>4. Story
  BY <1>2 DEF Init, Story
<1> QED BY <1>1, <1>3, <1>4 DEF SInv
----------------------------------------------------------------------------
(* CreateSession. *)

LEMMA StampKeeps ==
  ASSUME SInv, NEW t \in Thread, NEW s \in Server, NEW k \in Token, Stamp(t, s, k)
  PROVE  SInv'
<1> DEFINE j == Job("set", s, k, now(s) + TTL, FALSE)
<1>1. /\ made[k] = {} /\ made' = [made EXCEPT ![k] = {time}] /\ job[t] = Idle
      /\ job' = [job EXCEPT ![t] = j] /\ UNCHANGED <<time, ahead, connected, redis, stored, answer>>
  BY DEF Stamp, Begin
<1>2. now(s) \in Nat /\ time <= now(s) /\ now(s) <= time + MaxSkew /\ TTL \in Nat
  BY ClockFacts, SessionsAssumption DEF SInv
<1>3. /\ j \in Work /\ j # Idle /\ j.step = "set" /\ j.token = k /\ j.expires = now(s) + TTL
      /\ Idle.step = "idle"
  BY <1>2 DEF Work, Job, Idle
<1> HIDE DEF j
<1>4. /\ \A u \in Thread : job'[u] = IF u = t THEN j ELSE job[u]
      /\ DOMAIN job' = Thread
      /\ \A u \in Thread :
           job'[u] = Idle \/ job'[u] \in [step : {"set", "get", "compare", "del"}, server : Server,
                                        token : Token, expires : Nat, saw : BOOLEAN]
  BY <1>1, <1>3, JobType DEF SInv
<1>5. /\ made'[k] = {time} /\ \A l \in Token : l # k => made'[l] = made[l]
      /\ k \notin stored /\ redis[k] = {} /\ stored \subseteq Token /\ time \in Nat
  <2>1. made \in [Token -> SUBSET (0..time)] /\ stored \subseteq {l \in Token : made[l] # {}}
    BY DEF SInv, TypeOK
  <2>2. time \in Nat
    BY TimeFacts DEF SInv
  <2>3. k \notin stored /\ (redis[k] # {} => k \in stored)
    BY <1>1, <2>1 DEF SInv, Story
  <2> QED BY <1>1, <2>1, <2>2, <2>3
<1>6. \A u \in Thread : job[u] # Idle => job[u].token # k /\ job[u].token \in Token
  BY <1>1, JobFacts DEF SInv, Stamps, Work
<1>7. TypeOK'
  <2>1. made' \in [Token -> SUBSET (0..time)] /\ \A l \in Token : AtMostOne(made'[l])
    <3>1. made \in [Token -> SUBSET (0..time)] /\ \A l \in Token : AtMostOne(made[l])
      BY DEF SInv, TypeOK
    <3>2. {time} \subseteq 0..time
      BY <1>5
    <3> QED BY <1>1, <1>5, <3>1, <3>2 DEF AtMostOne
  <2>2. stored' \subseteq {l \in Token : made'[l] # {}}
    BY <1>1, <1>5 DEF SInv, TypeOK
  <2> QED BY <1>1, <1>4, <2>1, <2>2 DEF SInv, TypeOK
<1>8. Stamps'
  <2>1. ASSUME NEW l \in Token, NEW x \in redis'[l]
        PROVE  Stamped(l, x.expires)' /\ \A m \in made'[l] : m + TTL <= x.drops
    BY <1>1, <1>5 DEF SInv, Stamps, Stamped
  <2>2. ASSUME NEW u \in Thread, job'[u] # Idle
        PROVE  /\ made'[job'[u].token] # {}
               /\ job'[u].step # "get" => Stamped(job[u].token, job[u].expires)'
    <3>1. CASE u = t
      <4>1. job'[u] = j /\ made'[j.token] = {time}
        BY <3>1, <1>3, <1>4, <1>5
      <4>2. time + TTL <= j.expires /\ j.expires <= time + TTL + MaxSkew
        BY <1>2, <1>3, <1>5, SessionsAssumption
      <4> QED BY <4>1, <4>2 DEF Stamped
    <3>2. CASE u # t
      BY <2>2, <3>2, <1>4, <1>5, <1>6 DEF SInv, Stamps, Stamped
    <3> QED BY <3>1, <3>2
  <2> QED BY <2>1, <2>2 DEF Stamps
<1>9. Story'
  <2>1. /\ \A l \in Token : redis'[l] # {} => l \in stored'
        /\ \A l \in stored' : redis'[l] = {} => Over(l)'
    BY <1>1, <1>5 DEF SInv, Story, Over
  <2>2. ASSUME NEW u \in Thread, job'[u].step = "set"
        PROVE  /\ job'[u].token \notin stored'
               /\ \A v \in Thread : v # u /\ job'[v] # Idle => job'[v].token # job'[u].token
    BY <2>2, <1>1, <1>3, <1>4, <1>5, <1>6, JobFacts DEF SInv, Story
  <2>3. ASSUME NEW u \in Thread
        PROVE  /\ job'[u].step \in {"compare", "del"} => job'[u].saw
               /\ job'[u].step = "del" => Over(job[u].token)'
               /\ job'[u].step = "get" /\ ~job'[u].saw => Kept(job[u].token)' = {}
    <3>1. CASE u = t
      BY <3>1, <1>3, <1>4
    <3>2. CASE u # t
      <4>1. job'[u] = job[u]
        BY <1>4, <3>2
      <4>2. job[u].step \in {"get", "del"} => job[u].token \in Token /\ job[u].token # k
        BY <1>6, JobFacts DEF SInv
      <4>3. job[u].step = "del" => Over(job[u].token)'
        BY <4>1, <4>2, <1>1, <1>5 DEF SInv, Story, Over
      <4>4. job[u].step = "get" /\ ~job[u].saw => Kept(job[u].token)' = {}
        BY <4>1, <1>1 DEF SInv, Story, Kept
      <4> QED BY <4>1, <4>3, <4>4 DEF SInv, Story
    <3> QED BY <3>1, <3>2
  <2> QED BY <2>1, <2>2, <2>3 DEF Story
<1> QED BY <1>7, <1>8, <1>9 DEF SInv
----------------------------------------------------------------------------
(* Steps that make no session: the job of one thread, and what Redis keeps. *)

Told == [Thread -> Answer]

\* A job that a thread may have besides those of the others.
Fits(t, j) ==
  \/ j = Idle
  \/ /\ j \in Work /\ j.step # "set" /\ made[j.token] # {}
     /\ j.step # "get" => j.saw /\ Stamped(j.token, j.expires)
     /\ j.step = "del" => Over(j.token)
     /\ \A u \in Thread : u # t /\ job[u].step = "set" => job[u].token # j.token

Redis ==
  /\ redis \in [Token -> SUBSET Session] /\ \A k \in Token : AtMostOne(redis[k])
  /\ stored \subseteq {k \in Token : made[k] # {}}
  /\ \A k \in Token : \A x \in redis[k] :
       Stamped(k, x.expires) /\ \A m \in made[k] : m + TTL <= x.drops
  /\ \A k \in Token : redis[k] # {} => k \in stored
  /\ \A k \in stored : redis[k] = {} => Over(k)

LEMMA RedisFacts == SInv => Redis
BY DEF SInv, TypeOK, Stamps, Story, Redis

LEMMA JobKeeps ==
  ASSUME SInv, NEW t \in Thread, NEW j, Fits(t, j), job' = [job EXCEPT ![t] = j],
         UNCHANGED <<time, ahead, connected, made>>, answer' \in Told, Redis',
         \A u \in Thread : u # t /\ job[u].step = "set" => job[u].token \notin stored',
         \A u \in Thread : u # t /\ job[u].step = "get" /\ ~job[u].saw => Kept(job[u].token)' = {},
         j.step = "get" /\ ~j.saw => Kept(j.token)' = {}
  PROVE  SInv'
<1>1. /\ \A u \in Thread : job'[u] = IF u = t THEN j ELSE job[u]
      /\ DOMAIN job' = Thread
      /\ \A u \in Thread :
           job'[u] = Idle \/ job'[u] \in [step : {"set", "get", "compare", "del"}, server : Server,
                                        token : Token, expires : Nat, saw : BOOLEAN]
  BY JobType DEF SInv, Fits
<1>2. Idle.step = "idle"
  BY DEF Idle, Job
<1>3. TypeOK'
  BY <1>1 DEF SInv, TypeOK, Redis, Told
<1>4. Stamps'
  <2>1. ASSUME NEW u \in Thread, job'[u] # Idle
        PROVE  /\ made'[job'[u].token] # {}
               /\ job'[u].step # "get" => Stamped(job[u].token, job[u].expires)'
    <3>1. CASE u = t
      BY <2>1, <3>1, <1>1 DEF Fits, Stamped
    <3>2. CASE u # t
      BY <2>1, <3>2, <1>1 DEF SInv, Stamps, Stamped
    <3> QED BY <3>1, <3>2
  <2> QED BY <2>1 DEF Stamps, Redis
<1>5. Story'
  <2>1. ASSUME NEW u \in Thread, job'[u].step = "set"
        PROVE  /\ job'[u].token \notin stored'
               /\ \A v \in Thread : v # u /\ job'[v] # Idle => job'[v].token # job'[u].token
    <3>1. u # t /\ job'[u] = job[u]
      BY <2>1, <1>1, <1>2 DEF Fits
    <3>2. \A v \in Thread : v # u /\ v # t /\ job[v] # Idle => job[v].token # job[u].token
      BY <2>1, <3>1 DEF SInv, Story
    <3> QED BY <2>1, <3>1, <3>2, <1>1 DEF Fits
  <2>2. ASSUME NEW u \in Thread
        PROVE  /\ job'[u].step \in {"compare", "del"} => job'[u].saw
               /\ job'[u].step = "del" => Over(job[u].token)'
               /\ job'[u].step = "get" /\ ~job'[u].saw => Kept(job[u].token)' = {}
    <3>1. CASE u = t
      BY <3>1, <1>1, <1>2 DEF Fits, Over, Kept
    <3>2. CASE u # t
      BY <3>2, <1>1 DEF SInv, Story, Over, Kept
    <3> QED BY <3>1, <3>2
  <2> QED BY <2>1, <2>2 DEF Story, Redis
<1> QED BY <1>3, <1>4, <1>5 DEF SInv

\* What Redis keeps stays.
LEMMA JobOnly ==
  ASSUME SInv, NEW t \in Thread, NEW j, Fits(t, j), job' = [job EXCEPT ![t] = j],
         UNCHANGED <<time, ahead, connected, made, redis, stored>>, answer' \in Told,
         j.step = "get" /\ ~j.saw => Kept(j.token) = {}
  PROVE  SInv'
<1>1. Redis'
  BY RedisFacts DEF Redis, Stamped, Over
<1>2. \A k : Kept(k)' = Kept(k)
  BY DEF Kept
<1>3. \A u \in Thread : u # t /\ job[u].step = "set" => job[u].token \notin stored'
  BY DEF SInv, Story
<1>4. \A u \in Thread : u # t /\ job[u].step = "get" /\ ~job[u].saw => Kept(job[u].token)' = {}
  BY <1>2 DEF SInv, Story
<1> QED BY <1>1, <1>2, <1>3, <1>4, JobKeeps

LEMMA ToldType == ASSUME SInv PROVE answer \in Told
BY DEF SInv, TypeOK, Told

LEMMA AnswerType ==
  ASSUME SInv, NEW t \in Thread, NEW a \in Answer PROVE [answer EXCEPT ![t] = a] \in Told
BY DEF SInv, TypeOK, Told

LEMMA IdleFits == ASSUME NEW t PROVE Fits(t, Idle) /\ Idle.step = "idle"
BY DEF Fits, Idle, Job
----------------------------------------------------------------------------
(* The rest of CreateSession, and ValidateSession. *)

LEMMA SetKeeps == ASSUME SInv, NEW t \in Thread, set(t) PROVE SInv'
<1> DEFINE k == job[t].token
           x == [expires |-> job[t].expires, drops |-> time + TTL]
<1>1. /\ job[t].step = "set" /\ job' = [job EXCEPT ![t] = Idle]
      /\ UNCHANGED <<time, ahead, connected, made, answer>>
  BY DEF set
<1>2. CASE UNCHANGED <<redis, stored>>
  BY <1>1, <1>2, JobOnly, IdleFits, ToldType
<1>3. CASE redis' = [redis EXCEPT ![k] = {x}] /\ stored' = stored \union {k}
  <2>1. /\ job[t] # Idle /\ job[t] \in Work /\ time \in Nat /\ TTL \in Nat
        /\ k \in Token /\ job[t].expires \in Nat
    BY <1>1, JobFacts, TimeFacts, SessionsAssumption DEF SInv, Work
  <2>2. made[k] # {} /\ Stamped(k, x.expires)
    BY <1>1, <2>1 DEF SInv, Stamps
  <2>3. x \in Session
    BY <2>1 DEF Session
  <2>4. \A m \in made[k] : m + TTL <= x.drops
    <3>1. made[k] \subseteq 0..time
      BY <2>1 DEF SInv, TypeOK
    <3> QED BY <2>1, <3>1
  <2>5. Redis'
    <3>1. /\ redis'[k] = {x} /\ \A l \in Token : l # k => redis'[l] = redis[l]
          /\ redis' \in [Token -> SUBSET Session]
      BY <1>3, <2>1, <2>3, RedisFacts DEF Redis
    <3>2. \A l \in Token : AtMostOne(redis'[l])
      BY <3>1, RedisFacts DEF Redis, AtMostOne
    <3>3. stored' \subseteq {l \in Token : made'[l] # {}}
      BY <1>1, <1>3, <2>1, <2>2, RedisFacts DEF Redis
    <3>4. \A l \in Token : \A y \in redis'[l] :
            Stamped(l, y.expires)' /\ \A m \in made'[l] : m + TTL <= y.drops
      BY <1>1, <2>2, <2>4, <3>1, RedisFacts DEF Redis, Stamped
    <3>5. /\ \A l \in Token : redis'[l] # {} => l \in stored'
          /\ \A l \in stored' : redis'[l] = {} => Over(l)'
      BY <1>1, <1>3, <3>1, <3>3, RedisFacts DEF Redis, Over
    <3> QED BY <3>1, <3>2, <3>3, <3>4, <3>5 DEF Redis
  <2>6. ASSUME NEW u \in Thread, u # t
        PROVE  job[u] # Idle => job[u].token # k
    BY <2>6, <1>1 DEF SInv, Story
  <2>7. ASSUME NEW u \in Thread, u # t, job[u].step = "set" PROVE job[u].token \notin stored'
    BY <2>6, <2>7, <1>3, JobFacts DEF SInv, Story
  <2>8. ASSUME NEW u \in Thread, u # t, job[u].step = "get", ~job[u].saw
        PROVE  Kept(job[u].token)' = {}
    <3>1. job[u].token # k /\ job[u].token \in Token /\ Kept(job[u].token) = {}
      BY <2>6, <2>8, JobFacts DEF SInv, Story, Work
    <3> QED BY <1>1, <1>3, <3>1, RedisFacts DEF Kept, Redis
  <2> QED BY <1>1, <2>5, <2>7, <2>8, IdleFits, ToldType, JobKeeps
<1> QED BY <1>2, <1>3 DEF set

LEMMA AskKeeps ==
  ASSUME SInv, NEW t \in Thread, NEW s \in Server, NEW k \in Token, Ask(t, s, k)
  PROVE  SInv'
<1> DEFINE j == Job("get", s, k, 0, Kept(k) # {})
<1>1. /\ made[k] # {} /\ (\A u \in Thread : job[u].step = "set" => job[u].token # k)
      /\ job' = [job EXCEPT ![t] = j] /\ answer' = [answer EXCEPT ![t] = None]
      /\ UNCHANGED <<time, ahead, connected, made, redis, stored>>
  BY DEF Ask, Begin
<1>2. j \in Work /\ j.step = "get" /\ j.token = k /\ (~j.saw => Kept(k) = {})
  BY DEF Work, Job
<1> HIDE DEF j
<1>3. Fits(t, j)
  BY <1>1, <1>2 DEF Fits
<1> QED BY <1>1, <1>2, <1>3, AnswerType, JobOnly DEF Answer, None

LEMMA GetKeeps == ASSUME SInv, NEW t \in Thread, get(t) PROVE SInv'
<1>1. /\ job[t].step = "get" /\ UNCHANGED <<time, ahead, connected, made, redis, stored>>
  BY DEF get
<1>2. CASE \E a \in {"unanswered", "invalid"} : Return(t, a)
  BY <1>1, <1>2, AnswerType, IdleFits, JobOnly DEF Return, Answer
<1>3. ASSUME NEW x \in Kept(job[t].token),
             job' = [job EXCEPT ![t].step = "compare", ![t].expires = x.expires], UNCHANGED answer
      PROVE  SInv'
  <2> DEFINE j == [job[t] EXCEPT !.step = "compare", !.expires = x.expires]
  <2>1. /\ job[t] # Idle /\ job[t] \in Work /\ DOMAIN job = Thread /\ job[t].token \in Token
    BY <1>1, JobFacts DEF SInv, TypeOK, Work
  <2>2. job' = [job EXCEPT ![t] = j]
    BY <1>3, <2>1
  <2>3. x \in redis[job[t].token] /\ x \in Session
    BY <2>1, RedisFacts DEF Kept, Redis
  <2>4. /\ j \in Work /\ j.step = "compare" /\ j.token = job[t].token /\ j.expires = x.expires
        /\ j.saw = job[t].saw
    BY <2>1, <2>3 DEF Work, Session
  <2>5. job[t].saw
    BY <1>1, <1>3, <2>1 DEF SInv, Story, Work
  <2>6. made[job[t].token] # {} /\ Stamped(job[t].token, x.expires)
    BY <2>1, <2>3 DEF SInv, Stamps
  <2>7. \A u \in Thread : u # t /\ job[u].step = "set" => job[u].token # job[t].token
    BY <2>1 DEF SInv, Story
  <2> HIDE DEF j
  <2>8. Fits(t, j)
    BY <2>4, <2>5, <2>6, <2>7 DEF Fits
  <2> QED BY <1>1, <1>3, <2>2, <2>4, <2>8, ToldType, JobOnly
<1> QED BY <1>2, <1>3 DEF get

\* By the clock of the process the time is over only if it is by some clock.
LEMMA ExpiredIsOver ==
  ASSUME SInv, NEW t \in Thread, job[t].step = "compare", Expired(t)
  PROVE  Over(job[t].token)
<1>1. /\ job[t] # Idle /\ job[t].server \in Server /\ job[t].expires \in Nat
      /\ job[t].token \in Token
  BY JobFacts DEF SInv, Work
<1>2. /\ now(job[t].server) \in Nat /\ now(job[t].server) <= time + MaxSkew
      /\ time \in Nat /\ TTL \in Nat /\ MaxSkew \in Nat
  BY <1>1, ClockFacts, TimeFacts, SessionsAssumption DEF SInv
<1>3. /\ Stamped(job[t].token, job[t].expires)
      /\ made[job[t].token] \subseteq 0..time
  BY <1>1 DEF SInv, TypeOK, Stamps
<1> QED BY <1>1, <1>2, <1>3 DEF Expired, Stamped, Over

LEMMA ValidateKeeps == ASSUME SInv, NEW t \in Thread, validate(t) PROVE SInv'
<1>1. /\ job[t].step = "compare" /\ UNCHANGED <<time, ahead, connected, made, redis, stored>>
  BY DEF validate
<1>2. CASE Expired(t)
  <2> DEFINE j == [job[t] EXCEPT !.step = "del"]
  <2>1. /\ job[t] # Idle /\ job[t] \in Work /\ DOMAIN job = Thread
    BY <1>1, JobFacts DEF SInv, TypeOK
  <2>2. job' = [job EXCEPT ![t] = j] /\ UNCHANGED answer
    BY <1>2, <2>1 DEF validate
  <2>3. /\ j \in Work /\ j.step = "del" /\ j.token = job[t].token /\ j.expires = job[t].expires
        /\ j.saw = job[t].saw
    BY <2>1 DEF Work
  <2>4. /\ job[t].saw /\ made[job[t].token] # {} /\ Stamped(job[t].token, job[t].expires)
        /\ \A u \in Thread : u # t /\ job[u].step = "set" => job[u].token # job[t].token
    BY <1>1, <2>1 DEF SInv, Stamps, Story
  <2>5. Over(job[t].token)
    BY <1>1, <1>2, ExpiredIsOver
  <2> HIDE DEF j
  <2>6. Fits(t, j)
    BY <2>3, <2>4, <2>5 DEF Fits
  <2> QED BY <1>1, <2>2, <2>3, <2>6, ToldType, JobOnly
<1>3. CASE ~Expired(t)
  <2>1. Return(t, "valid")
    BY <1>3 DEF validate
  <2> QED BY <1>1, <2>1, AnswerType, IdleFits, JobOnly DEF Return, Answer
<1> QED BY <1>2, <1>3

LEMMA DelKeeps == ASSUME SInv, NEW t \in Thread, del(t) PROVE SInv'
<1> DEFINE k == job[t].token
<1>1. /\ job[t].step = "del" /\ UNCHANGED <<time, ahead, connected, made, stored>>
      /\ job[t] # Idle /\ k \in Token /\ Over(k)
  BY JobFacts DEF del, SInv, Story, Work
<1>2. CASE Return(t, "expired") /\ UNCHANGED redis
  BY <1>1, <1>2, AnswerType, IdleFits, JobOnly DEF Return, Answer
<1>3. CASE redis' = [redis EXCEPT ![k] = {}] /\ Return(t, "invalid")
  <2>1. redis'[k] = {} /\ \A l \in Token : l # k => redis'[l] = redis[l]
    BY <1>1, <1>3, RedisFacts DEF Redis
  <2>2. Redis'
    <3>1. redis' \in [Token -> SUBSET Session] /\ \A l \in Token : AtMostOne(redis'[l])
      BY <1>3, <2>1, RedisFacts DEF Redis, AtMostOne
    <3>2. \A l \in Token : \A y \in redis'[l] :
            Stamped(l, y.expires)' /\ \A m \in made'[l] : m + TTL <= y.drops
      BY <1>1, <2>1, RedisFacts DEF Redis, Stamped
    <3>3. /\ \A l \in Token : redis'[l] # {} => l \in stored'
          /\ \A l \in stored' : redis'[l] = {} => Over(l)'
          /\ stored' \subseteq {l \in Token : made'[l] # {}}
      BY <1>1, <2>1, RedisFacts DEF Redis, Over
    <3> QED BY <3>1, <3>2, <3>3 DEF Redis
  <2>3. ASSUME NEW u \in Thread, u # t, job[u].step = "get", ~job[u].saw
        PROVE  Kept(job[u].token)' = {}
    <3>1. job[u].token \in Token /\ Kept(job[u].token) = {}
      BY <2>3, JobFacts DEF SInv, Story, Work
    <3>2. job'[u] = job[u]
      BY <1>3, <2>3 DEF SInv, TypeOK, Return
    <3>3. CASE job[u].token = k
      BY <1>1, <2>1, <3>1, <3>3, <3>2 DEF Kept
    <3>4. CASE job[u].token # k
      <4>1. redis'[job[u].token] = redis[job[u].token]
        BY <2>1, <3>1, <3>4
      <4> QED BY <1>1, <3>1, <3>2, <4>1 DEF Kept
    <3> QED BY <3>3, <3>4
  <2>4. \A u \in Thread : u # t /\ job[u].step = "set" => job[u].token \notin stored'
    BY <1>1 DEF SInv, Story
  <2> QED BY <1>1, <1>3, <2>2, <2>3, <2>4, AnswerType, IdleFits, JobKeeps DEF Return, Answer
<1> QED BY <1>2, <1>3 DEF del
----------------------------------------------------------------------------
(* Time, connections and processes. *)

LEMMA TickKeeps == ASSUME SInv, Tick PROVE SInv'
<1>1. /\ time' = time + 1 /\ time \in Nat /\ time' \in 0..MaxTime
      /\ UNCHANGED <<ahead, connected, redis, made, stored, job, answer>>
  <2>1. /\ time < MaxTime /\ time' = time + 1
        /\ UNCHANGED <<ahead, connected, redis, made, stored, job, answer>>
    BY DEF Tick
  <2> QED BY <2>1, TimeFacts, SessionsAssumption DEF SInv
<1>2. 0..time \subseteq 0..time'
  BY <1>1
<1>3. TypeOK'
  BY <1>1, <1>2 DEF SInv, TypeOK
<1>4. Stamps'
  BY <1>1 DEF SInv, Stamps, Stamped
<1>5. ASSUME NEW k \in Token, Over(k) PROVE Over(k)'
  <2>1. made[k] \subseteq 0..time /\ TTL \in Nat /\ MaxSkew \in Nat
    BY SessionsAssumption DEF SInv, TypeOK
  <2> QED BY <1>1, <1>5, <2>1 DEF Over
<1>6. ASSUME NEW k \in Token PROVE Kept(k)' \subseteq Kept(k)
  <2>1. \A x \in redis[k] : x.drops \in Nat
    <3>1. redis[k] \subseteq Session
      BY DEF SInv, TypeOK
    <3> QED BY <3>1 DEF Session
  <2> QED BY <1>1, <2>1 DEF Kept
<1>7. \A t \in Thread : job[t].step \in {"set", "get", "compare", "del"} => job[t].token \in Token
  BY JobFacts DEF SInv, Work
<1>8. stored \subseteq Token
  BY DEF SInv, TypeOK
<1>9. Story'
  <2>1. /\ \A k \in Token : redis'[k] # {} => k \in stored'
        /\ \A k \in stored' : redis'[k] = {} => Over(k)'
    BY <1>1, <1>5, <1>8 DEF SInv, Story
  <2>2. \A t \in Thread :
          /\ job'[t].step \in {"compare", "del"} => job'[t].saw
          /\ job'[t].step = "del" => Over(job[t].token)'
    BY <1>1, <1>5, <1>7 DEF SInv, Story
  <2>3. ASSUME NEW t \in Thread, job[t].step = "get", ~job[t].saw PROVE Kept(job[t].token)' = {}
    <3>1. Kept(job[t].token) = {} /\ job[t].token \in Token /\ job' = job
      BY <2>3, <1>1, <1>7 DEF SInv, Story
    <3>2. Kept(job[t].token)' = {x \in redis'[job[t].token] : time' <= x.drops}
      BY <3>1 DEF Kept
    <3>3. {x \in redis'[job[t].token] : time' <= x.drops} \subseteq Kept(job[t].token)
      BY <3>1, <1>6 DEF Kept
    <3> QED BY <3>1, <3>2, <3>3
  <2>4. \A k : Kept(k)' = {x \in redis'[k] : time' <= x.drops}
    BY DEF Kept
  <2> QED BY <1>1, <2>1, <2>2, <2>3, <2>4 DEF SInv, Story
<1> QED BY <1>3, <1>4, <1>9 DEF SInv

LEMMA BreakKeeps == ASSUME SInv, NEW s \in Server, Break(s) PROVE SInv'
<1>1. /\ connected' \in [Server -> BOOLEAN]
      /\ UNCHANGED <<time, ahead, redis, made, stored, job, answer>>
  BY DEF Break, SInv, TypeOK
<1> QED BY <1>1 DEF SInv, TypeOK, Stamps, Stamped, Story, Over, Kept

LEMMA RestartKeeps == ASSUME SInv, NEW s \in Server, Restart(s) PROVE SInv'
<1>1. /\ connected' \in [Server -> BOOLEAN]
      /\ UNCHANGED <<time, ahead, redis, made, stored, answer>>
  BY DEF Restart, SInv, TypeOK
<1>2. /\ DOMAIN job' = Thread
      /\ \A t \in Thread : job'[t] = Idle \/ job'[t] = job[t]
  BY DEF Restart
<1>3. Idle.step = "idle"
  BY DEF Idle, Job
<1>4. TypeOK'
  BY <1>1, <1>2 DEF SInv, TypeOK
<1>5. Stamps'
  BY <1>1, <1>2 DEF SInv, Stamps, Stamped
<1>6. Story'
  BY <1>1, <1>2, <1>3 DEF SInv, Story, Over, Kept
<1> QED BY <1>4, <1>5, <1>6 DEF SInv

LEMMA SessionsStep == SInv /\ [Next]_vars => SInv'
<1>1. ASSUME SInv, UNCHANGED vars PROVE SInv'
  <2>1. UNCHANGED <<time, ahead, connected, redis, made, stored, job, answer>>
    BY <1>1 DEF vars
  <2>2. TypeOK'
    BY <1>1, <2>1 DEF SInv, TypeOK
  <2>3. Stamps'
    BY <1>1, <2>1 DEF SInv, Stamps, Stamped
  <2>4. Story'
    BY <1>1, <2>1 DEF SInv, Story, Over, Kept
  <2> QED BY <2>2, <2>3, <2>4 DEF SInv
<1> QED BY <1>1, StampKeeps, SetKeeps, AskKeeps, GetKeeps, ValidateKeeps, DelKeeps,
           TickKeeps, BreakKeeps, RestartKeeps DEF Next

LEMMA SessionsInvariant == Spec => []SInv
BY SessionsInit, SessionsStep, PTL DEF Spec
----------------------------------------------------------------------------
(* Who is honoured, and who refused. *)

\* What each variable may hold, at most one session to a token among it.
THEOREM TypesOfSessions == Spec => []TypeOK
<1>1. SInv => TypeOK
  BY DEF SInv
<1> QED BY <1>1, SessionsInvariant, PTL

\* An answer that a check was not given before ends it.
LEMMA Answering ==
  ASSUME SInv, [Next]_vars, NEW t \in Thread, NEW a \in Answer \ {None}, Answers(t, a)
  PROVE  (get(t) \/ validate(t) \/ del(t)) /\ Return(t, a)
<1>1. DOMAIN answer = Thread /\ answer[t] # a /\ answer'[t] = a /\ a # None
  BY DEF SInv, TypeOK, Answers, Answer, None
<1>2. ASSUME NEW u \in Thread, NEW b, Return(u, b) PROVE u = t /\ b = a
  BY <1>1, <1>2 DEF Return
<1>3. ASSUME NEW u \in Thread, NEW s \in Server, NEW k \in Token, Ask(u, s, k) PROVE FALSE
  BY <1>1, <1>3 DEF Ask
<1>4. ~UNCHANGED answer
  BY <1>1
<1>5. PICK u \in Thread : get(u) \/ validate(u) \/ del(u)
  BY <1>3, <1>4 DEF Next, vars, Stamp, set, Tick, Break, Restart
<1>6. PICK b : Return(u, b)
  BY <1>4, <1>5 DEF get, validate, del
<1> QED BY <1>2, <1>5, <1>6

LEMMA Accepting ==
  ASSUME SInv, [Next]_vars, NEW t \in Thread, Answers(t, "valid")
  PROVE  job[t].step = "compare" /\ ~Expired(t) /\ validate(t)
<1>1. (get(t) \/ validate(t) \/ del(t)) /\ Return(t, "valid")
  BY Answering DEF Answer, None
<1>2. answer' = [answer EXCEPT ![t] = "valid"] /\ answer[t] # "valid" /\ DOMAIN answer = Thread
  BY <1>1 DEF Return, Answers, SInv, TypeOK
<1>3. ~get(t) /\ ~del(t)
  BY <1>2 DEF get, del, Return
<1> QED BY <1>1, <1>2, <1>3 DEF validate

LEMMA Refusing ==
  ASSUME SInv, [Next]_vars, NEW t \in Thread, NEW a \in {"invalid", "expired"}, Answers(t, a)
  PROVE  \/ job[t].step = "get" /\ Kept(job[t].token) = {}
         \/ job[t].step = "del"
<1>1. (get(t) \/ validate(t) \/ del(t)) /\ Return(t, a)
  BY Answering DEF Answer, None
<1>2. answer' = [answer EXCEPT ![t] = a] /\ answer[t] # a /\ DOMAIN answer = Thread
  BY <1>1 DEF Return, Answers, SInv, TypeOK
<1>3. ~validate(t)
  BY <1>2 DEF validate, Return
<1> QED BY <1>1, <1>2, <1>3 DEF get, del, Return

\* No process, whatever its clock, accepts a session that is older than its time
\* to live and what the clocks may be apart.
THEOREM StaleAreRefused == Spec => RefusedWhenStale
<1>1. SInv /\ [Next]_vars =>
        \A t \in Thread :
          Answers(t, "valid") => \A m \in made[job[t].token] : time <= m + TTL + MaxSkew
  <2> SUFFICES ASSUME SInv, [Next]_vars, NEW t \in Thread, Answers(t, "valid"),
                      NEW m \in made[job[t].token]
               PROVE  time <= m + TTL + MaxSkew
    OBVIOUS
  <2>1. job[t].step = "compare" /\ ~Expired(t)
    BY Accepting
  <2>2. /\ job[t] # Idle /\ job[t].server \in Server /\ job[t].expires \in Nat
        /\ job[t].token \in Token
    BY <2>1, JobFacts DEF SInv, Work
  <2>3. /\ now(job[t].server) \in Nat /\ time <= now(job[t].server) /\ time \in Nat
        /\ TTL \in Nat /\ MaxSkew \in Nat
    BY <2>2, ClockFacts, TimeFacts, SessionsAssumption DEF SInv
  <2>4. job[t].expires <= m + TTL + MaxSkew /\ m \in 0..time
    BY <2>1, <2>2 DEF SInv, Stamps, Stamped, TypeOK
  <2> QED BY <2>1, <2>2, <2>3, <2>4 DEF Expired
<1> QED BY <1>1, SessionsInvariant, PTL DEF Spec, RefusedWhenStale

\* A session that was stored is refused by nobody whom Redis answers before its
\* time is over by some clock.
THEOREM FreshAreHonoured == Spec => HonouredWhileFresh
<1>1. SInv /\ [Next]_vars =>
        \A t \in Thread :
          (Answers(t, "invalid") \/ Answers(t, "expired")) /\ job[t].token \in stored =>
            \A m \in made[job[t].token] : time + MaxSkew > m + TTL
  <2> SUFFICES ASSUME SInv, [Next]_vars, NEW t \in Thread,
                      NEW a \in {"invalid", "expired"}, Answers(t, a), job[t].token \in stored
               PROVE  Over(job[t].token)
    BY DEF Over
  <2> DEFINE k == job[t].token
  <2>1. CASE job[t].step = "del"
    BY <2>1 DEF SInv, Story
  <2>2. CASE Kept(k) = {} /\ redis[k] = {}
    BY <2>2 DEF SInv, Story
  <2>3. CASE Kept(k) = {} /\ redis[k] # {}
    <3>1. PICK x \in redis[k] : ~(time <= x.drops)
      BY <2>3 DEF Kept
    <3>2. k \in Token
      BY DEF SInv, TypeOK
    <3>3. /\ x \in Session /\ made[k] \subseteq 0..time /\ \A m \in made[k] : m + TTL <= x.drops
      BY <3>1, <3>2 DEF SInv, TypeOK, Stamps
    <3>4. time \in Nat /\ TTL \in Nat /\ MaxSkew \in Nat /\ x.drops \in Nat
      BY <3>3, TimeFacts, SessionsAssumption DEF SInv, Session
    <3> QED BY <3>1, <3>3, <3>4 DEF Over
  <2> QED BY <2>1, <2>2, <2>3, Refusing
<1> QED BY <1>1, SessionsInvariant, PTL DEF Spec, HonouredWhileFresh
----------------------------------------------------------------------------
(* The story that all checks tell: each step is one of SessionTable, or none. *)

life == [k \in Token |-> Life(k)]
Asked(j) == IF j.step \in {"get", "compare", "del"} THEN {[token |-> j.token, saw |-> j.saw]} ELSE {}
check == [t \in Thread |-> Asked(job[t])]

TableCheck ==
  [t \in Thread |-> IF Checks(t) THEN {[token |-> job[t].token, saw |-> job[t].saw]} ELSE {}]

LEMMA CheckIs == check = TableCheck /\ check' = TableCheck'
BY DEF check, Asked, Checks, TableCheck

LEMMA InitCall ==
  ASSUME life = [k \in Token |-> "unborn"], check = [t \in Thread |-> {}],
         answer = [t \in Thread |-> "none"]
  PROVE  Table!Init
BY CheckIs DEF life, TableCheck, Table!Init

LEMMA NoCall == ASSUME UNCHANGED <<life, check, answer>> PROVE UNCHANGED Table!vars
BY CheckIs DEF life, TableCheck, Table!vars

LEMMA GrantCall ==
  ASSUME NEW k \in Token, life[k] = "unborn", life' = [life EXCEPT ![k] = "alive"],
         UNCHANGED <<check, answer>>
  PROVE  Table!Next
<1>1. Table!Grant(k)
  BY CheckIs DEF life, TableCheck, Table!Grant
<1> QED BY <1>1 DEF Table!Next

Ends(K) ==
  /\ \A k \in K : life[k] = "alive"
  /\ life' = [k \in Token |-> IF k \in K THEN "ended" ELSE life[k]]

LEMMA EndsIs == ASSUME NEW K \in SUBSET Token PROVE Ends(K) <=> Table!End(K)
BY DEF life, Ends, Table!End

LEMMA EndCall ==
  ASSUME NEW K \in SUBSET Token, Ends(K), UNCHANGED <<check, answer>>
  PROVE  Table!Next
<1>1. Table!End(K)
  BY EndsIs
<1>2. TableCheck' = TableCheck
  BY CheckIs
<1> QED BY <1>1, <1>2 DEF TableCheck, Table!Next

LEMMA AskCall ==
  ASSUME NEW t \in Thread, NEW k \in Token, check[t] = {}, UNCHANGED life,
         check' = [check EXCEPT ![t] = {[token |-> k, saw |-> life[k] = "alive"]}],
         answer' = [answer EXCEPT ![t] = "none"]
  PROVE  Table!Next
<1>1. Table!Ask(t, k)
  BY CheckIs DEF life, TableCheck, Table!Ask
<1> QED BY <1>1 DEF Table!Next

LEMMA DieCall ==
  ASSUME NEW T \in SUBSET Thread, UNCHANGED <<life, answer>>,
         check' = [t \in Thread |-> IF t \in T THEN {} ELSE check[t]]
  PROVE  Table!Next
<1>1. Table!Die(T)
  BY CheckIs DEF life, TableCheck, Table!Die
<1> QED BY <1>1 DEF Table!Next

Replies(t, a) ==
  /\ check[t] # {} /\ check' = [check EXCEPT ![t] = {}]
  /\ answer' = [answer EXCEPT ![t] = a]

LEMMA AnswerCall ==
  ASSUME NEW t \in Thread, NEW c, check[t] = {c}, NEW a, Replies(t, a), c.token \in Token,
         \/ a \in {"unanswered", "expired"} /\ UNCHANGED life
         \/ a = "valid" /\ UNCHANGED life /\ c.saw
         \/ a = "invalid" /\ (UNCHANGED life \/ Ends({c.token})) /\ life'[c.token] # "alive"
  PROVE  Table!Next
<1>1. Table!Reply(t, a)
  BY CheckIs DEF Replies, TableCheck, Table!Reply
<1>2. TableCheck[t] = {c}
  BY CheckIs
<1>3. CASE a \in {"unanswered", "expired"} /\ UNCHANGED life
  <2>1. Table!Doubt(t)
    BY <1>1, <1>3 DEF life, Table!Doubt
  <2> QED BY <2>1 DEF Table!Next
<1>4. CASE a = "valid" /\ UNCHANGED life /\ c.saw
  <2>1. Table!Accept(t)
    BY <1>1, <1>2, <1>4 DEF life, TableCheck, Table!Accept
  <2> QED BY <2>1 DEF Table!Next
<1>5. CASE a = "invalid" /\ (UNCHANGED life \/ Ends({c.token})) /\ life'[c.token] # "alive"
  <2>1. Ends({c.token}) <=> Table!End({c.token})
    BY EndsIs
  <2>2. Table!Refuse(t)
    BY <1>1, <1>2, <1>5, <2>1 DEF life, TableCheck, Table!Refuse
  <2> QED BY <2>2 DEF Table!Next
<1> QED BY <1>3, <1>4, <1>5

LEMMA LifeIs ==
  ASSUME NEW k \in Token
  PROVE  /\ life[k] = IF k \notin stored THEN "unborn" ELSE IF Kept(k) # {} THEN "alive" ELSE "ended"
         /\ life'[k] = IF k \notin stored' THEN "unborn"
                       ELSE IF Kept(k)' # {} THEN "alive" ELSE "ended"
BY DEF life, Life

LEMMA LifeSame == ASSUME UNCHANGED <<time, redis, stored>> PROVE life' = life
BY DEF life, Life, Kept

LEMMA CheckTo ==
  ASSUME SInv, NEW t \in Thread, NEW j, job' = [job EXCEPT ![t] = j]
  PROVE  check' = [check EXCEPT ![t] = Asked(j)] /\ check[t] = Asked(job[t])
BY DEF SInv, TypeOK, check

LEMMA CheckSame ==
  ASSUME SInv, NEW t \in Thread, NEW j, job' = [job EXCEPT ![t] = j], Asked(j) = Asked(job[t])
  PROVE  check' = check
BY CheckTo DEF check

LEMMA AskedIdle == Asked(Idle) = {}
BY DEF Asked, Idle, Job

LEMMA StampMaps ==
  ASSUME SInv, NEW t \in Thread, NEW s \in Server, NEW k \in Token, Stamp(t, s, k)
  PROVE  UNCHANGED Table!vars
<1> DEFINE j == Job("set", s, k, now(s) + TTL, FALSE)
<1>1. Asked(j) = {} /\ job[t] = Idle /\ job' = [job EXCEPT ![t] = j]
  BY DEF Stamp, Begin, Asked, Job
<1>2. check' = check
  BY <1>1, AskedIdle, CheckSame
<1> QED BY <1>2, LifeSame, NoCall DEF Stamp

LEMMA SetMaps ==
  ASSUME SInv, NEW t \in Thread, set(t)
  PROVE  Table!Next \/ UNCHANGED Table!vars
<1>1. /\ job[t].step = "set" /\ job' = [job EXCEPT ![t] = Idle] /\ UNCHANGED <<time, answer>>
  BY DEF set
<1>2. check' = check
  BY <1>1, AskedIdle, CheckSame DEF Asked
<1>3. CASE UNCHANGED <<redis, stored>>
  BY <1>1, <1>2, <1>3, LifeSame, NoCall
<1>4. CASE ~UNCHANGED <<redis, stored>>
  <2>1. PICK k \in Token : k = job[t].token
    BY <1>1, JobFacts DEF SInv, Work
  <2>2. PICK x : /\ x.drops = time + TTL /\ redis' = [redis EXCEPT ![k] = {x}]
                 /\ stored' = stored \union {k}
    BY <1>4, <2>1 DEF set
  <2>3. k \notin stored /\ time <= x.drops
    BY <1>1, <2>1, <2>2, TimeFacts, SessionsAssumption DEF SInv, Story
  <2>4. redis'[k] = {x} /\ \A l \in Token : l # k => redis'[l] = redis[l]
    BY <2>2, RedisFacts DEF Redis
  <2>5. Kept(k)' # {} /\ \A l \in Token : l # k => Kept(l)' = Kept(l)
    BY <1>1, <2>3, <2>4 DEF Kept
  <2>6. life[k] = "unborn" /\ life'[k] = "alive" /\ \A l \in Token : l # k => life'[l] = life[l]
    BY <2>2, <2>3, <2>5, LifeIs
  <2>7. life' = [life EXCEPT ![k] = "alive"]
    BY <2>6 DEF life
  <2> QED BY <1>1, <1>2, <2>6, <2>7, GrantCall
<1> QED BY <1>3, <1>4

LEMMA AskMaps ==
  ASSUME SInv, NEW t \in Thread, NEW s \in Server, NEW k \in Token, Ask(t, s, k)
  PROVE  Table!Next
<1> DEFINE j == Job("get", s, k, 0, Kept(k) # {})
<1>1. /\ job[t] = Idle /\ job' = [job EXCEPT ![t] = j] /\ answer' = [answer EXCEPT ![t] = "none"]
      /\ UNCHANGED <<time, redis, stored>>
  BY DEF Ask, Begin, None
<1>2. life[k] = "alive" <=> Kept(k) # {}
  <2>1. Kept(k) # {} => k \in stored
    BY DEF SInv, Story, Kept
  <2> QED BY <2>1, LifeIs
<1>3. Asked(j) = {[token |-> k, saw |-> Kept(k) # {}]}
  BY DEF Asked, Job
<1>4. (life[k] = "alive") = (Kept(k) # {})
  BY <1>2
<1>5. Asked(j) = {[token |-> k, saw |-> life[k] = "alive"]}
  BY <1>3, <1>4
<1> HIDE DEF j
<1>6. check[t] = {} /\ check' = [check EXCEPT ![t] = Asked(j)]
  BY <1>1, AskedIdle, CheckTo
<1> QED BY <1>1, <1>5, <1>6, LifeSame, AskCall

\* A check that is answered, and the token it was about.
LEMMA ReturnMaps ==
  ASSUME SInv, NEW t \in Thread, job[t].step \in {"get", "compare", "del"}, NEW a, Return(t, a)
  PROVE  \E c : /\ check[t] = {c} /\ c.token = job[t].token /\ c.saw = job[t].saw
               /\ c.token \in Token /\ Replies(t, a)
<1> DEFINE c == [token |-> job[t].token, saw |-> job[t].saw]
<1>1. job[t].token \in Token
  BY JobFacts DEF SInv, Work
<1>2. check[t] = {c} /\ check' = [check EXCEPT ![t] = {}]
  BY AskedIdle, CheckTo DEF Return, Asked
<1>3. Replies(t, a)
  BY <1>2 DEF Return, Replies
<1>4. c.token = job[t].token /\ c.saw = job[t].saw
  OBVIOUS
<1> HIDE DEF c
<1> QED BY <1>1, <1>2, <1>3, <1>4

LEMMA GetMaps ==
  ASSUME SInv, NEW t \in Thread, get(t)
  PROVE  Table!Next \/ UNCHANGED Table!vars
<1>1. job[t].step = "get" /\ UNCHANGED <<time, redis, stored>>
  BY DEF get
<1>2. life' = life
  BY <1>1, LifeSame
<1>3. CASE Return(t, "unanswered")
  <2>1. PICK c : check[t] = {c} /\ c.token \in Token /\ Replies(t, "unanswered")
    BY <1>1, <1>3, ReturnMaps
  <2> QED BY <1>2, <2>1, AnswerCall
<1>4. CASE Kept(job[t].token) = {} /\ Return(t, "invalid")
  <2>1. PICK c : /\ check[t] = {c} /\ c.token \in Token /\ Replies(t, "invalid")
                 /\ c.token = job[t].token
    BY <1>1, <1>4, ReturnMaps
  <2>2. life'[c.token] # "alive"
    BY <1>2, <1>4, <2>1, LifeIs
  <2> QED BY <1>2, <2>1, <2>2, AnswerCall
<1>5. ASSUME NEW x, job' = [job EXCEPT ![t].step = "compare", ![t].expires = x.expires],
             UNCHANGED answer
      PROVE  UNCHANGED Table!vars
  <2> DEFINE j == [job[t] EXCEPT !.step = "compare", !.expires = x.expires]
  <2>1. job[t] \in Work /\ DOMAIN job = Thread
    BY <1>1, JobFacts DEF SInv, TypeOK
  <2>2. job' = [job EXCEPT ![t] = j] /\ j.step = "compare" /\ j.token = job[t].token
        /\ j.saw = job[t].saw
    BY <1>5, <2>1 DEF Work
  <2> HIDE DEF j
  <2>3. Asked(j) = Asked(job[t])
    BY <1>1, <2>2 DEF Asked
  <2>4. check' = check
    BY <2>2, <2>3, CheckSame
  <2> QED BY <1>2, <1>5, <2>4, NoCall
<1> QED BY <1>3, <1>4, <1>5 DEF get

LEMMA ValidateMaps ==
  ASSUME SInv, NEW t \in Thread, validate(t)
  PROVE  Table!Next \/ UNCHANGED Table!vars
<1>1. job[t].step = "compare" /\ UNCHANGED <<time, redis, stored>>
  BY DEF validate
<1>2. life' = life
  BY <1>1, LifeSame
<1>3. CASE Return(t, "valid")
  <2>1. PICK c : /\ check[t] = {c} /\ c.token \in Token /\ Replies(t, "valid")
                 /\ c.saw = job[t].saw
    BY <1>1, <1>3, ReturnMaps
  <2>2. job[t].saw
    BY <1>1 DEF SInv, Story
  <2> QED BY <1>2, <2>1, <2>2, AnswerCall
<1>4. CASE job' = [job EXCEPT ![t].step = "del"] /\ UNCHANGED answer
  <2> DEFINE j == [job[t] EXCEPT !.step = "del"]
  <2>1. job[t] \in Work /\ DOMAIN job = Thread
    BY <1>1, JobFacts DEF SInv, TypeOK
  <2>2. job' = [job EXCEPT ![t] = j] /\ j.step = "del" /\ j.token = job[t].token
        /\ j.saw = job[t].saw
    BY <1>4, <2>1 DEF Work
  <2> HIDE DEF j
  <2>3. Asked(j) = Asked(job[t])
    BY <1>1, <2>2 DEF Asked
  <2>4. check' = check
    BY <2>2, <2>3, CheckSame
  <2> QED BY <1>2, <1>4, <2>4, NoCall
<1> QED BY <1>3, <1>4 DEF validate

\* Deleting what has expired may end a session; deleting what is gone ends none.
LEMMA DelMaps == ASSUME SInv, NEW t \in Thread, del(t) PROVE Table!Next
<1>1. job[t].step = "del" /\ UNCHANGED <<time, stored>>
  BY DEF del
<1>2. CASE Return(t, "expired") /\ UNCHANGED redis
  <2>1. PICK c : check[t] = {c} /\ c.token \in Token /\ Replies(t, "expired")
    BY <1>1, <1>2, ReturnMaps
  <2> QED BY <1>1, <1>2, <2>1, LifeSame, AnswerCall
<1>3. CASE redis' = [redis EXCEPT ![job[t].token] = {}] /\ Return(t, "invalid")
  <2>1. PICK c : /\ check[t] = {c} /\ c.token \in Token /\ Replies(t, "invalid")
                 /\ c.token = job[t].token
    BY <1>1, <1>3, ReturnMaps
  <2>2. PICK k \in Token : k = c.token
    BY <2>1
  <2>3. redis'[k] = {} /\ \A l \in Token : l # k => redis'[l] = redis[l]
    BY <1>3, <2>1, <2>2, RedisFacts DEF Redis
  <2>4. Kept(k)' = {} /\ \A l \in Token : l # k => Kept(l)' = Kept(l)
    BY <1>1, <2>3 DEF Kept
  <2>5. \A l \in Token : l # k => life'[l] = life[l]
    BY <1>1, <2>4, LifeIs
  <2>6. life'[k] = IF life[k] = "alive" THEN "ended" ELSE life[k]
    BY <1>1, <2>4, LifeIs
  <2>7. CASE life[k] = "alive"
    <3>1. Ends({k})
      BY <2>5, <2>6, <2>7 DEF Ends, life
    <3> QED BY <2>1, <2>2, <2>6, <3>1, AnswerCall
  <2>8. CASE life[k] # "alive"
    <3>1. life' = life
      BY <2>5, <2>6, <2>8 DEF life
    <3> QED BY <2>1, <2>2, <2>8, <3>1, AnswerCall
  <2> QED BY <2>7, <2>8
<1> QED BY <1>2, <1>3 DEF del

\* Redis drops what has had its time.
LEMMA TickMaps == ASSUME SInv, Tick PROVE Table!Next
<1> DEFINE K == {k \in Token : life[k] = "alive" /\ life'[k] # "alive"}
<1>1. /\ time' = time + 1 /\ time \in Nat /\ UNCHANGED <<redis, stored, job, answer>>
  BY TimeFacts DEF Tick, SInv
<1>2. check' = check
  BY <1>1 DEF check
<1>3. ASSUME NEW k \in Token PROVE Kept(k)' \subseteq Kept(k)
  <2>1. redis[k] \subseteq Session
    BY RedisFacts DEF Redis
  <2> QED BY <1>1, <2>1 DEF Kept, Session
<1>4. ASSUME NEW k \in Token
      PROVE  life'[k] = IF k \in K THEN "ended" ELSE life[k]
  BY <1>1, <1>3, LifeIs
<1>5. Ends(K)
  BY <1>4 DEF Ends, life
<1> QED BY <1>1, <1>2, <1>5, EndCall

LEMMA BreakMaps == ASSUME SInv, NEW s \in Server, Break(s) PROVE UNCHANGED Table!vars
<1>1. UNCHANGED <<time, redis, stored, job, answer>>
  BY DEF Break
<1>2. check' = check
  BY <1>1 DEF check
<1> QED BY <1>1, <1>2, LifeSame, NoCall

LEMMA RestartMaps == ASSUME SInv, NEW s \in Server, Restart(s) PROVE Table!Next
<1> DEFINE T == {t \in Thread : job[t].server = s}
<1>1. /\ job' = [t \in Thread |-> IF job[t].server = s THEN Idle ELSE job[t]]
      /\ UNCHANGED <<time, redis, stored, answer>>
  BY DEF Restart
<1>2. check' = [t \in Thread |-> IF t \in T THEN {} ELSE check[t]]
  BY <1>1, AskedIdle DEF check
<1> QED BY <1>1, <1>2, LifeSame, DieCall

LEMMA TableStep == SInv /\ [Next]_vars => [Table!Next]_(Table!vars)
<1> SUFFICES ASSUME SInv, [Next]_vars PROVE Table!Next \/ UNCHANGED Table!vars
  OBVIOUS
<1>1. CASE UNCHANGED vars
  <2>1. UNCHANGED <<time, redis, stored, job, answer>>
    BY <1>1 DEF vars
  <2>2. check' = check
    BY <2>1 DEF check
  <2> QED BY <2>1, <2>2, LifeSame, NoCall
<1> QED BY <1>1, StampMaps, SetMaps, AskMaps, GetMaps, ValidateMaps, DelMaps, TickMaps,
           BreakMaps, RestartMaps DEF Next

LEMMA TableInit == Init => Table!Init
<1> SUFFICES ASSUME Init PROVE Table!Init
  OBVIOUS
<1>1. \A k \in Token : life[k] = "unborn"
  BY LifeIs DEF Init
<1>2. check = [t \in Thread |-> {}]
  BY AskedIdle DEF Init, check
<1>3. life = [k \in Token |-> "unborn"]
  BY <1>1 DEF life
<1> QED BY <1>2, <1>3, InitCall DEF Init, None

\* Processes with clocks of their own, whose threads check tokens step by step
\* while others let them expire, fail to delete them, break off or die, tell of each
\* session that it lived once and ended once, by expiring or by a deletion that took
\* effect; a deletion that Redis refuses ends nothing, and promises nothing.
THEOREM SessionsTellOneStory == Spec => ImplementsTable
BY TableInit, TableStep, SessionsInvariant, PTL DEF Spec, ImplementsTable, Table!Spec
=============================================================================
