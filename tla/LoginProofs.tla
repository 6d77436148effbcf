----------------------------- MODULE LoginProofs -----------------------------
(***************************************************************************)
(* The login: the limiter in front of it (RateLimiter), for any number of  *)
(* calls and hosts, any limit and window and any bound Delay on the time   *)
(* between clock and mutex; and the requests behind it (Sessions), for any *)
(* number of requests and sessions and any store that keeps the contract   *)
(* SessionStore: a deleted session lets nobody in, a confirmed logout is   *)
(* final unless its very delete failed, and the audit log is ahead of what *)
(* it tells.                                                               *)
(***************************************************************************)
EXTENDS RateLimiter, Sessions, FiniteSetTheorems, TLAPS

\* The arguments NewRateLimiter keeps or replaces are usable.
LEMMA Arguments == Limit \in Nat \ {0} /\ Window \in Nat \ {0}
  BY ConstantsAssumption DEF Limit, Window

\* Sets of calls are finite, and larger sets have more elements.
LEMMA CallSets ==
  ASSUME NEW T \in SUBSET Calls, NEW S \in SUBSET T
  PROVE  Cardinality(S) \in Nat /\ Cardinality(T) \in Nat /\ Cardinality(S) <= Cardinality(T)
<1>1. IsFiniteSet(T)
  BY FS_Subset, ConstantsAssumption
<1> QED
  BY <1>1, FS_Subset, FS_CardinalityType

\* One more call makes a set at most one larger.
LEMMA OneMoreCall ==
  ASSUME NEW S \in SUBSET Calls, NEW c \in Calls
  PROVE  Cardinality(S \union {c}) \in {Cardinality(S), Cardinality(S) + 1}
<1>1. IsFiniteSet(S)
  BY FS_Subset, ConstantsAssumption
<1>2. CASE c \in S
  BY <1>2, S \union {c} = S
<1>3. CASE c \notin S
  BY <1>1, <1>3, FS_AddElement
<1> QED
  BY <1>2, <1>3

\* The initial states satisfy the invariant.
LEMMA LimiterStarts == LimiterInit => LimiterInvariant
<1> SUFFICES ASSUME LimiterInit PROVE LimiterInvariant
  OBVIOUS
<1>1. LimiterTypeOK /\ Clocks /\ StoredAreAdmitted /\ DroppedAreOld
  BY ConstantsAssumption DEF LimiterInit, LimiterTypeOK, Clocks, StoredAreAdmitted, DroppedAreOld
<1>2. ASSUME NEW key, NEW from, NEW to PROVE Admitted(key, from, to) = {}
  BY DEF LimiterInit, Admitted
<1>3. LimitPerWindow
  BY <1>2, FS_EmptySet, Arguments DEF LimitPerWindow
<1>4. RefusedForCause
  BY DEF LimiterInit, RefusedForCause
<1> QED
  BY <1>1, <1>3, <1>4 DEF LimiterInvariant

\* Types, clocks and the meaning of what is stored are kept.
LEMMA StepSimple ==
  ASSUME LimiterInvariant, [LimiterNext]_limiterVars
  PROVE  LimiterTypeOK' /\ Clocks' /\ StoredAreAdmitted'
<1> USE ConstantsAssumption DEF LimiterInvariant, LimiterTypeOK, Clocks, StoredAreAdmitted, clientIP, Origin
<1>1. ASSUME NEW c \in Calls, ReadClock(c)
      PROVE  LimiterTypeOK' /\ Clocks' /\ StoredAreAdmitted'
  BY <1>1 DEF ReadClock
<1>2. ASSUME NEW c \in Calls, Allow(c)
      PROVE  LimiterTypeOK' /\ Clocks' /\ StoredAreAdmitted'
  BY <1>2 DEF Allow, Kept
<1>3. ASSUME NEW c \in Calls, Refuse(c)
      PROVE  LimiterTypeOK' /\ Clocks' /\ StoredAreAdmitted'
  BY <1>3 DEF Refuse, Kept
<1>4. ASSUME Tick
      PROVE  LimiterTypeOK' /\ Clocks' /\ StoredAreAdmitted'
  BY <1>4 DEF Tick
<1>5. ASSUME UNCHANGED limiterVars
      PROVE  LimiterTypeOK' /\ Clocks' /\ StoredAreAdmitted'
  BY <1>5 DEF limiterVars
<1> QED
  BY <1>1, <1>2, <1>3, <1>4, <1>5 DEF LimiterNext

\* An entry is dropped by a call whose clock is a window ahead of it.
LEMMA StepDropped ==
  ASSUME LimiterInvariant, [LimiterNext]_limiterVars
  PROVE  DroppedAreOld'
<1> SUFFICES ASSUME NEW a \in Calls, pc'[a] = "admitted"
             PROVE  a \in attempts'[clientIP(a)'] \/ now'[a] + Window <= clock'
  BY DEF DroppedAreOld, Window
<1> USE DEF LimiterInvariant, LimiterTypeOK, DroppedAreOld, clientIP
<1>1. ASSUME NEW c \in Calls, Allow(c) \/ Refuse(c)
      PROVE  a \in attempts'[clientIP(a)'] \/ now'[a] + Window <= clock'
  <2>1. origin' = origin /\ now' = now /\ clock' = clock
    BY <1>1 DEF Allow, Refuse
  <2>2. CASE a = c
    <3>1. Allow(c)
      BY <1>1, <2>2 DEF Refuse
    <3> QED
      BY <2>1, <2>2, <3>1, ConstantsAssumption DEF Allow, Origin
  <2>3. CASE a # c
    <3>1. pc[a] = "admitted"
      BY <1>1, <2>3 DEF Allow, Refuse
    <3>2. CASE now[a] > now[c] - Window
      <4>1. clientIP(a) \in Hosts /\ clientIP(a)' = clientIP(a)
        BY <2>1, ConstantsAssumption DEF Origin
      <4>2. CASE a \in attempts[clientIP(a)]
        BY <1>1, <3>2, <4>1, <4>2 DEF Allow, Refuse, Kept
      <4>3. CASE now[a] + Window <= clock
        BY <2>1, <4>3
      <4> QED
        BY <3>1, <4>2, <4>3
    <3>3. CASE ~(now[a] > now[c] - Window)
      BY <2>1, <3>3, Arguments DEF Clocks
    <3> QED
      BY <3>2, <3>3
  <2> QED
    BY <2>2, <2>3
<1>2. ASSUME NEW c \in Calls, ReadClock(c)
      PROVE  a \in attempts'[clientIP(a)'] \/ now'[a] + Window <= clock'
  BY <1>2 DEF ReadClock
<1>3. CASE Tick
  BY <1>3, Arguments DEF Tick
<1>4. CASE UNCHANGED limiterVars
  BY <1>4 DEF limiterVars
<1> QED
  BY <1>1, <1>2, <1>3, <1>4 DEF LimiterNext

\* Every admitted call that shares a short window with c is still stored when
\* c takes the mutex, so c counts all of them.
LEMMA CountsThemAll ==
  ASSUME LimiterInvariant, NEW c \in Calls, pc[c] = "clocked", NEW from \in Int,
         now[c] <= from + Window - Delay
  PROVE  Admitted(clientIP(c), from, from + Window - Delay) \subseteq Kept(c)
<1> SUFFICES ASSUME NEW a \in Admitted(clientIP(c), from, from + Window - Delay)
             PROVE  a \in Kept(c)
  OBVIOUS
<1>1. /\ a \in Calls /\ pc[a] = "admitted" /\ clientIP(a) = clientIP(c)
      /\ from < now[a]
  BY DEF Admitted
<1>2. /\ now[a] \in Nat /\ now[c] \in Nat /\ clock \in Nat /\ clock <= now[c] + Delay
  BY <1>1 DEF LimiterInvariant, LimiterTypeOK, Clocks
<1>3. now[a] + Window > clock /\ now[a] > now[c] - Window
  BY <1>1, <1>2, Arguments, ConstantsAssumption
<1>4. a \in attempts[clientIP(a)]
  BY <1>1, <1>2, <1>3, Arguments DEF LimiterInvariant, DroppedAreOld
<1> QED
  BY <1>1, <1>3, <1>4 DEF Kept

\* Allow adds its call to the admitted ones.
LEMMA AdmittedByAllow ==
  ASSUME LimiterInvariant, NEW key, NEW from \in Int, NEW to \in Int, NEW c \in Calls, Allow(c)
  PROVE  Admitted(key, from, to)' =
           IF clientIP(c) = key /\ from < now[c] /\ now[c] <= to
           THEN Admitted(key, from, to) \union {c}
           ELSE Admitted(key, from, to)
  BY DEF LimiterInvariant, LimiterTypeOK, Admitted, clientIP, Allow

\* No other step changes who is admitted.
LEMMA AdmittedByOthers ==
  ASSUME LimiterInvariant, NEW key, NEW from \in Int, NEW to \in Int,
         [LimiterNext]_limiterVars, \A c \in Calls : ~Allow(c)
  PROVE  Admitted(key, from, to)' = Admitted(key, from, to)
<1> USE DEF LimiterInvariant, LimiterTypeOK, Admitted, clientIP
<1>1. ASSUME NEW c \in Calls, ReadClock(c)
      PROVE  Admitted(key, from, to)' = Admitted(key, from, to)
  BY <1>1 DEF ReadClock
<1>2. ASSUME NEW c \in Calls, Refuse(c)
      PROVE  Admitted(key, from, to)' = Admitted(key, from, to)
  BY <1>2 DEF Refuse
<1>3. CASE Tick
  BY <1>3 DEF Tick
<1>4. CASE UNCHANGED limiterVars
  BY <1>4 DEF limiterVars
<1> QED
  BY <1>1, <1>2, <1>3, <1>4 DEF LimiterNext

\* A call that is admitted has counted all its predecessors in the window.
LEMMA StepLimit ==
  ASSUME LimiterInvariant, [LimiterNext]_limiterVars
  PROVE  LimitPerWindow'
<1> SUFFICES ASSUME NEW key \in Hosts, NEW from \in -1 .. MaxClock
             PROVE  Cardinality(Admitted(key, from, from + Window - Delay)') <= Limit
  BY DEF LimitPerWindow, Admitted, Limit, Window, clientIP
<1> DEFINE to == from + Window - Delay
           S == Admitted(key, from, to)
<1>1. from \in Int /\ to \in Int
  BY Arguments, ConstantsAssumption
<1>2. S \subseteq Calls /\ Cardinality(S) <= Limit
  BY DEF LimiterInvariant, LimitPerWindow, Admitted
<1>3. ASSUME NEW c \in Calls, Allow(c)
      PROVE  Cardinality(S') <= Limit
  <2>1. CASE ~(clientIP(c) = key /\ from < now[c] /\ now[c] <= to)
    <3>1. S' = S
      BY <1>1, <1>3, <2>1, AdmittedByAllow
    <3> QED
      BY <3>1, <1>2
  <2>2. CASE clientIP(c) = key /\ from < now[c] /\ now[c] <= to
    <3>1. S' = S \union {c}
      BY <1>1, <1>3, <2>2, AdmittedByAllow
    <3>2. S \subseteq Kept(c)
      BY <1>1, <1>3, <2>2, CountsThemAll DEF Allow
    <3>3. Kept(c) \subseteq Calls
      BY <2>2 DEF LimiterInvariant, LimiterTypeOK, Kept
    <3>4. Cardinality(S) \in Nat /\ Cardinality(Kept(c)) \in Nat
          /\ Cardinality(S) <= Cardinality(Kept(c))
      BY <3>2, <3>3, CallSets
    <3>5. Cardinality(Kept(c)) < Limit
      BY <1>3 DEF Allow
    <3>6. Cardinality(S') \in {Cardinality(S), Cardinality(S) + 1}
      BY <1>2, <3>1, OneMoreCall
    <3> HIDE DEF S
    <3> QED
      BY <3>4, <3>5, <3>6, Arguments
  <2> QED
    BY <2>1, <2>2
<1>4. CASE \A c \in Calls : ~Allow(c)
  <2>1. S' = S
    BY <1>1, <1>4, AdmittedByOthers
  <2> QED
    BY <2>1, <1>2
<1> QED
  BY <1>3, <1>4

\* A refused call stays covered: admitted calls stay admitted.
LEMMA StepRefused ==
  ASSUME LimiterInvariant, [LimiterNext]_limiterVars
  PROVE  RefusedForCause'
<1> SUFFICES ASSUME NEW c \in Calls, pc'[c] = "refused"
             PROVE  Cardinality(Admitted(clientIP(c), now[c] - Window, MaxClock)') >= Limit
  BY DEF RefusedForCause
<1> DEFINE S == Admitted(clientIP(c), now[c] - Window, MaxClock)
<1>1. now[c] \in Nat /\ now[c] - Window \in Int /\ MaxClock \in Int
  BY Arguments, ConstantsAssumption DEF LimiterInvariant, LimiterTypeOK
<1>2. clientIP(c)' = clientIP(c) /\ (pc[c] # "sent" => now'[c] = now[c])
  <2>1. origin' = origin
    BY DEF LimiterNext, limiterVars, ReadClock, Allow, Refuse, Tick
  <2>2. pc[c] # "sent" => now'[c] = now[c]
    BY DEF LimiterNext, limiterVars, ReadClock, Allow, Refuse, Tick, LimiterInvariant, LimiterTypeOK
  <2> QED
    BY <2>1, <2>2 DEF clientIP
<1>3. pc[c] = "refused" \/ (Refuse(c) /\ pc[c] = "clocked")
  BY DEF LimiterNext, limiterVars, ReadClock, Allow, Refuse, Tick, LimiterInvariant, LimiterTypeOK
<1>4. Admitted(clientIP(c), now[c] - Window, MaxClock)' =
        {a \in Calls : pc'[a] = "admitted" /\ clientIP(a)' = clientIP(c)
                       /\ now[c] - Window < now'[a] /\ now'[a] <= MaxClock}
  BY <1>2, <1>3 DEF Admitted, Window
<1>5. S \subseteq Admitted(clientIP(c), now[c] - Window, MaxClock)'
  <2> SUFFICES ASSUME NEW a \in S
               PROVE  pc'[a] = "admitted" /\ clientIP(a)' = clientIP(a) /\ now'[a] = now[a]
    BY <1>4 DEF Admitted
  <2>1. a \in Calls /\ pc[a] = "admitted"
    BY DEF Admitted
  <2> QED
    BY <2>1 DEF LimiterNext, limiterVars, ReadClock, Allow, Refuse, Tick, LimiterInvariant, LimiterTypeOK, clientIP
<1>6. Admitted(clientIP(c), now[c] - Window, MaxClock)' \subseteq Calls
  BY <1>4
<1>7. Cardinality(S) >= Limit
  <2>1. CASE pc[c] = "refused"
    BY <2>1 DEF LimiterInvariant, RefusedForCause
  <2>2. CASE Refuse(c)
    <3>1. Kept(c) \subseteq S
      BY Arguments, ConstantsAssumption
      DEF LimiterInvariant, LimiterTypeOK, Clocks, StoredAreAdmitted, Kept, Admitted, clientIP, Origin
    <3>2. S \subseteq Calls
      BY DEF Admitted
    <3>3. Cardinality(Kept(c)) \in Nat /\ Cardinality(S) \in Nat
          /\ Cardinality(Kept(c)) <= Cardinality(S)
      BY <3>1, <3>2, CallSets
    <3>4. Cardinality(Kept(c)) >= Limit
      BY <2>2 DEF Refuse
    <3> HIDE DEF S
    <3> QED
      BY <3>3, <3>4, Arguments
  <2> QED
    BY <1>3, <2>1, <2>2
<1>8. Cardinality(S) \in Nat
      /\ Cardinality(Admitted(clientIP(c), now[c] - Window, MaxClock)') \in Nat
      /\ Cardinality(S) <= Cardinality(Admitted(clientIP(c), now[c] - Window, MaxClock)')
  <2> HIDE DEF S
  <2> QED
    BY <1>5, <1>6, CallSets
<1> HIDE DEF S
<1> QED
  BY <1>7, <1>8, Arguments

\* The inductive invariant holds in every reachable state.
THEOREM LimiterInvariance == LimiterSpec => []LimiterInvariant
<1>1. LimiterInvariant /\ [LimiterNext]_limiterVars => LimiterInvariant'
  BY StepSimple, StepDropped, StepLimit, StepRefused DEF LimiterInvariant
<1> QED
  BY LimiterStarts, <1>1, PTL DEF LimiterSpec

\* Allow: the limit holds in every stretch of the window less the delay.
THEOREM LimitHolds == LimiterSpec => []LimitPerWindow
<1>1. LimiterInvariant => LimitPerWindow
  BY DEF LimiterInvariant
<1> QED
  BY LimiterInvariance, <1>1, PTL

\* Allow: a refusal has Limit admitted calls of the same address behind it.
THEOREM RefusalsHaveCause == LimiterSpec => []RefusedForCause
<1>1. LimiterInvariant => RefusedForCause
  BY DEF LimiterInvariant
<1> QED
  BY LimiterInvariance, <1>1, PTL

\* With the clock read under the mutex, that is with no delay at all, the
\* limiter is an exact sliding window.
THEOREM ExactWithoutDelay ==
  ASSUME Delay = 0
  PROVE  LimiterSpec => []SlidingWindow
<1>1. LimiterInvariant => SlidingWindow
  BY Arguments DEF LimiterInvariant, LimitPerWindow, SlidingWindow
<1> QED
  BY LimiterInvariance, <1>1, PTL

-----------------------------------------------------------------------------
\* What a request makes of its session, and what the store knows of it.
UsesCookie(r) == kind[r] \in {"use", "logout"}
LetIn(r) == UsesCookie(r) /\ (stage[r] \in {"handle", "delete", "audit", "answer"} \/ answer[r] = 200)

Types ==
  /\ TypeOK
  /\ state \in [Sessions -> States]
  /\ asked \in [Callers -> Sessions \union {None}]
  /\ seen \in [Callers -> SUBSET {"live", "absent"}]
  /\ reply \in [Callers -> {"none", "found", "missing", "error"}]
  /\ erased \subseteq Sessions
  /\ past \in [Callers -> [ended : SUBSET Sessions, erased : SUBSET Sessions]]

\* Where a request is in its handler, and what the store knows of it.
Places ==
  \A r \in Callers :
    /\ stage[r] = "new" => kind[r] = "none" /\ asked[r] = None /\ answer[r] = 0
    /\ stage[r] \in {"refuse", "create"} => kind[r] = "login"
    /\ stage[r] \in {"admit", "handle", "delete"} => UsesCookie(r)
    /\ stage[r] = "delete" => kind[r] = "logout"
    /\ stage[r] \in {"audit", "answer"} => kind[r] \in {"login", "logout"} /\ sid[r] \in Sessions
    /\ stage[r] # "done" => answer[r] = 0
    /\ UsesCookie(r) => sid[r] \in Sessions /\ asked[r] = sid[r]

\* A deleted session stays deleted, and a request that came later never sees
\* it live; whoever has been admitted has seen his session live.
Deleted ==
  /\ \A s \in erased : state[s] = "gone"
  /\ \A r \in Callers : past[r].erased \subseteq erased
  /\ \A r \in Callers : UsesCookie(r) /\ sid[r] \in past[r].erased => "live" \notin seen[r]
  /\ \A r \in Callers : LetIn(r) => "live" \in seen[r]

\* A confirmed logout has deleted its session or failed to ...
Confirmed ==
  /\ \A r \in Callers : kind[r] = "logout" /\ stage[r] \in {"audit", "answer"}
       => sid[r] \in erased \union kept
  /\ ended \subseteq erased \union kept
  /\ \A r \in Callers : past[r].ended \subseteq past[r].erased \union kept

\* ... and what a browser knows has been audited, or its insert has failed.
Audited ==
  /\ \A r \in Callers : stage[r] = "answer" => <<kind[r], sid[r]>> \in trail \union lost
  /\ \A s \in cookies : <<"login", s>> \in trail \union lost
  /\ \A s \in ended : <<"logout", s>> \in trail \union lost
  /\ \A r \in Callers : UsesCookie(r) => sid[r] \in cookies

IInv == Types /\ Places /\ Deleted /\ Confirmed /\ Audited

USE NoneAssumption, FailuresAssumption

-----------------------------------------------------------------------------
\* What a move of the abstract store does to the ghosts.
LEMMA Moves ==
  ASSUME Types, NEW s \in Sessions, NEW x \in States, ChangeState(s, x)
  PROVE  /\ state' = [state EXCEPT ![s] = x]
         /\ state' \in [Sessions -> States]
         /\ \A t \in Sessions : state[t] = "gone" => state'[t] = "gone"
         /\ seen' \in [Callers -> SUBSET {"live", "absent"}]
         /\ \A r \in Callers : seen[r] \subseteq seen'[r]
         /\ \A r \in Callers : "live" \in seen'[r] /\ "live" \notin seen[r]
              => asked[r] # None /\ state'[asked[r]] = "live"
         /\ UNCHANGED <<asked, reply>>
<1>1. state' = [state EXCEPT ![s] = x] /\ UNCHANGED <<asked, reply>>
  BY DEF ChangeState, Move
<1>2. state' \in [Sessions -> States]
  BY <1>1 DEF Types
<1>3. \A t \in Sessions : state[t] = "gone" => state'[t] = "gone"
  BY <1>1 DEF ChangeState, Move, Types, States
<1>4. seen' = [c \in Callers |->
        IF Running(c) THEN seen[c] \union {Status(state'[asked[c]])} ELSE seen[c]]
  BY <1>1 DEF ChangeState, Move
<1>5. \A y : Status(y) \in {"live", "absent"} /\ (Status(y) = "live" => y = "live")
  BY DEF Status
<1>6. seen' \in [Callers -> SUBSET {"live", "absent"}]
  BY <1>4, <1>5 DEF Types
<1>7. \A r \in Callers : seen[r] \subseteq seen'[r]
  BY <1>4
<1>8. \A r \in Callers : "live" \in seen'[r] /\ "live" \notin seen[r]
         => asked[r] # None /\ state'[asked[r]] = "live"
  BY <1>4, <1>5 DEF Running
<1> QED BY <1>1, <1>2, <1>3, <1>6, <1>7, <1>8

\* A move keeps Deleted: it revives nothing that is gone.
LEMMA MovesKeepDeleted ==
  ASSUME Types, Places, Deleted,
         NEW s \in Sessions, NEW x \in States, ChangeState(s, x),
         erased' \subseteq erased \union {t \in Sessions : state'[t] = "gone"},
         \A r \in Callers : past'[r].erased \subseteq erased',
         UNCHANGED kind,
         \A r \in Callers : /\ UsesCookie(r) => sid'[r] = sid[r] /\ past'[r] = past[r]
                            /\ LetIn(r)' => LetIn(r)
  PROVE  Deleted'
<1> USE DEF UsesCookie
<1>0. \A r \in Callers : past'[r].erased \subseteq erased'
  OBVIOUS
<1>1. \A t \in erased' : state'[t] = "gone"
  BY Moves DEF Deleted, Types
<1>2. ASSUME NEW r \in Callers, UsesCookie(r), sid[r] \in past[r].erased
      PROVE  "live" \notin seen'[r]
  <2>1. "live" \notin seen[r] /\ asked[r] = sid[r] /\ sid[r] \in Sessions
    BY <1>2 DEF Deleted, Places
  <2>2. state[sid[r]] = "gone"
    BY <1>2 DEF Deleted
  <2> QED BY <2>1, <2>2, Moves
<1>3. \A r \in Callers : LetIn(r)' => "live" \in seen'[r]
  BY Moves DEF Deleted
<1> QED BY <1>0, <1>1, <1>2, <1>3 DEF Deleted

LEMMA InitHolds == Init => IInv
  BY DEF Init, StoreInit, IInv, Types, TypeOK, Places, Deleted, Confirmed, Audited,
         UsesCookie, LetIn, States, Stages

LEMMA StepHolds == IInv /\ [Next]_vars => IInv'
<1> SUFFICES ASSUME IInv, [Next]_vars PROVE IInv'
  OBVIOUS
<1> USE DEF IInv, UsesCookie, LetIn
<1>1. CASE UNCHANGED vars
  BY <1>1 DEF vars, storeVars, reqVars, ghosts, Types, TypeOK, Places, Deleted, Confirmed, Audited
<1>2. CASE Next
  <2> DEFINE Begins(r) == stage[r] = "new" /\ stage'[r] # "new"
  <2>0. past' = [r \in Callers |-> IF Begins(r) THEN [ended |-> ended, erased |-> erased]
                                   ELSE past[r]]
    BY <1>2 DEF Next
  <2>00. past' \in [Callers -> [ended : SUBSET Sessions, erased : SUBSET Sessions]]
    BY <2>0 DEF Types, TypeOK
  <2> HIDE DEF Begins
  <2>1. CASE \E r \in Callers : Login(r)
    <3> PICK r \in Callers : Login(r)
      BY <2>1
    <3> USE DEF Login, Begin, Goto, Send, storeVars, ghosts
    <3>01. kind' \in [Callers -> {"none", "login", "use", "logout"}]
      BY DEF Types, TypeOK
    <3>02. PICK next \in Stages : stage' = [stage EXCEPT ![r] = next]
      BY DEF Stages
    <3>03. stage' \in [Callers -> Stages]
      BY <3>02 DEF Types, TypeOK
    <3>04. answer' \in [Callers -> {0, 200, 401, 500}]
      BY DEF Types, TypeOK
    <3>1. Types'
      BY <2>00, <3>01, <3>03, <3>04 DEF Types, TypeOK
    <3>2. Places'
      BY DEF Places, Types, TypeOK
    <3>3. Deleted'
      BY <2>0, <3>1 DEF Deleted, Types, TypeOK, Begins, Places
    <3>4. Confirmed' /\ Audited'
      BY <2>0, <3>1 DEF Confirmed, Audited, Types, TypeOK, Begins, Places
    <3> QED BY <3>1, <3>2, <3>3, <3>4
  <2>2. CASE \E r \in Callers : RefuseLogin(r)
    <3> PICK r \in Callers : RefuseLogin(r)
      BY <2>2
    <3> USE DEF RefuseLogin, Goto, Send, storeVars
    <3>1. trail' \subseteq trail \union {<<"failed_login", None>>}
          /\ trail \subseteq trail' /\ lost \subseteq lost'
      BY DEF Record
    <3>0. /\ stage' \in [Callers -> Stages]
          /\ answer' \in [Callers -> {0, 200, 401, 500}]
          /\ trail' \subseteq {"login", "logout", "failed_login"} \X (Sessions \union {None})
      BY <3>1 DEF Types, TypeOK, Stages
    <3>2. Types'
      BY <2>00, <3>0 DEF Types, TypeOK
    <3>3. Places'
      BY DEF Places, Types, TypeOK
    <3>4. Deleted'
      BY <2>0 DEF Deleted, Types, TypeOK, Begins, Places
    <3>5. Confirmed' /\ Audited'
      BY <2>0, <3>1 DEF Confirmed, Audited, Types, TypeOK, Begins, Places
    <3> QED BY <3>2, <3>3, <3>4, <3>5
  <2>3. CASE \E r \in Callers : CreateSession(r)
    <3> PICK r \in Callers : CreateSession(r)
      BY <2>3
    <3> PICK s \in Sessions : /\ state[s] = "new" /\ ChangeState(s, "live")
                              /\ sid' = [sid EXCEPT ![r] = s]
      BY DEF CreateSession, ghosts
    <3> USE DEF Goto
    <3>1. stage[r] = "create" /\ stage' = [stage EXCEPT ![r] = "audit"]
          /\ UNCHANGED <<kind, answer, cookies, trail, ended, erased, kept, lost>>
      BY DEF CreateSession, ghosts
    <3>2. Types'
      BY <2>00, <3>1, Moves DEF Types, TypeOK, Stages, States
    <3>3. Places'
      BY <3>1, Moves DEF Places, Types, TypeOK, States
    <3>4. Deleted'
      BY <2>0, <3>1, Moves DEF Deleted, Types, TypeOK, Begins, Places, States
    <3>5. Confirmed' /\ Audited'
      BY <2>0, <3>1 DEF Confirmed, Audited, Types, TypeOK, Begins, Places
    <3> QED BY <3>2, <3>3, <3>4, <3>5
  <2>4. CASE \E r \in Callers : CreateFails(r)
    <3> PICK r \in Callers : CreateFails(r)
      BY <2>4
    <3> USE DEF Goto, Send
    <3>1. /\ Failures /\ stage[r] = "create"
          /\ stage' = [stage EXCEPT ![r] = "done"] /\ answer' = [answer EXCEPT ![r] = 500]
          /\ UNCHANGED <<kind, sid, cookies, trail, ended, erased, kept, lost>>
      BY DEF CreateFails, ghosts
    <3>4. Confirmed' /\ Audited'
      BY <2>0, <3>1 DEF Confirmed, Audited, Types, TypeOK, Begins, Places
    <3>2. CASE UNCHANGED storeVars
      <4>1. Types'
        BY <2>00, <3>1, <3>2 DEF Types, TypeOK, Stages, storeVars
      <4>2. Places'
        BY <3>1, <3>2 DEF Places, Types, TypeOK, storeVars
      <4>3. Deleted'
        BY <2>0, <3>1, <3>2 DEF Deleted, Types, TypeOK, Begins, Places, storeVars
      <4> QED BY <4>1, <4>2, <4>3, <3>4
    <3>3. CASE \E s \in Sessions : state[s] = "new" /\ ChangeState(s, "live")
      <4> PICK s \in Sessions : state[s] = "new" /\ ChangeState(s, "live")
        BY <3>3
      <4>1. Types'
        BY <2>00, <3>1, Moves DEF Types, TypeOK, Stages, States
      <4>2. Places'
        BY <3>1, Moves DEF Places, Types, TypeOK, States
      <4>3. Deleted'
        BY <2>0, <3>1, Moves DEF Deleted, Types, TypeOK, Begins, Places, States
      <4> QED BY <4>1, <4>2, <4>3, <3>4
    <3> QED BY <3>2, <3>3 DEF CreateFails
  <2>5. CASE \E r \in Callers : UseSession(r)
    <3> PICK r \in Callers : UseSession(r)
      BY <2>5
    <3> PICK s \in cookies : Get(r, s) /\ sid' = [sid EXCEPT ![r] = s]
      BY DEF UseSession
    <3>1. PICK what \in {"use", "logout"} : stage[r] = "new" /\ kind' = [kind EXCEPT ![r] = what]
      BY DEF UseSession, Begin
    <3>2. /\ stage' = [stage EXCEPT ![r] = "admit"]
          /\ UNCHANGED <<answer, cookies, trail, ended, erased, kept, lost>>
      BY DEF UseSession, Goto, ghosts
    <3>3. /\ asked' = [asked EXCEPT ![r] = s]
          /\ seen' = [seen EXCEPT ![r] = {Status(state[s])}]
          /\ UNCHANGED <<state, reply>>
      BY DEF Get
    <3>4. s \in Sessions
      BY DEF Types, TypeOK
    <3>5. Types'
      BY <2>00, <3>1, <3>2, <3>3, <3>4 DEF Types, TypeOK, Stages, Status
    <3>6. Places'
      BY <3>1, <3>2, <3>3, <3>4 DEF Places, Types, TypeOK
    <3>7. Deleted'
      BY <2>0, <3>1, <3>2, <3>3, <3>4 DEF Deleted, Types, TypeOK, Begins, Places, Status
    <3>8. Confirmed' /\ Audited'
      BY <2>0, <3>1, <3>2 DEF Confirmed, Audited, Types, TypeOK, Begins, Places
    <3> QED BY <3>5, <3>6, <3>7, <3>8
  <2>6. CASE \E r \in Callers : Admit(r)
    <3> PICK r \in Callers : Admit(r)
      BY <2>6
    <3>1. /\ "live" \in seen[r]
          /\ reply' = [reply EXCEPT ![r] = "found"]
          /\ UNCHANGED <<state, asked, seen>>
      BY DEF Admit, Answer
    <3>2. /\ stage[r] = "admit"
          /\ stage' = [stage EXCEPT ![r] = IF kind[r] = "logout" THEN "delete" ELSE "handle"]
          /\ UNCHANGED <<kind, sid, answer, cookies, trail, ended, erased, kept, lost>>
      BY DEF Admit, Goto, ghosts
    <3>3. Types'
      BY <2>00, <3>1, <3>2 DEF Types, TypeOK, Stages
    <3>4. Places'
      BY <3>1, <3>2 DEF Places, Types, TypeOK
    <3>5. Deleted'
      BY <2>0, <3>1, <3>2 DEF Deleted, Types, TypeOK, Begins, Places
    <3>6. Confirmed' /\ Audited'
      BY <2>0, <3>2 DEF Confirmed, Audited, Types, TypeOK, Begins, Places
    <3> QED BY <3>3, <3>4, <3>5, <3>6
  <2>7. CASE \E r \in Callers : KeepOut(r)
    <3> PICK r \in Callers : KeepOut(r)
      BY <2>7
    <3>1. PICK x \in {"missing", "error"} : reply' = [reply EXCEPT ![r] = x]
      BY DEF KeepOut, Answer
    <3>2. /\ stage[r] = "admit"
          /\ stage' = [stage EXCEPT ![r] = "done"] /\ answer' = [answer EXCEPT ![r] = 401]
          /\ UNCHANGED <<state, asked, seen, kind, sid, cookies, trail, ended, erased, kept, lost>>
      BY DEF KeepOut, Answer, Send, Goto, ghosts
    <3>3. Types'
      BY <2>00, <3>1, <3>2 DEF Types, TypeOK, Stages
    <3>4. Places'
      BY <3>2 DEF Places, Types, TypeOK
    <3>5. Deleted'
      BY <2>0, <3>2 DEF Deleted, Types, TypeOK, Begins, Places
    <3>6. Confirmed' /\ Audited'
      BY <2>0, <3>2 DEF Confirmed, Audited, Types, TypeOK, Begins, Places
    <3> QED BY <3>3, <3>4, <3>5, <3>6
  <2>8. CASE \E r \in Callers : Handle(r)
    <3> PICK r \in Callers : Handle(r)
      BY <2>8
    <3> USE DEF Handle, Send, Goto, storeVars, ghosts
    <3>1. Types'
      BY <2>00 DEF Types, TypeOK, Stages
    <3>2. Places'
      BY DEF Places, Types, TypeOK
    <3>3. Deleted'
      BY <2>0 DEF Deleted, Types, TypeOK, Begins, Places
    <3>4. Confirmed' /\ Audited'
      BY <2>0 DEF Confirmed, Audited, Types, TypeOK, Begins, Places
    <3> QED BY <3>1, <3>2, <3>3, <3>4
  <2>9. CASE \E r \in Callers : DeleteSession(r)
    <3> PICK r \in Callers : DeleteSession(r)
      BY <2>9
    <3>1. /\ stage[r] = "delete" /\ stage' = [stage EXCEPT ![r] = "audit"]
          /\ UNCHANGED <<kind, sid, answer, cookies, trail, ended, lost>>
      BY DEF DeleteSession, Goto
    <3>2. sid[r] \in Sessions
      BY <3>1 DEF Places
    <3>3. CASE ChangeState(sid[r], "gone") /\ erased' = erased \union {sid[r]} /\ UNCHANGED kept
      <4>1. Types'
        BY <2>00, <3>1, <3>2, <3>3, Moves DEF Types, TypeOK, Stages, States
      <4>2. Places'
        BY <3>1, <3>2, <3>3, Moves DEF Places, Types, TypeOK, States
      <4>3. Deleted'
        BY <2>0, <3>1, <3>2, <3>3, Moves DEF Deleted, Types, TypeOK, Begins, Places, States
      <4>4. Confirmed' /\ Audited'
        BY <2>0, <3>1, <3>3 DEF Confirmed, Audited, Types, TypeOK, Begins, Places
      <4> QED BY <4>1, <4>2, <4>3, <4>4
    <3>4. CASE kept' = kept \union {sid[r]} /\ UNCHANGED <<storeVars, erased>>
      <4>1. Types'
        BY <2>00, <3>1, <3>4 DEF Types, TypeOK, Stages, storeVars
      <4>2. Places'
        BY <3>1, <3>2, <3>4 DEF Places, Types, TypeOK, storeVars
      <4>3. Deleted'
        BY <2>0, <3>1, <3>4 DEF Deleted, Types, TypeOK, Begins, Places, storeVars
      <4>4. Confirmed' /\ Audited'
        BY <2>0, <3>1, <3>4 DEF Confirmed, Audited, Types, TypeOK, Begins, Places
      <4> QED BY <4>1, <4>2, <4>3, <4>4
    <3> QED BY <3>3, <3>4 DEF DeleteSession
  <2>10. CASE \E r \in Callers : Audit(r)
    <3> PICK r \in Callers : Audit(r)
      BY <2>10
    <3> DEFINE event == <<kind[r], sid[r]>>
    <3>1. /\ stage[r] = "audit" /\ stage' = [stage EXCEPT ![r] = "answer"]
          /\ UNCHANGED <<state, asked, seen, reply, kind, sid, answer, cookies, ended, erased, kept>>
      BY DEF Audit, Goto, storeVars
    <3>2. /\ trail' \subseteq trail \union {event} /\ trail \subseteq trail'
          /\ event \in trail' \union lost' /\ lost \subseteq lost'
      BY DEF Audit, Record
    <3>3. event \in {"login", "logout", "failed_login"} \X (Sessions \union {None})
      BY <3>1 DEF Places
    <3> HIDE DEF event
    <3>4. Types'
      BY <2>00, <3>1, <3>2, <3>3 DEF Types, TypeOK, Stages
    <3>5. Places'
      BY <3>1 DEF Places, Types, TypeOK
    <3>6. Deleted'
      BY <2>0, <3>1 DEF Deleted, Types, TypeOK, Begins, Places
    <3>7. Confirmed'
      BY <2>0, <3>1 DEF Confirmed, Types, TypeOK, Begins
    <3>8. ASSUME NEW q \in Callers, stage'[q] = "answer"
          PROVE  <<kind'[q], sid'[q]>> \in trail' \union lost'
      <4>1. CASE q = r
        BY <3>1, <3>2, <4>1 DEF event
      <4>2. CASE q # r
        <5>1. stage[q] = "answer"
          BY <3>1, <3>8, <4>2 DEF Types, TypeOK
        <5>2. <<kind[q], sid[q]>> \in trail \union lost
          BY <5>1 DEF Audited
        <5> QED BY <3>1, <3>2, <5>2
      <4> QED BY <4>1, <4>2
    <3>9. Audited'
      BY <3>1, <3>2, <3>8 DEF Audited
    <3> QED BY <3>4, <3>5, <3>6, <3>7, <3>9
  <2>11. CASE \E r \in Callers : SendAnswer(r)
    <3> PICK r \in Callers : SendAnswer(r)
      BY <2>11
    <3> USE DEF SendAnswer, Send, Goto, storeVars, ghosts
    <3>0. sid[r] \in Sessions
      BY DEF Places
    <3>1. /\ stage' \in [Callers -> Stages]
          /\ answer' \in [Callers -> {0, 200, 401, 500}]
          /\ cookies' \subseteq Sessions /\ ended' \subseteq Sessions
      BY <3>0 DEF Types, TypeOK, Stages
    <3>11. Types'
      BY <2>00, <3>1 DEF Types, TypeOK
    <3>2. Places'
      BY DEF Places, Types, TypeOK
    <3>3. Deleted'
      BY <2>0 DEF Deleted, Types, TypeOK, Begins, Places
    <3>4. Confirmed' /\ Audited'
      BY <2>0 DEF Confirmed, Audited, Types, TypeOK, Begins, Places
    <3> QED BY <3>11, <3>2, <3>3, <3>4
  <2>12. CASE Expire
    <3> PICK s \in Sessions : ChangeState(s, "gone")
      BY <2>12 DEF Expire
    <3>1. UNCHANGED <<reqVars, erased, kept, lost>>
      BY <2>12 DEF Expire, ghosts
    <3>2. Types'
      BY <2>00, <3>1, Moves DEF Types, TypeOK, reqVars, States
    <3>3. Places'
      BY <3>1, Moves DEF Places, reqVars, States
    <3>4. Deleted'
      BY <2>0, <3>1, Moves DEF Deleted, Types, TypeOK, Begins, Places, reqVars, States
    <3>5. Confirmed' /\ Audited'
      BY <2>0, <3>1 DEF Confirmed, Audited, Types, TypeOK, Begins, Places, reqVars
    <3> QED BY <3>2, <3>3, <3>4, <3>5
  <2> QED
    BY <1>2, <2>1, <2>2, <2>3, <2>4, <2>5, <2>6, <2>7, <2>8, <2>9, <2>10, <2>11, <2>12 DEF Next
<1> QED BY <1>1, <1>2

LEMMA Invariance == Spec => []IInv
<1>1. Init => IInv
  BY InitHolds
<1>2. IInv /\ [Next]_vars => IInv'
  BY StepHolds
<1> QED BY <1>1, <1>2, PTL DEF Spec

-----------------------------------------------------------------------------
\* A request that begins after its session was deleted is never served, and
\* a failing store admits nobody (SessionManager.Middleware).
THEOREM DeletedSessionsAreShut == Spec => []NoAccessAfterDeletion
<1>1. IInv => NoAccessAfterDeletion
  BY DEF IInv, Deleted, NoAccessAfterDeletion, Served, UsesCookie, LetIn
<1> QED BY <1>1, Invariance, PTL

\* A confirmed logout whose delete did not fail is final (SessionManager.End
\* deletes before handleLogout answers).
THEOREM LogoutEndsTheSession == Spec => []LogoutIsFinal
<1>1. IInv => LogoutIsFinal
  BY DEF IInv, Deleted, Confirmed, LogoutIsFinal, Served, UsesCookie, LetIn, Types
<1> QED BY <1>1, Invariance, PTL

\* The login of every served request and every confirmed logout are in the
\* audit log, unless their insert failed (emitAudit before WriteJSON).
THEOREM AuditIsAhead == Spec => []AuditedBeforeUse
<1>1. IInv => AuditedBeforeUse
  BY DEF IInv, Audited, AuditedBeforeUse, Served, UsesCookie
<1> QED BY <1>1, Invariance, PTL
=============================================================================
