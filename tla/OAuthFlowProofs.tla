--------------------------- MODULE OAuthFlowProofs ---------------------------
(***************************************************************************)
(* For any number of flows, tabs and callbacks, and any age a cookie may   *)
(* reach: a session needs a flow of this browser, a flow starts one        *)
(* session, and nobody is refused for his state without a cause.           *)
(***************************************************************************)
EXTENDS OAuthFlow, TLAPS

Types ==
  /\ TypeOK
  /\ disturbed \subseteq Flows
  /\ judgedAt \in [Callbacks -> 0 .. MaxClock]

\* A flow is begun before it is followed, and its code is the last to come.
Journeys ==
  \A f \in Flows :
    /\ begunAt[f] <= clock
    /\ stage[f] # "returned" => code[f] = "none"

\* A callback is of a flow that has returned; c has passed Verify, and has a
\* session, in these steps and no others.
Passed(c) == step[c] \in {"exchange", "resolve", "start", "audit"} \/ c \in sessions

Callers ==
  \A c \in Callbacks :
    /\ step[c] # "new" => flow[c] \in Flows /\ stage[flow[c]] = "returned"
    /\ step[c] \in {"new", "verify"} => c \notin sessions /\ outcome[c] = "none"
    /\ step[c] \in {"exchange", "resolve", "start"} => c \notin sessions
    /\ step[c] = "audit" => c \in sessions
    /\ Passed(c) => /\ cookie[c] = flow[c]
                    /\ judgedAt[c] - begunAt[flow[c]] <= MaxAge
                    /\ outcome[c] # "state"

\* Whoever holds the answer of the token endpoint has used the code up, so no
\* other callback of that flow can have it.
Holds(c) == step[c] \in {"resolve", "start", "audit"} \/ c \in sessions

Codes ==
  /\ \A c \in Callbacks : Holds(c) => code[flow[c]] = "used"
  /\ \A c, d \in Callbacks : Holds(c) /\ Holds(d) /\ flow[c] = flow[d] => c = d

\* The cookie of a flow under way is in the browser until it is old, or
\* another flow or a callback has taken its place; a callback has carried it
\* along, under the same conditions.
Cookies ==
  /\ \A f \in Flows : stage[f] \in {"away", "returned"} =>
       \/ jar = f /\ begunAt[f] + MaxAge <= jarUntil
       \/ f \in disturbed
       \/ clock - begunAt[f] >= MaxAge
  /\ \A c \in Callbacks : step[c] = "verify" =>
       \/ cookie[c] = flow[c]
       \/ flow[c] \in disturbed
       \/ clock - begunAt[flow[c]] >= MaxAge

IInv == Types /\ Journeys /\ Callers /\ Codes /\ Cookies /\ StateRefusedForCause

USE ConstantsAssumption

-----------------------------------------------------------------------------
\* What a step leaves alone.

\* A flow that is new, followed or decided is not one that has returned, and
\* the callbacks are none of its business.
LEMMA FlowFrame ==
  ASSUME Types, NEW f \in Flows, StartFlow(f) \/ FollowRedirect(f) \/ Decide(f)
  PROVE  /\ UNCHANGED <<clock, flow, cookie, step, outcome, sessions, trail, judgedAt>>
         /\ stage[f] # "returned"
         /\ \A g \in Flows \ {f} :
              stage'[g] = stage[g] /\ begunAt'[g] = begunAt[g] /\ code'[g] = code[g]
  BY DEF Types, TypeOK, StartFlow, FollowRedirect, Decide, server

Untouched(d) ==
  /\ step'[d] = step[d] /\ outcome'[d] = outcome[d] /\ judgedAt'[d] = judgedAt[d]
  /\ d \in sessions' <=> d \in sessions

\* A handler changes its own callback and the provider's code, nothing else.
LEMMA HandlerFrame ==
  ASSUME Types, NEW c \in Callbacks, Handle(c)
  PROVE  /\ UNCHANGED <<clock, browser, flow, cookie>>
         /\ step[c] \in {"verify", "exchange", "resolve", "start", "audit"}
         /\ \A d \in Callbacks \ {c} : Untouched(d)
<1> USE DEF Types, TypeOK, Untouched, Redirect, Proceed
<1>1. CASE Verify(c)
  BY <1>1 DEF Verify
<1>2. CASE Exchange(c)
  BY <1>2 DEF Exchange
<1>3. CASE Resolve(c)
  BY <1>3 DEF Resolve
<1>4. CASE StartSession(c)
  BY <1>4 DEF StartSession
<1>5. CASE Audit(c)
  BY <1>5 DEF Audit
<1> QED
  BY <1>1, <1>2, <1>3, <1>4, <1>5 DEF Handle

-----------------------------------------------------------------------------
\* Before the first flow everything holds.
LEMMA InitHolds == Init => IInv
  BY DEF Init, IInv, Types, TypeOK, Journeys, Callers, Passed, Codes, Holds, Cookies,
         StateRefusedForCause, Reasons

\* What the steps of a handler make of its callback has the right types.
LEMMA HandlerTypes ==
  ASSUME IInv, NEW c \in Callbacks, Handle(c) PROVE Types'
<1> USE DEF Redirect, Proceed, Reasons
<1>1. UNCHANGED <<clock, browser, flow, cookie>>
  BY HandlerFrame DEF IInv
<1>2. code' \in [Flows -> {"none", "denied", "fresh", "used"}]
  BY DEF IInv, Types, TypeOK, Handle, Verify, Exchange, Resolve, StartSession, Audit
<1>3. /\ step' \in [Callbacks -> {"new", "verify", "exchange", "resolve", "start", "audit",
                                 "answer", "done"}]
      /\ outcome' \in [Callbacks -> Reasons \union {"none", "success"}]
  BY DEF IInv, Types, TypeOK, Handle, Verify, Exchange, Resolve, StartSession, Audit
<1>4. sessions' \subseteq Callbacks /\ trail' \subseteq sessions'
  BY DEF IInv, Types, TypeOK, Callers, Handle, Verify, Exchange, Resolve, StartSession, Audit
<1>5. judgedAt' \in [Callbacks -> 0 .. MaxClock]
  BY DEF IInv, Types, TypeOK, Handle, Verify, Exchange, Resolve, StartSession, Audit
<1> QED
  BY <1>1, <1>2, <1>3, <1>4, <1>5 DEF IInv, Types, TypeOK, browser

\* The types are kept.
LEMMA StepTypes ==
  ASSUME IInv, [Next]_vars PROVE Types'
<1> USE DEF Types, TypeOK, browser, server
<1>1. ASSUME NEW f \in Flows, StartFlow(f) PROVE Types'
  BY <1>1 DEF StartFlow, IInv
<1>2. ASSUME NEW f \in Flows, FollowRedirect(f) PROVE Types'
  <2>1. disturbed' \subseteq Flows /\ stage' \in [Flows -> {"new", "started", "away", "returned"}]
    BY <1>2 DEF FollowRedirect, IInv
  <2>2. jar' \in Flows /\ jarUntil' \in 0 .. MaxClock + MaxAge
    BY <1>2 DEF FollowRedirect, IInv
  <2> QED
    BY <1>2, <2>1, <2>2 DEF FollowRedirect, IInv
<1>3. ASSUME NEW f \in Flows, Decide(f) PROVE Types'
  <2>1. /\ stage' \in [Flows -> {"new", "started", "away", "returned"}]
        /\ code' \in [Flows -> {"none", "denied", "fresh", "used"}]
    BY <1>3 DEF Decide, IInv
  <2> QED
    BY <1>3, <2>1 DEF Decide, IInv
<1>4. ASSUME NEW c \in Callbacks, NEW f \in Flows, OpenCallback(c, f) PROVE Types'
  BY <1>4 DEF OpenCallback, Jar, IInv
<1>5. ASSUME NEW c \in Callbacks, Handle(c) PROVE Types'
  BY <1>5, HandlerTypes
<1>6. ASSUME NEW c \in Callbacks, ReceiveAnswer(c) PROVE Types'
  BY <1>6 DEF ReceiveAnswer, Jar, IInv
<1>7. ASSUME Tick PROVE Types'
  <2>1. clock' \in 0 .. MaxClock
    BY <1>7 DEF Tick, IInv
  <2> QED
    BY <1>7, <2>1 DEF Tick, IInv
<1>8. CASE UNCHANGED vars
  BY <1>8 DEF vars, IInv
<1> QED
  BY <1>1, <1>2, <1>3, <1>4, <1>5, <1>6, <1>7, <1>8 DEF Next

\* The provider gives the code out when it sends the browser back.
LEMMA StepJourneys ==
  ASSUME IInv, [Next]_vars PROVE Journeys'
<1> USE DEF Journeys
<1>1. Types /\ clock \in Nat /\ begunAt \in [Flows -> 0 .. MaxClock]
  BY DEF IInv, Types, TypeOK
<1>2. ASSUME NEW f \in Flows, StartFlow(f) PROVE Journeys'
  <2>1. clock' = clock /\ code' = code /\ stage'[f] = "started" /\ begunAt'[f] = clock /\ stage[f] = "new"
    BY <1>1, <1>2 DEF StartFlow, Types, TypeOK
  <2> QED
    BY <1>1, <1>2, <2>1, FlowFrame DEF IInv
<1>3. ASSUME NEW f \in Flows, FollowRedirect(f) PROVE Journeys'
  <2>1. UNCHANGED <<clock, code, begunAt>> /\ stage[f] = "started"
    BY <1>3 DEF FollowRedirect
  <2> QED
    BY <1>1, <1>3, <2>1, FlowFrame DEF IInv
<1>4. ASSUME NEW f \in Flows, Decide(f) PROVE Journeys'
  <2>1. UNCHANGED <<clock, begunAt>> /\ stage'[f] = "returned"
    BY <1>1, <1>4 DEF Decide, Types, TypeOK
  <2> QED
    BY <1>1, <1>4, <2>1, FlowFrame DEF IInv
<1>5. ASSUME NEW c \in Callbacks, NEW f \in Flows, OpenCallback(c, f) PROVE Journeys'
  BY <1>5 DEF OpenCallback, browser, IInv
<1>6. ASSUME NEW c \in Callbacks, Handle(c) PROVE Journeys'
  <2>1. UNCHANGED <<clock, begunAt, stage>>
    BY <1>1, <1>6, HandlerFrame DEF browser
  <2>2. CASE Exchange(c)
    <3>1. step[c] = "exchange"
      BY <2>2 DEF Exchange
    <3>2. flow[c] \in Flows /\ stage[flow[c]] = "returned"
      BY <3>1 DEF IInv, Callers
    <3>3. \A f \in Flows \ {flow[c]} : code'[f] = code[f]
      BY <2>2, <1>1 DEF Exchange, Types, TypeOK
    <3> QED
      BY <2>1, <3>2, <3>3 DEF IInv
  <2>3. CASE ~Exchange(c)
    <3>1. code' = code
      BY <1>6, <2>3 DEF Handle, Verify, Resolve, StartSession, Audit
    <3> QED
      BY <2>1, <3>1 DEF IInv
  <2> QED
    BY <2>2, <2>3
<1>7. ASSUME NEW c \in Callbacks, ReceiveAnswer(c) PROVE Journeys'
  BY <1>7 DEF ReceiveAnswer, IInv
<1>8. ASSUME Tick PROVE Journeys'
  <2>1. clock' = clock + 1 /\ UNCHANGED <<begunAt, stage, code>>
    BY <1>8 DEF Tick, browser
  <2>2. ASSUME NEW f \in Flows PROVE begunAt[f] <= clock + 1
    <3>1. begunAt[f] \in Nat /\ begunAt[f] <= clock
      BY <1>1 DEF IInv
    <3> QED
      BY <1>1, <3>1
  <2> QED
    BY <2>1, <2>2 DEF IInv
<1>9. CASE UNCHANGED vars
  BY <1>9 DEF vars, browser, IInv
<1> QED
  BY <1>2, <1>3, <1>4, <1>5, <1>6, <1>7, <1>8, <1>9 DEF Next

-----------------------------------------------------------------------------
\* The part of Callers that is about one callback, for the frames above.
CallerOK(c) ==
  /\ step[c] # "new" => flow[c] \in Flows /\ stage[flow[c]] = "returned"
  /\ step[c] \in {"new", "verify"} => c \notin sessions /\ outcome[c] = "none"
  /\ step[c] \in {"exchange", "resolve", "start"} => c \notin sessions
  /\ step[c] = "audit" => c \in sessions
  /\ Passed(c) => /\ cookie[c] = flow[c]
                  /\ judgedAt[c] - begunAt[flow[c]] <= MaxAge
                  /\ outcome[c] # "state"

LEMMA CallersPointwise == Callers <=> \A c \in Callbacks : CallerOK(c)
  BY DEF Callers, CallerOK

\* What the handler of c makes of it.
LEMMA HandlerCaller ==
  ASSUME IInv, NEW c \in Callbacks, Handle(c) PROVE CallerOK(c)'
<1>1. Types /\ CallerOK(c)
  BY CallersPointwise DEF IInv
<1>2. UNCHANGED <<clock, browser, flow, cookie>>
  BY <1>1, HandlerFrame
<1>3. flow[c] \in Flows /\ stage[flow[c]] = "returned"
  BY <1>1, HandlerFrame DEF CallerOK
<1> USE DEF Redirect, Proceed
<1>4. CASE Verify(c)
  <2>1. sessions' = sessions /\ judgedAt'[c] = clock /\ c \notin sessions
    BY <1>1, <1>4 DEF Verify, Types, CallerOK
  <2>2. CASE step'[c] = "exchange"
    <3>1. Verified(c) /\ outcome' = outcome
      BY <1>1, <1>4, <2>2 DEF Verify, Types, TypeOK
    <3> QED
      BY <1>1, <1>2, <1>3, <1>4, <2>1, <2>2, <3>1 DEF Verified, Verify, CallerOK, Passed, browser
  <2>3. CASE step'[c] # "exchange"
    <3>1. step'[c] = "answer"
      BY <1>1, <1>4, <2>3 DEF Verify, Types, TypeOK
    <3> QED
      BY <1>2, <1>3, <2>1, <3>1 DEF CallerOK, Passed, browser
  <2> QED
    BY <2>2, <2>3
<1>5. CASE Exchange(c)
  <2>1. step[c] = "exchange" /\ UNCHANGED <<sessions, judgedAt>> /\ step'[c] \in {"resolve", "answer"}
    BY <1>1, <1>5 DEF Exchange, Types, TypeOK
  <2>2. step'[c] = "resolve" => outcome'[c] = outcome[c]
    BY <1>1, <1>5 DEF Exchange, Types, TypeOK
  <2> QED
    BY <1>1, <1>2, <1>3, <2>1, <2>2 DEF CallerOK, Passed, browser
<1>6. CASE Resolve(c)
  <2>1. step[c] = "resolve" /\ UNCHANGED <<sessions, judgedAt>> /\ step'[c] \in {"start", "answer"}
    BY <1>1, <1>6 DEF Resolve, Types, TypeOK
  <2>2. step'[c] = "start" => outcome'[c] = outcome[c]
    BY <1>1, <1>6 DEF Resolve, Types, TypeOK
  <2> QED
    BY <1>1, <1>2, <1>3, <2>1, <2>2 DEF CallerOK, Passed, browser
<1>7. CASE StartSession(c)
  <2>1. step[c] = "start" /\ UNCHANGED judgedAt /\ step'[c] \in {"audit", "answer"}
    BY <1>1, <1>7 DEF StartSession, Types, TypeOK
  <2>2. step'[c] = "audit" => outcome'[c] = outcome[c] /\ c \in sessions'
    BY <1>1, <1>7 DEF StartSession, Types, TypeOK
  <2>3. step'[c] = "answer" => sessions' = sessions
    BY <1>1, <1>7 DEF StartSession, Types, TypeOK
  <2> QED
    BY <1>1, <1>2, <1>3, <2>1, <2>2, <2>3 DEF CallerOK, Passed, browser
<1>8. CASE Audit(c)
  <2>1. step[c] = "audit" /\ UNCHANGED <<judgedAt, sessions>>
    BY <1>8 DEF Audit
  <2>2. step'[c] = "answer" /\ outcome'[c] = "success"
    BY <1>1, <1>8 DEF Audit, Types, TypeOK
  <2> QED
    BY <1>1, <1>2, <1>3, <2>1, <2>2 DEF CallerOK, Passed, browser
<1> QED
  BY <1>4, <1>5, <1>6, <1>7, <1>8 DEF Handle

\* What Verify has judged stays so: flow, cookie and times do not change any more.
LEMMA StepCallers ==
  ASSUME IInv, [Next]_vars PROVE Callers'
<1> SUFFICES ASSUME NEW d \in Callbacks PROVE CallerOK(d)'
  BY DEF Callers, CallerOK, Passed
<1>1. Types /\ CallerOK(d)
  BY CallersPointwise DEF IInv
<1>2. ASSUME NEW f \in Flows, StartFlow(f) \/ FollowRedirect(f) \/ Decide(f) PROVE CallerOK(d)'
  <2>1. /\ UNCHANGED <<flow, cookie, step, outcome, sessions, judgedAt>>
        /\ stage[f] # "returned"
        /\ \A g \in Flows \ {f} : stage'[g] = stage[g] /\ begunAt'[g] = begunAt[g]
    BY <1>1, <1>2, FlowFrame
  <2>2. step[d] = "new" => ~Passed(d)
    BY <1>1 DEF CallerOK, Passed
  <2> QED
    BY <1>1, <2>1, <2>2 DEF CallerOK, Passed
<1>3. ASSUME NEW c \in Callbacks, NEW f \in Flows, OpenCallback(c, f) PROVE CallerOK(d)'
  <2>1. /\ UNCHANGED <<stage, begunAt, sessions, outcome, judgedAt>>
        /\ step[c] = "new" /\ stage[f] = "returned"
    BY <1>3 DEF OpenCallback, browser
  <2>2. CASE d = c
    <3>1. flow'[d] = f /\ step'[d] = "verify"
      BY <1>1, <1>3, <2>2 DEF OpenCallback, Types, TypeOK
    <3> QED
      BY <1>1, <2>1, <2>2, <3>1 DEF CallerOK, Passed
  <2>3. CASE d # c
    <3>1. flow'[d] = flow[d] /\ step'[d] = step[d] /\ cookie'[d] = cookie[d]
      BY <1>1, <1>3, <2>3 DEF OpenCallback, Types, TypeOK
    <3> QED
      BY <1>1, <2>1, <3>1 DEF CallerOK, Passed
  <2> QED
    BY <2>2, <2>3
<1>4. ASSUME NEW c \in Callbacks, Handle(c) PROVE CallerOK(d)'
  <2>1. CASE d = c
    BY <1>4, <2>1, HandlerCaller
  <2>2. CASE d # c
    <3>1. UNCHANGED <<stage, begunAt, flow, cookie>> /\ Untouched(d)
      BY <1>1, <1>4, <2>2, HandlerFrame DEF browser
    <3> QED
      BY <1>1, <3>1 DEF Untouched, CallerOK, Passed
  <2> QED
    BY <2>1, <2>2
<1>5. ASSUME NEW c \in Callbacks, ReceiveAnswer(c) PROVE CallerOK(d)'
  <2>1. UNCHANGED <<stage, begunAt, flow, cookie, outcome, sessions, judgedAt>> /\ step[c] = "answer"
    BY <1>5 DEF ReceiveAnswer
  <2>2. step'[d] = IF d = c THEN "done" ELSE step[d]
    BY <1>1, <1>5 DEF ReceiveAnswer, Types, TypeOK
  <2> QED
    BY <1>1, <2>1, <2>2 DEF CallerOK, Passed
<1>6. CASE Tick \/ UNCHANGED vars
  <2>1. UNCHANGED <<stage, begunAt, flow, cookie, step, outcome, sessions, judgedAt>>
    BY <1>6 DEF Tick, vars, browser, server
  <2> QED
    BY <1>1, <2>1 DEF CallerOK, Passed
<1> QED
  BY <1>2, <1>3, <1>4, <1>5, <1>6 DEF Next

-----------------------------------------------------------------------------
\* A callback that comes to hold the answer of the token endpoint has found its
\* code fresh, so nobody held it before.
LEMMA HandlerCode ==
  ASSUME IInv, NEW c \in Callbacks, Handle(c)
  PROVE  /\ \A f \in Flows : code[f] = "used" => code'[f] = "used"
         /\ Holds(c)' => code'[flow[c]] = "used" /\ (Holds(c) \/ code[flow[c]] = "fresh")
<1>1. Types /\ CallerOK(c) /\ (Holds(c) => code[flow[c]] = "used")
  BY CallersPointwise DEF IInv, Codes
<1>2. flow[c] \in Flows
  BY <1>1, HandlerFrame DEF CallerOK
<1> USE DEF Redirect, Proceed
<1>3. CASE Verify(c)
  <2>1. UNCHANGED <<code, sessions>> /\ step[c] = "verify" /\ step'[c] \in {"exchange", "answer"}
    BY <1>1, <1>3 DEF Verify, Types, TypeOK
  <2> QED
    BY <1>1, <2>1 DEF Holds, CallerOK
<1>4. CASE Exchange(c)
  <2>1. UNCHANGED sessions /\ step[c] = "exchange" /\ step'[c] \in {"resolve", "answer"}
    BY <1>1, <1>4 DEF Exchange, Types, TypeOK
  <2>2. step'[c] = "resolve" => code'[flow[c]] = "used" /\ code[flow[c]] = "fresh"
    BY <1>1, <1>2, <1>4 DEF Exchange, Types, TypeOK
  <2>3. \A f \in Flows : code[f] = "used" => code'[f] = "used"
    BY <1>1, <1>2, <1>4 DEF Exchange, Types, TypeOK
  <2> QED
    BY <1>1, <2>1, <2>2, <2>3 DEF Holds, CallerOK
<1>5. CASE Resolve(c) \/ StartSession(c) \/ Audit(c)
  <2>1. code' = code /\ Holds(c)
    BY <1>5 DEF Resolve, StartSession, Audit, Holds
  <2> QED
    BY <1>1, <2>1
<1> QED
  BY <1>3, <1>4, <1>5 DEF Handle

\* The code is used up by the first that exchanges it.
LEMMA StepCodes ==
  ASSUME IInv, [Next]_vars PROVE Codes'
<1>1. Types /\ Callers /\ Codes /\ Journeys
  BY DEF IInv
<1>2. \A c \in Callbacks : Holds(c) => flow[c] \in Flows /\ stage[flow[c]] = "returned"
  <2>1. \A c \in Callbacks : step[c] = "new" => c \notin sessions
    BY <1>1 DEF Callers
  <2> QED
    BY <1>1, <2>1 DEF Callers, Holds
<1>3. ASSUME NEW f \in Flows, StartFlow(f) \/ FollowRedirect(f) \/ Decide(f) PROVE Codes'
  <2>1. /\ UNCHANGED <<flow, step, sessions>>
        /\ stage[f] # "returned" /\ \A g \in Flows \ {f} : code'[g] = code[g]
    BY <1>1, <1>3, FlowFrame
  <2>2. \A c \in Callbacks : Holds(c)' <=> Holds(c)
    BY <2>1 DEF Holds
  <2> QED
    BY <1>1, <1>2, <2>1, <2>2 DEF Codes
<1>4. ASSUME NEW c \in Callbacks, NEW f \in Flows, OpenCallback(c, f) PROVE Codes'
  <2>1. /\ UNCHANGED <<code, sessions>> /\ step[c] = "new" /\ step'[c] = "verify"
        /\ \A d \in Callbacks \ {c} : flow'[d] = flow[d] /\ step'[d] = step[d]
    BY <1>1, <1>4 DEF OpenCallback, Types, TypeOK
  <2>2. ~Holds(c)' /\ \A d \in Callbacks \ {c} : Holds(d)' <=> Holds(d)
    BY <1>1, <2>1 DEF Holds, Callers
  <2> QED
    BY <1>1, <2>1, <2>2 DEF Codes
<1>5. ASSUME NEW c \in Callbacks, Handle(c) PROVE Codes'
  <2>1. flow' = flow /\ \A d \in Callbacks \ {c} : Holds(d)' <=> Holds(d)
    BY <1>1, <1>5, HandlerFrame DEF Untouched, Holds
  <2>2. /\ \A f \in Flows : code[f] = "used" => code'[f] = "used"
        /\ Holds(c)' => code'[flow[c]] = "used" /\ (Holds(c) \/ code[flow[c]] = "fresh")
    BY <1>5, HandlerCode
  <2> QED
    BY <1>1, <1>2, <2>1, <2>2 DEF Codes
<1>6. ASSUME NEW c \in Callbacks, ReceiveAnswer(c) PROVE Codes'
  <2>1. /\ UNCHANGED <<code, sessions, flow>> /\ step[c] = "answer" /\ step'[c] = "done"
        /\ \A d \in Callbacks \ {c} : step'[d] = step[d]
    BY <1>1, <1>6 DEF ReceiveAnswer, Types, TypeOK
  <2>2. \A d \in Callbacks : Holds(d)' <=> Holds(d)
    BY <2>1 DEF Holds
  <2> QED
    BY <1>1, <2>1, <2>2 DEF Codes
<1>7. CASE Tick \/ UNCHANGED vars
  BY <1>1, <1>7 DEF Tick, vars, browser, server, Codes, Holds
<1> QED
  BY <1>3, <1>4, <1>5, <1>6, <1>7 DEF Next

-----------------------------------------------------------------------------
\* What is old remains so, and what was taken is not given back.
LEMMA CausesRemain ==
  ASSUME IInv, [Next]_vars, NEW f \in Flows, stage[f] \in {"away", "returned"}
  PROVE  /\ stage'[f] \in {"away", "returned"}
         /\ begunAt'[f] = begunAt[f] /\ begunAt[f] \in Nat
         /\ clock \in Nat /\ clock' \in Nat /\ clock <= clock'
         /\ disturbed \subseteq disturbed'
<1>1. Types
  BY DEF IInv
<1>2. begunAt[f] \in Nat /\ clock \in Nat
  BY <1>1 DEF Types, TypeOK
<1>3. disturbed \subseteq disturbed'
  BY DEF Next, StartFlow, FollowRedirect, Decide, OpenCallback, Handle, Verify, Exchange, Resolve,
         StartSession, Audit, ReceiveAnswer, Tick, vars, browser
<1>4. clock' = clock \/ clock' = clock + 1
  BY DEF Next, StartFlow, FollowRedirect, Decide, OpenCallback, Handle, Verify, Exchange, Resolve,
         StartSession, Audit, ReceiveAnswer, Tick, vars
<1>5. begunAt'[f] = begunAt[f]
  BY <1>1 DEF Types, TypeOK, Next, StartFlow, FollowRedirect, Decide, OpenCallback, Handle, Verify,
              Exchange, Resolve, StartSession, Audit, ReceiveAnswer, Tick, vars, browser
<1>6. stage'[f] \in {"away", "returned"}
  BY <1>1 DEF Types, TypeOK, Next, StartFlow, FollowRedirect, Decide, OpenCallback, Handle, Verify,
              Exchange, Resolve, StartSession, Audit, ReceiveAnswer, Tick, vars, browser
<1> QED
  BY <1>2, <1>3, <1>4, <1>5, <1>6

\* The cookie of g is in the browser for as long as it matters.
Kept(g) ==
  \/ jar = g /\ begunAt[g] + MaxAge <= jarUntil
  \/ g \in disturbed
  \/ clock - begunAt[g] >= MaxAge

\* A cookie that is neither old nor taken is the one that is sent.
LEMMA KeptIsSent ==
  ASSUME Types, NEW g \in Flows, Kept(g)
  PROVE  Jar = g \/ g \in disturbed \/ clock - begunAt[g] >= MaxAge
<1>1. clock \in Nat /\ begunAt[g] \in Nat /\ jarUntil \in Nat /\ g # None
  BY DEF Types, TypeOK
<1> QED
  BY <1>1 DEF Kept, Jar

\* A cookie leaves the browser to another flow, to a callback or to its age.
LEMMA StepKept ==
  ASSUME IInv, [Next]_vars, NEW g \in Flows, stage'[g] \in {"away", "returned"}
  PROVE  Kept(g)'
<1>1. Types
  BY DEF IInv
<1>2. clock \in Nat /\ begunAt[g] \in Nat /\ jarUntil \in Nat /\ begunAt[g] <= clock
  BY <1>1 DEF Types, TypeOK, IInv, Journeys
<1>3. stage[g] \in {"away", "returned"} =>
        /\ Kept(g)
        /\ Jar = g \/ g \in disturbed \/ clock - begunAt[g] >= MaxAge
  BY <1>1, KeptIsSent DEF IInv, Cookies, Kept
<1>4. ASSUME NEW f \in Flows, StartFlow(f) PROVE Kept(g)'
  <2>1. f # g
    BY <1>1, <1>4 DEF StartFlow, Types, TypeOK
  <2>2. stage'[g] = stage[g] /\ begunAt'[g] = begunAt[g] /\ UNCHANGED <<clock, jar, jarUntil, disturbed>>
    BY <1>1, <1>4, <2>1 DEF StartFlow, Types, TypeOK
  <2> QED
    BY <1>3, <2>2 DEF Kept
<1>5. ASSUME NEW f \in Flows, FollowRedirect(f) PROVE Kept(g)'
  <2>1. /\ UNCHANGED <<clock, begunAt>> /\ jar' = f /\ jarUntil' = clock + MaxAge
        /\ disturbed' = IF Jar \in Flows \ {f} THEN disturbed \union {Jar} ELSE disturbed
    BY <1>5 DEF FollowRedirect
  <2>2. CASE f = g
    BY <1>2, <2>1, <2>2 DEF Kept
  <2>3. CASE f # g
    <3>1. stage'[g] = stage[g]
      BY <1>1, <1>5, <2>3 DEF FollowRedirect, Types, TypeOK
    <3> QED
      BY <1>3, <2>1, <2>3, <3>1 DEF Kept
  <2> QED
    BY <2>2, <2>3
<1>6. ASSUME NEW f \in Flows, Decide(f) PROVE Kept(g)'
  <2>1. /\ UNCHANGED <<clock, begunAt, jar, jarUntil, disturbed>>
        /\ stage'[g] = stage[g] \/ stage[g] = "away"
    BY <1>1, <1>6 DEF Decide, Types, TypeOK
  <2> QED
    BY <1>3, <2>1 DEF Kept
<1>7. ASSUME NEW c \in Callbacks, ReceiveAnswer(c) PROVE Kept(g)'
  <2>1. /\ UNCHANGED <<clock, stage, begunAt>>
        /\ disturbed' = IF Jar # None THEN disturbed \union {Jar} ELSE disturbed
    BY <1>7 DEF ReceiveAnswer
  <2>2. g # None
    OBVIOUS
  <2> QED
    BY <1>3, <2>1, <2>2 DEF Kept
<1>8. CASE UNCHANGED browser
  <2>1. UNCHANGED <<stage, begunAt, jar, jarUntil, disturbed>> /\ stage[g] \in {"away", "returned"}
    BY <1>8 DEF browser
  <2>2. clock' \in Nat /\ clock <= clock'
    BY <2>1, CausesRemain
  <2> QED
    BY <1>2, <1>3, <2>1, <2>2 DEF Kept
<1>9. \A c \in Callbacks : (\E f \in Flows : OpenCallback(c, f)) \/ Handle(c) => UNCHANGED browser
  BY <1>1, HandlerFrame DEF OpenCallback
<1> QED
  BY <1>4, <1>5, <1>6, <1>7, <1>8, <1>9 DEF Next, Tick, vars

\* The callback carries along what the browser had, until it is judged.
LEMMA StepCookies ==
  ASSUME IInv, [Next]_vars PROVE Cookies'
<1>1. Types /\ Cookies /\ Callers
  BY DEF IInv
<1>2. \A f \in Flows : stage'[f] \in {"away", "returned"} => Kept(f)'
  BY StepKept
<1>3. ASSUME NEW d \in Callbacks, step'[d] = "verify"
      PROVE  \/ cookie'[d] = flow'[d]
             \/ flow'[d] \in disturbed'
             \/ clock' - begunAt'[flow'[d]] >= MaxAge
  <2>1. CASE step[d] = "verify"
    <3>1. flow[d] \in Flows /\ stage[flow[d]] = "returned"
      BY <1>1, <2>1 DEF Callers
    <3>2. flow'[d] = flow[d] /\ cookie'[d] = cookie[d]
      <4>1. ASSUME NEW f \in Flows, StartFlow(f) \/ FollowRedirect(f) \/ Decide(f)
            PROVE  UNCHANGED <<flow, cookie>>
        BY <1>1, <4>1, FlowFrame
      <4>2. ASSUME NEW c \in Callbacks, NEW f \in Flows, OpenCallback(c, f)
            PROVE  flow'[d] = flow[d] /\ cookie'[d] = cookie[d]
        BY <1>1, <2>1, <4>2 DEF OpenCallback, Types, TypeOK
      <4>3. ASSUME NEW c \in Callbacks, Handle(c) \/ ReceiveAnswer(c) PROVE UNCHANGED <<flow, cookie>>
        BY <1>1, <4>3, HandlerFrame DEF ReceiveAnswer
      <4>4. CASE Tick \/ UNCHANGED vars
        BY <4>4 DEF Tick, vars
      <4> QED
        BY <4>1, <4>2, <4>3, <4>4 DEF Next
    <3>3. /\ begunAt'[flow[d]] = begunAt[flow[d]] /\ begunAt[flow[d]] \in Nat
          /\ clock \in Nat /\ clock' \in Nat /\ clock <= clock'
          /\ disturbed \subseteq disturbed'
      BY <3>1, CausesRemain
    <3>4. \/ cookie[d] = flow[d]
          \/ flow[d] \in disturbed
          \/ clock - begunAt[flow[d]] >= MaxAge
      BY <1>1, <2>1 DEF Cookies
    <3> QED
      BY <3>2, <3>3, <3>4
  <2>2. CASE step[d] # "verify"
    <3>1. \E f \in Flows : OpenCallback(d, f)
      <4>1. ASSUME NEW f \in Flows, StartFlow(f) \/ FollowRedirect(f) \/ Decide(f) PROVE step' = step
        BY <1>1, <4>1, FlowFrame
      <4>2. ASSUME NEW c \in Callbacks, NEW f \in Flows, OpenCallback(c, f) PROVE c = d
        BY <1>1, <1>3, <2>2, <4>2 DEF OpenCallback, Types, TypeOK
      <4>3. ASSUME NEW c \in Callbacks, Handle(c) PROVE FALSE
        <5>1. c = d
          BY <1>1, <1>3, <2>2, <4>3, HandlerFrame DEF Untouched
        <5> QED
          BY <1>1, <1>3, <4>3, <5>1 DEF Handle, Verify, Exchange, Resolve, StartSession, Audit,
                                       Redirect, Proceed, Types, TypeOK
      <4>4. ASSUME NEW c \in Callbacks, ReceiveAnswer(c) PROVE FALSE
        BY <1>1, <1>3, <2>2, <4>4 DEF ReceiveAnswer, Types, TypeOK
      <4>5. CASE Tick \/ UNCHANGED vars
        BY <1>3, <2>2, <4>5 DEF Tick, vars, server
      <4> QED
        BY <1>3, <2>2, <4>1, <4>2, <4>3, <4>4, <4>5 DEF Next
    <3>2. PICK f \in Flows : OpenCallback(d, f)
      BY <3>1
    <3>3. /\ stage[f] = "returned" /\ UNCHANGED <<clock, begunAt, disturbed>>
          /\ flow'[d] = f /\ cookie'[d] = Jar
      BY <1>1, <3>2 DEF OpenCallback, Types, TypeOK, browser
    <3>4. Kept(f)
      BY <1>1, <3>3 DEF Cookies, Kept
    <3> QED
      BY <1>1, <3>3, <3>4, KeptIsSent
  <2> QED
    BY <2>1, <2>2
<1> QED
  BY <1>2, <1>3 DEF Cookies, Kept

\* Verify refuses what Cookies gives a cause for, and the cause remains.
LEMMA StepCause ==
  ASSUME IInv, [Next]_vars PROVE StateRefusedForCause'
<1>1. Types /\ Callers /\ Cookies /\ StateRefusedForCause
  BY DEF IInv
<1> SUFFICES ASSUME NEW d \in Callbacks, outcome'[d] = "state"
             PROVE  judgedAt'[d] - begunAt'[flow'[d]] >= MaxAge \/ flow'[d] \in disturbed'
  BY DEF StateRefusedForCause
<1>2. CASE outcome[d] = "state"
  <2>1. step[d] \notin {"new", "verify", "exchange", "resolve", "start", "audit"}
    BY <1>1, <1>2 DEF Callers, Passed
  <2>2. flow[d] \in Flows /\ stage[flow[d]] = "returned"
    BY <1>1, <2>1 DEF Callers
  <2>3. /\ begunAt'[flow[d]] = begunAt[flow[d]] /\ disturbed \subseteq disturbed'
    BY <2>2, CausesRemain
  <2>4. flow'[d] = flow[d] /\ judgedAt'[d] = judgedAt[d]
    <3>1. ASSUME NEW f \in Flows, StartFlow(f) \/ FollowRedirect(f) \/ Decide(f)
          PROVE  UNCHANGED <<flow, judgedAt>>
      BY <1>1, <3>1, FlowFrame
    <3>2. ASSUME NEW c \in Callbacks, NEW f \in Flows, OpenCallback(c, f)
          PROVE  flow'[d] = flow[d] /\ judgedAt' = judgedAt
      BY <1>1, <2>1, <3>2 DEF OpenCallback, Types, TypeOK
    <3>3. ASSUME NEW c \in Callbacks, Handle(c) PROVE flow' = flow /\ judgedAt'[d] = judgedAt[d]
      BY <1>1, <2>1, <3>3, HandlerFrame DEF Untouched
    <3>4. ASSUME NEW c \in Callbacks, ReceiveAnswer(c) PROVE UNCHANGED <<flow, judgedAt>>
      BY <3>4 DEF ReceiveAnswer
    <3>5. CASE Tick \/ UNCHANGED vars
      BY <3>5 DEF Tick, vars, server
    <3> QED
      BY <3>1, <3>2, <3>3, <3>4, <3>5 DEF Next
  <2> QED
    BY <1>1, <1>2, <2>3, <2>4 DEF StateRefusedForCause
<1>3. CASE outcome[d] # "state"
  <2>1. Verify(d) /\ ~Verified(d)
    <3>1. ASSUME NEW f \in Flows, StartFlow(f) \/ FollowRedirect(f) \/ Decide(f) PROVE outcome' = outcome
      BY <1>1, <3>1, FlowFrame
    <3>2. ASSUME NEW c \in Callbacks, Handle(c) PROVE c = d
      BY <1>1, <1>3, <3>2, HandlerFrame DEF Untouched
    <3>3. Handle(d) => Verify(d)
      BY <1>1, <1>3 DEF Handle, Exchange, Resolve, StartSession, Audit, Redirect, Proceed, Types, TypeOK
    <3>4. Verify(d) => ~Verified(d)
      BY <1>1, <1>3 DEF Verify, Redirect, Proceed, Types, TypeOK
    <3>5. ASSUME NEW c \in Callbacks, (\E f \in Flows : OpenCallback(c, f)) \/ ReceiveAnswer(c)
          PROVE  outcome' = outcome
      BY <3>5 DEF OpenCallback, ReceiveAnswer
    <3>6. Tick \/ UNCHANGED vars => outcome' = outcome
      BY DEF Tick, vars, server
    <3> QED
      BY <1>3, <3>1, <3>2, <3>3, <3>4, <3>5, <3>6 DEF Next
  <2>2. step[d] = "verify" /\ UNCHANGED <<clock, browser, flow>> /\ judgedAt'[d] = clock
    BY <1>1, <2>1 DEF Verify, Types
  <2>3. flow[d] \in Flows
    BY <1>1, <2>2 DEF Callers
  <2>4. clock \in Nat /\ begunAt[flow[d]] \in Nat
    BY <1>1, <2>3 DEF Types, TypeOK
  <2>5. \/ cookie[d] = flow[d]
        \/ flow[d] \in disturbed
        \/ clock - begunAt[flow[d]] >= MaxAge
    BY <1>1, <2>2 DEF Cookies
  <2> QED
    BY <2>1, <2>2, <2>3, <2>4, <2>5 DEF Verified, browser
<1> QED
  BY <1>2, <1>3

-----------------------------------------------------------------------------
\* The inductive invariant holds in every reachable state (handleOAuthStart,
\* handleOAuthCallback and the browser between them).
THEOREM Invariance == Spec => []IInv
<1>1. IInv /\ [Next]_vars => IInv'
  BY StepTypes, StepJourneys, StepCallers, StepCodes, StepCookies, StepCause DEF IInv
<1> QED
  BY InitHolds, <1>1, PTL DEF Spec

\* The types of the handler, the browser and the provider.
THEOREM TypeCorrect == Spec => []TypeOK
<1>1. IInv => TypeOK
  BY DEF IInv, Types
<1> QED
  BY Invariance, <1>1, PTL

\* A session is started only for a flow that this browser has begun no more
\* than MaxAge ago, with its cookie and its code (handleOAuthCallback).
THEOREM SessionsHaveFlows == Spec => []SessionHasFlow
<1>1. IInv => SessionHasFlow
  BY DEF IInv, Types, TypeOK, Callers, Passed, Codes, Holds, SessionHasFlow
<1> QED
  BY Invariance, <1>1, PTL

\* However often its callback is opened, a flow starts one session at most:
\* the provider takes a code once (Provider.Exchange).
THEOREM FlowsStartOneSession == Spec => []OneSessionPerFlow
<1>1. IInv => OneSessionPerFlow
  BY DEF IInv, Types, TypeOK, Codes, Holds, OneSessionPerFlow
<1> QED
  BY Invariance, <1>1, PTL

\* Nobody is refused for his state unless his flow is too old or its cookie
\* was taken (Verify and Clear of OAuthStateManager).
THEOREM RefusalsHaveCause == Spec => []StateRefusedForCause
<1>1. IInv => StateRefusedForCause
  BY DEF IInv
<1> QED
  BY Invariance, <1>1, PTL
=============================================================================
