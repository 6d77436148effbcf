----------------------------- MODULE OAuthFlow -----------------------------
(***************************************************************************)
(* Sign-in by OAuth: handleOAuthStart and handleOAuthCallback              *)
(* (pkg/server/handler_auth.go) with OAuthStateManager (pkg/auth/oauth.go) *)
(* and a browser whose tabs share one state cookie.  The server keeps      *)
(* nothing of a flow: the signed cookie is the state, so what matters is   *)
(* which cookie a callback carries.  A flow is named by its nonce.         *)
(***************************************************************************)
EXTENDS Naturals, FiniteSets

CONSTANTS Flows, Callbacks,
          None,
          MaxAge,     \* ten minutes, of the cookie and of the flow
          Failures,   \* provider, session store and audit log may fail
          MaxClock

ASSUME ConstantsAssumption ==
  MaxAge \in Nat \ {0} /\ MaxClock \in Nat /\ Failures \in BOOLEAN /\ None \notin Flows

VARIABLES
  clock,
  stage,      \* stage[f]: how far flow f is; "away" is at the provider
  begunAt,    \* begunAt[f]: RequestedAt, inside the signed cookie
  jar,        \* the flow of the state cookie in the browser, or None
  jarUntil,   \* when the browser forgets it
  code,       \* code[f]: "none", "denied", "fresh" or "used"
  flow,       \* flow[c]: the flow whose state callback c carries in its query
  cookie,     \* cookie[c]: the flow of the cookie it carries
  step,       \* step[c]: what its handler does next
  outcome,    \* outcome[c]: the redirect, "success" or the reason of a failure
  sessions,   \* the callbacks a session has been started for
  trail,      \* the callbacks whose oauth_login is in the audit log
  disturbed,  \* ghost: the flows whose cookie another flow or callback replaced
  judgedAt    \* ghost: when the cookie of c was judged

browser == <<stage, begunAt, jar, jarUntil, disturbed>>
server == <<step, outcome, sessions, trail, judgedAt>>
vars == <<clock, browser, code, flow, cookie, server>>

Reasons == {"state", "code", "exchange", "denied", "session"}

TypeOK ==
  /\ clock \in 0 .. MaxClock
  /\ stage \in [Flows -> {"new", "started", "away", "returned"}]
  /\ begunAt \in [Flows -> 0 .. MaxClock]
  /\ jar \in Flows \union {None} /\ jarUntil \in 0 .. MaxClock + MaxAge
  /\ code \in [Flows -> {"none", "denied", "fresh", "used"}]
  /\ flow \in [Callbacks -> Flows \union {None}]
  /\ cookie \in [Callbacks -> Flows \union {None}]
  /\ step \in [Callbacks -> {"new", "verify", "exchange", "resolve", "start", "audit",
                             "answer", "done"}]
  /\ outcome \in [Callbacks -> Reasons \union {"none", "success"}]
  /\ sessions \subseteq Callbacks /\ trail \subseteq sessions

Init ==
  /\ clock = 0
  /\ stage = [f \in Flows |-> "new"]
  /\ begunAt = [f \in Flows |-> 0]
  /\ jar = None /\ jarUntil = 0
  /\ code = [f \in Flows |-> "none"]
  /\ flow = [c \in Callbacks |-> None]
  /\ cookie = [c \in Callbacks |-> None]
  /\ step = [c \in Callbacks |-> "new"]
  /\ outcome = [c \in Callbacks |-> "none"]
  /\ sessions = {}
  /\ trail = {}
  /\ disturbed = {}
  /\ judgedAt = [c \in Callbacks |-> 0]

-----------------------------------------------------------------------------
\* The browser and the provider.

Jar == IF jar # None /\ clock < jarUntil THEN jar ELSE None

\* handleOAuthStart and OAuthStateManager.Begin, in one piece: a fresh nonce,
\* the time and a redirect that sets the cookie.
StartFlow(f) ==
  /\ stage[f] = "new"
  /\ stage' = [stage EXCEPT ![f] = "started"]
  /\ begunAt' = [begunAt EXCEPT ![f] = clock]
  /\ UNCHANGED <<clock, jar, jarUntil, disturbed, code, flow, cookie, server>>

\* The redirect arrives and the cookie replaces that of any other tab.
FollowRedirect(f) ==
  /\ stage[f] = "started"
  /\ stage' = [stage EXCEPT ![f] = "away"]
  /\ jar' = f /\ jarUntil' = clock + MaxAge
  /\ disturbed' = IF Jar \in Flows \ {f} THEN disturbed \union {Jar} ELSE disturbed
  /\ UNCHANGED <<clock, begunAt, code, flow, cookie, server>>

Decide(f) ==
  /\ stage[f] = "away"
  /\ stage' = [stage EXCEPT ![f] = "returned"]
  /\ \E x \in {"fresh", "denied"} : code' = [code EXCEPT ![f] = x]
  /\ UNCHANGED <<clock, begunAt, jar, jarUntil, disturbed, flow, cookie, server>>

\* The callback URL is opened: once, or again by a reload.
OpenCallback(c, f) ==
  /\ step[c] = "new" /\ stage[f] = "returned"
  /\ flow' = [flow EXCEPT ![c] = f]
  /\ cookie' = [cookie EXCEPT ![c] = Jar]
  /\ step' = [step EXCEPT ![c] = "verify"]
  /\ UNCHANGED <<clock, browser, code, outcome, sessions, trail, judgedAt>>

\* Every answer of a callback clears the cookie, whichever flow it is of.
ReceiveAnswer(c) ==
  /\ step[c] = "answer"
  /\ step' = [step EXCEPT ![c] = "done"]
  /\ jar' = None
  /\ disturbed' = IF Jar # None THEN disturbed \union {Jar} ELSE disturbed
  /\ UNCHANGED <<clock, stage, begunAt, jarUntil, code, flow, cookie, outcome, sessions, trail, judgedAt>>

Tick ==
  /\ clock < MaxClock
  /\ clock' = clock + 1
  /\ UNCHANGED <<browser, code, flow, cookie, server>>

-----------------------------------------------------------------------------
\* handleOAuthCallback.

Redirect(c, x) ==
  /\ outcome' = [outcome EXCEPT ![c] = x]
  /\ step' = [step EXCEPT ![c] = "answer"]
Proceed(c, next) == step' = [step EXCEPT ![c] = next] /\ UNCHANGED outcome

\* (wrong variant: any signed cookie will do)
Verified_AnyState(c) == cookie[c] # None /\ clock - begunAt[cookie[c]] <= MaxAge

\* (wrong variant: the age is off by one)
Verified_Younger(c) ==
  cookie[c] # None /\ cookie[c] = flow[c] /\ clock - begunAt[flow[c]] < MaxAge - 1

\* OAuthStateManager.Verify: the state of the query is that of the cookie, and
\* no more than ten minutes old.
Verified(c) ==
  cookie[c] # None /\ cookie[c] = flow[c] /\ clock - begunAt[flow[c]] <= MaxAge

Verify(c) ==
  /\ step[c] = "verify"
  /\ judgedAt' = [judgedAt EXCEPT ![c] = clock]
  /\ \/ ~Verified(c) /\ Redirect(c, "state")
     \/ Verified(c) /\ code[flow[c]] = "denied" /\ Redirect(c, "code")
     \/ Verified(c) /\ code[flow[c]] # "denied" /\ Proceed(c, "exchange")
  /\ UNCHANGED <<clock, browser, code, flow, cookie, sessions, trail>>

\* (wrong variant: the answer of the token endpoint is not looked at)
Exchange_Unchecked(c) ==
  /\ step[c] = "exchange"
  /\ code' = [code EXCEPT ![flow[c]] = "used"]
  /\ Proceed(c, "resolve")
  /\ UNCHANGED <<clock, browser, flow, cookie, sessions, trail, judgedAt>>

\* Provider.Exchange: the token endpoint takes a code once; a failure may come
\* before or after it did, fetchUserInfo is a second request.
Exchange(c) ==
  /\ step[c] = "exchange"
  /\ \/ /\ code[flow[c]] = "fresh"
        /\ code' = [code EXCEPT ![flow[c]] = "used"]
        /\ Proceed(c, "resolve") \/ (Failures /\ Redirect(c, "exchange"))
     \/ /\ code[flow[c]] = "used" \/ Failures
        /\ Redirect(c, "exchange") /\ UNCHANGED code
  /\ UNCHANGED <<clock, browser, flow, cookie, sessions, trail, judgedAt>>

\* ResolveOAuthActor of the application: an actor, nobody or an error.
Resolve(c) ==
  /\ step[c] = "resolve"
  /\ Proceed(c, "start") \/ Redirect(c, "denied")
  /\ UNCHANGED <<clock, browser, code, flow, cookie, sessions, trail, judgedAt>>

StartSession(c) ==
  /\ step[c] = "start"
  /\ \/ sessions' = sessions \union {c} /\ Proceed(c, "audit")
     \/ Failures /\ Redirect(c, "session") /\ UNCHANGED sessions
  /\ UNCHANGED <<clock, browser, code, flow, cookie, trail, judgedAt>>

Audit(c) ==
  /\ step[c] = "audit"
  /\ trail' = trail \union {c} \/ (Failures /\ UNCHANGED trail)
  /\ Redirect(c, "success")
  /\ UNCHANGED <<clock, browser, code, flow, cookie, sessions, judgedAt>>

Handle(c) == Verify(c) \/ Exchange(c) \/ Resolve(c) \/ StartSession(c) \/ Audit(c)

Next ==
  \/ \E f \in Flows : StartFlow(f) \/ FollowRedirect(f) \/ Decide(f)
  \/ \E c \in Callbacks :
       \/ \E f \in Flows : OpenCallback(c, f)
       \/ Handle(c) \/ ReceiveAnswer(c)
  \/ Tick

Spec == Init /\ [][Next]_vars

-----------------------------------------------------------------------------
\* A session is started only for a flow that this browser had begun no more
\* than ten minutes ago, with the cookie of that flow and its code.
SessionHasFlow ==
  \A c \in sessions :
    /\ cookie[c] = flow[c] /\ code[flow[c]] = "used"
    /\ judgedAt[c] - begunAt[flow[c]] <= MaxAge

\* A callback that is reloaded, or opened twice at a time, starts one session:
\* nothing on the server remembers a flow, only the provider remembers a code.
OneSessionPerFlow ==
  \A c, d \in sessions : flow[c] = flow[d] => c = d

\* Nobody is sent away for his state unless the flow is too old or its cookie
\* was taken by another tab or an earlier callback (Verify and Clear).
StateRefusedForCause ==
  \A c \in Callbacks : outcome[c] = "state" =>
    \/ judgedAt[c] - begunAt[flow[c]] >= MaxAge
    \/ flow[c] \in disturbed
=============================================================================
