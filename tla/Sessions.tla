------------------------------ MODULE Sessions ------------------------------
(***************************************************************************)
(* Login, logout and the requests between them: handleLogin, handleLogout  *)
(* (pkg/server/handler_auth.go) and SessionManager (pkg/auth/session.go)   *)
(* on a session store of which only the contract SessionStore is known.    *)
(* A caller is one HTTP request, handled by one goroutine.  Start and the  *)
(* middleware call the store, the handlers write the audit log.            *)
(***************************************************************************)
EXTENDS SessionStore

CONSTANTS Failures   \* statements may fail, on the store and on the audit log
ASSUME FailuresAssumption == Failures \in BOOLEAN
ASSUME NoneAssumption == None \notin Sessions

VARIABLES
  stage,    \* stage[r]: what request r does next
  kind,     \* kind[r]: "login", "use" or "logout"
  sid,      \* sid[r]: the session it creates or carries in its cookie
  answer,   \* answer[r]: the HTTP status sent
  cookies,  \* the session ids some browser has received
  trail,    \* the audit log, as a set of <<action, session>>
  ended,    \* ghost: the sessions a logout has been confirmed for
  erased,   \* ghost: the sessions the store has deleted
  kept,     \* ghost: those a logout has failed to delete
  lost,     \* ghost: the audit events whose insert has failed
  past      \* ghost: past[r]: ended and erased, when r began

reqVars == <<stage, kind, sid, answer, cookies, trail, ended>>
ghosts == <<erased, kept, lost>>
vars == <<storeVars, reqVars, ghosts, past>>

Init ==
  /\ StoreInit
  /\ stage = [r \in Callers |-> "new"]
  /\ kind = [r \in Callers |-> "none"]
  /\ sid = [r \in Callers |-> None]
  /\ answer = [r \in Callers |-> 0]
  /\ cookies = {}
  /\ trail = {}
  /\ ended = {}
  /\ erased = {} /\ kept = {} /\ lost = {}
  /\ past = [r \in Callers |-> [ended |-> {}, erased |-> {}]]

Stages == {"new", "refuse", "create", "admit", "handle", "delete", "audit", "answer", "done"}

TypeOK ==
  /\ stage \in [Callers -> Stages]
  /\ kind \in [Callers -> {"none", "login", "use", "logout"}]
  /\ sid \in [Callers -> Sessions \union {None}]
  /\ answer \in [Callers -> {0, 200, 401, 500}]
  /\ cookies \subseteq Sessions /\ ended \subseteq Sessions
  /\ trail \subseteq {"login", "logout", "failed_login"} \X (Sessions \union {None})

-----------------------------------------------------------------------------
Goto(r, next) == stage' = [stage EXCEPT ![r] = next]
Send(r, status) == Goto(r, "done") /\ answer' = [answer EXCEPT ![r] = status]
Begin(r, what) == stage[r] = "new" /\ kind' = [kind EXCEPT ![r] = what]
ChangeState(s, x) == Move([state EXCEPT ![s] = x])

\* RecordAudit: what is inserted, or nothing and nobody is told.
Record(event) ==
  \/ trail' = trail \union {event} /\ UNCHANGED lost
  \/ Failures /\ lost' = lost \union {event} /\ UNCHANGED trail

\* handleLogin up to the answer of Authenticate: accepted, refused or failed.
Login(r) ==
  /\ Begin(r, "login")
  /\ \/ Goto(r, "create") /\ UNCHANGED answer
     \/ Goto(r, "refuse") /\ UNCHANGED answer
     \/ Failures /\ Send(r, 500)
  /\ UNCHANGED <<storeVars, sid, cookies, trail, ended, ghosts>>

RefuseLogin(r) ==
  /\ stage[r] = "refuse"
  /\ Record(<<"failed_login", None>>)
  /\ Send(r, 401)
  /\ UNCHANGED <<storeVars, kind, sid, cookies, ended, erased, kept>>

\* SessionManager.Start: Store.Create, and Set-Cookie in the header to be sent.
CreateSession(r) ==
  /\ stage[r] = "create"
  /\ \E s \in Sessions : state[s] = "new" /\ ChangeState(s, "live")
                         /\ sid' = [sid EXCEPT ![r] = s]
  /\ Goto(r, "audit")
  /\ UNCHANGED <<kind, answer, cookies, trail, ended, ghosts>>

\* Create fails, before or after the session has been stored.
CreateFails(r) ==
  /\ Failures /\ stage[r] = "create"
  /\ \/ UNCHANGED storeVars
     \/ \E s \in Sessions : state[s] = "new" /\ ChangeState(s, "live")
  /\ Send(r, 500)
  /\ UNCHANGED <<kind, sid, cookies, trail, ended, ghosts>>

\* A request with a session cookie: SessionManager.Middleware calls Get.
UseSession(r) ==
  /\ \E what \in {"use", "logout"} : Begin(r, what)
  /\ \E s \in cookies : Get(r, s) /\ sid' = [sid EXCEPT ![r] = s]
  /\ Goto(r, "admit")
  /\ UNCHANGED <<answer, cookies, trail, ended, ghosts>>

\* (wrong variant: only ErrSessionNotFound keeps a request out)
Admit_UnlessMissing(r) ==
  /\ stage[r] = "admit"
  /\ \E x \in {"found", "error"} : Answer(r, x)
  /\ Goto(r, IF kind[r] = "logout" THEN "delete" ELSE "handle")
  /\ UNCHANGED <<kind, sid, answer, cookies, trail, ended, ghosts>>

Admit(r) ==
  /\ stage[r] = "admit"
  /\ Answer(r, "found")
  /\ Goto(r, IF kind[r] = "logout" THEN "delete" ELSE "handle")
  /\ UNCHANGED <<kind, sid, answer, cookies, trail, ended, ghosts>>

KeepOut(r) ==
  /\ stage[r] = "admit"
  /\ Answer(r, "missing") \/ (Failures /\ Answer(r, "error"))
  /\ Send(r, 401)
  /\ UNCHANGED <<kind, sid, cookies, trail, ended, ghosts>>

\* The handler of another route, with the actor of the session.
Handle(r) ==
  /\ stage[r] = "handle"
  /\ Send(r, 200)
  /\ UNCHANGED <<storeVars, kind, sid, cookies, trail, ended, ghosts>>

\* (wrong variant: only the cookie is cleared)
DeleteSession_CookieOnly(r) ==
  /\ stage[r] = "delete"
  /\ Goto(r, "audit")
  /\ UNCHANGED <<storeVars, kind, sid, answer, cookies, trail, ended, ghosts>>

\* SessionManager.End: the error of Store.Delete is thrown away.
DeleteSession(r) ==
  /\ stage[r] = "delete"
  /\ \/ ChangeState(sid[r], "gone") /\ erased' = erased \union {sid[r]} /\ UNCHANGED kept
     \/ Failures /\ kept' = kept \union {sid[r]} /\ UNCHANGED <<storeVars, erased>>
  /\ Goto(r, "audit")
  /\ UNCHANGED <<kind, sid, answer, cookies, trail, ended, lost>>

\* emitAudit of both handlers.
Audit(r) ==
  /\ stage[r] = "audit"
  /\ Record(<<kind[r], sid[r]>>)
  /\ Goto(r, "answer")
  /\ UNCHANGED <<storeVars, kind, sid, answer, cookies, ended, erased, kept>>

\* (wrong variant: the login is answered before it is audited)
SendAnswer_BeforeAudit(r) ==
  /\ stage[r] \in {"audit", "answer"}
  /\ cookies' = IF kind[r] = "login" THEN cookies \union {sid[r]} ELSE cookies
  /\ ended' = IF kind[r] = "logout" THEN ended \union {sid[r]} ELSE ended
  /\ Send(r, 200)
  /\ UNCHANGED <<storeVars, kind, sid, trail, ghosts>>

\* The headers leave with the body: only now does the browser have the cookie.
SendAnswer(r) ==
  /\ stage[r] = "answer"
  /\ cookies' = IF kind[r] = "login" THEN cookies \union {sid[r]} ELSE cookies
  /\ ended' = IF kind[r] = "logout" THEN ended \union {sid[r]} ELSE ended
  /\ Send(r, 200)
  /\ UNCHANGED <<storeVars, kind, sid, trail, ghosts>>

Expire ==
  /\ \E s \in Sessions : state[s] = "live" /\ ChangeState(s, "gone")
  /\ UNCHANGED <<reqVars, ghosts>>

Next ==
  /\ \/ \E r \in Callers :
          \/ Login(r) \/ RefuseLogin(r) \/ CreateSession(r) \/ CreateFails(r)
          \/ UseSession(r) \/ Admit(r) \/ KeepOut(r) \/ Handle(r)
          \/ DeleteSession(r) \/ Audit(r) \/ SendAnswer(r)
     \/ Expire
  /\ past' = [r \in Callers |-> IF stage[r] = "new" /\ stage'[r] # "new"
                                THEN [ended |-> ended, erased |-> erased] ELSE past[r]]

Spec == Init /\ [][Next]_vars

-----------------------------------------------------------------------------
Served(r) == kind[r] \in {"use", "logout"} /\ answer[r] = 200

\* A request that begins after the session has been deleted is never served,
\* and neither is one whose session was not live at any time of the request:
\* a store that answers with an error lets nobody in (session.go:136).
NoAccessAfterDeletion ==
  \A r \in Callers : Served(r) => sid[r] \notin past[r].erased /\ "live" \in seen[r]

\* A logout that has been confirmed is final: no request begun later is served
\* with that session (the test of SessionManager.End, session_test.go:144).
\* The one exception is a logout whose Store.Delete failed: End returns nil all
\* the same (session.go:114) and the session lives on.
LogoutIsFinal ==
  \A r \in Callers : Served(r) => sid[r] \notin past[r].ended \ kept

\* The audit log is ahead of what it tells: when a request is served, the login
\* that created its session is in it, and when a logout is confirmed, so is the
\* logout (emitAudit is called before WriteJSON in both handlers), unless that
\* very insert has failed.
AuditedBeforeUse ==
  /\ \A r \in Callers : Served(r) => <<"login", sid[r]>> \in trail \union lost
  /\ \A s \in ended : <<"logout", s>> \in trail \union lost
=============================================================================
