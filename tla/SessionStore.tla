---------------------------- MODULE SessionStore ----------------------------
(* What SessionManager relies on in a SessionStore (pkg/auth/session.go): a  *)
(* session is live from its Create to its Delete or its expiry and never     *)
(* again, and Get answers with something that was true while it was running. *)
CONSTANTS Sessions,   \* session ids; secureToken never repeats one
          Callers,    \* the calls of Get there ever are
          None

VARIABLES
  state,   \* state[s]: "new", "live" or "gone"
  asked,   \* asked[c]: the session the Get of c is about
  seen,    \* seen[c]: what the session has been since that Get began
  reply    \* reply[c]: what Get has answered

storeVars == <<state, asked, seen, reply>>

States == {"new", "live", "gone"}
Status(x) == IF x = "live" THEN "live" ELSE "absent"

StoreInit ==
  /\ state = [s \in Sessions |-> "new"]
  /\ asked = [c \in Callers |-> None]
  /\ seen = [c \in Callers |-> {}]
  /\ reply = [c \in Callers |-> "none"]

Running(c) == asked[c] # None /\ reply[c] = "none"

\* Sessions come and go, by Create, Delete or time, never backwards.
Move(states) ==
  /\ \A s \in Sessions : \/ states[s] \in {state[s], "gone"}
                         \/ state[s] = "new" /\ states[s] = "live"
  /\ state' = states
  /\ seen' = [c \in Callers |->
       IF Running(c) THEN seen[c] \union {Status(states[asked[c]])} ELSE seen[c]]
  /\ UNCHANGED <<asked, reply>>

Get(c, s) ==
  /\ asked[c] = None
  /\ asked' = [asked EXCEPT ![c] = s]
  /\ seen' = [seen EXCEPT ![c] = {Status(state[s])}]
  /\ UNCHANGED <<state, reply>>

Answer(c, x) ==
  /\ Running(c)
  /\ \/ x = "found" /\ "live" \in seen[c]
     \/ x = "missing" /\ "absent" \in seen[c]
     \/ x = "error"
  /\ reply' = [reply EXCEPT ![c] = x]
  /\ UNCHANGED <<state, asked, seen>>

StoreNext ==
  \/ \E states \in [Sessions -> States] : Move(states)
  \/ \E c \in Callers :
       \/ \E s \in Sessions : Get(c, s)
       \/ \E x \in {"found", "missing", "error"} : Answer(c, x)

StoreSpec == StoreInit /\ [][StoreNext]_storeVars
=============================================================================
