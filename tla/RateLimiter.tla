----------------------------- MODULE RateLimiter -----------------------------
(***************************************************************************)
(* The limiter in front of the login handler (pkg/auth/rate_limit.go).     *)
(* Allow reads the clock before it takes the mutex, so a call can be       *)
(* overtaken by later ones between the two.  Time is counted in ticks.     *)
(***************************************************************************)
EXTENDS Integers, FiniteSets

CONSTANTS Calls,            \* the requests that reach the limiter, each once
          Hosts,            \* addresses a request comes from
          NoHeader,         \* no usable X-Forwarded-For
          Origins,          \* the address data of the requests of this instance
          ConfiguredLimit, ConfiguredWindow,  \* arguments of NewRateLimiter
          Minute,           \* ticks in time.Minute
          Delay,            \* ticks a call may spend between clock and mutex
          MaxClock          \* bound of the clock

Origin == [forwarded : Hosts \union {NoHeader}, remote : Hosts]

ASSUME ConstantsAssumption ==
  /\ IsFiniteSet(Calls)
  /\ Origins \subseteq Origin
  /\ ConfiguredLimit \in Int /\ ConfiguredWindow \in Int
  /\ Minute \in Nat \ {0}
  /\ Delay \in Nat /\ MaxClock \in Nat

\* NewRateLimiter replaces senseless arguments.
Limit == IF ConfiguredLimit <= 0 THEN 5 ELSE ConfiguredLimit
Window == IF ConfiguredWindow <= 0 THEN Minute ELSE ConfiguredWindow

VARIABLES
  clock,     \* the clock of the process
  origin,    \* origin[c]: where call c says it comes from
  pc,        \* pc[c]: how far call c is
  now,       \* now[c]: what c has read from the clock
  attempts   \* attempts[key]: the calls whose times are stored under the key

limiterVars == <<clock, origin, pc, now, attempts>>

LimiterTypeOK ==
  /\ clock \in Nat
  /\ origin \in [Calls -> Origins]
  /\ pc \in [Calls -> {"sent", "clocked", "admitted", "refused"}]
  /\ now \in [Calls -> Nat]
  /\ attempts \in [Hosts -> SUBSET Calls]

LimiterInit ==
  /\ clock = 0
  /\ origin \in [Calls -> Origins]
  /\ pc = [c \in Calls |-> "sent"]
  /\ now = [c \in Calls |-> 0]
  /\ attempts = [key \in Hosts |-> {}]

-----------------------------------------------------------------------------
clientIP(c) == IF origin[c].forwarded # NoHeader THEN origin[c].forwarded
                                                 ELSE origin[c].remote

\* (wrong variant: one slice for all addresses)
Kept_Shared(c) == {a \in UNION {attempts[key] : key \in Hosts} : now[a] > now[c] - Window}

\* The entries of the slice that are after now - window.
Kept(c) == {a \in attempts[clientIP(c)] : now[a] > now[c] - Window}

\* The first line of Allow.
ReadClock(c) ==
  /\ pc[c] = "sent"
  /\ now' = [now EXCEPT ![c] = clock]
  /\ pc' = [pc EXCEPT ![c] = "clocked"]
  /\ UNCHANGED <<clock, origin, attempts>>

\* The rest of it, under the mutex, and the answer of Middleware.
Refuse(c) ==
  /\ pc[c] = "clocked"
  /\ Cardinality(Kept(c)) >= Limit
  /\ attempts' = [attempts EXCEPT ![clientIP(c)] = Kept(c)]
  /\ pc' = [pc EXCEPT ![c] = "refused"]
  /\ UNCHANGED <<clock, origin, now>>

\* (wrong variant: the limit is compared after the new entry is stored)
Allow_OneMore(c) ==
  /\ pc[c] = "clocked"
  /\ Cardinality(Kept(c)) <= Limit
  /\ attempts' = [attempts EXCEPT ![clientIP(c)] = Kept(c) \union {c}]
  /\ pc' = [pc EXCEPT ![c] = "admitted"]
  /\ UNCHANGED <<clock, origin, now>>

Allow(c) ==
  /\ pc[c] = "clocked"
  /\ Cardinality(Kept(c)) < Limit
  /\ attempts' = [attempts EXCEPT ![clientIP(c)] = Kept(c) \union {c}]
  /\ pc' = [pc EXCEPT ![c] = "admitted"]
  /\ UNCHANGED <<clock, origin, now>>

\* Time passes; no call is held up for more than Delay ticks before the mutex.
Tick ==
  /\ clock < MaxClock
  /\ \A c \in Calls : pc[c] = "clocked" => clock < now[c] + Delay
  /\ clock' = clock + 1
  /\ UNCHANGED <<origin, pc, now, attempts>>

LimiterNext ==
  \/ \E c \in Calls : ReadClock(c) \/ Allow(c) \/ Refuse(c)
  \/ Tick

LimiterSpec == LimiterInit /\ [][LimiterNext]_limiterVars

-----------------------------------------------------------------------------
Admitted(key, from, to) ==
  {c \in Calls : pc[c] = "admitted" /\ clientIP(c) = key /\ from < now[c] /\ now[c] <= to}

\* What the limiter really guarantees: per address, no more than Limit calls
\* are admitted in any stretch that is shorter than the window by the time a
\* call may be held up between reading the clock and locking the mutex.
LimitPerWindow ==
  \A key \in Hosts, from \in -1 .. MaxClock :
    Cardinality(Admitted(key, from, from + Window - Delay)) <= Limit

\* Nobody pays for others: a call is refused only because Limit calls of its
\* own address were admitted in the window before it; refusals do not count.
RefusedForCause ==
  \A c \in Calls : pc[c] = "refused" =>
    Cardinality(Admitted(clientIP(c), now[c] - Window, MaxClock)) >= Limit

\* What makes the two true: entries are dropped only when they are out of
\* reach of every call that still has to take the mutex.
DroppedAreOld ==
  \A c \in Calls : pc[c] = "admitted" =>
    c \in attempts[clientIP(c)] \/ now[c] + Window <= clock
StoredAreAdmitted ==
  \A key \in Hosts : \A c \in attempts[key] : pc[c] = "admitted" /\ clientIP(c) = key
Clocks ==
  /\ clock <= MaxClock
  /\ \A c \in Calls :
       /\ now[c] <= clock
       /\ pc[c] = "clocked" => clock <= now[c] + Delay

LimiterInvariant ==
  /\ LimiterTypeOK
  /\ Clocks
  /\ StoredAreAdmitted
  /\ DroppedAreOld
  /\ LimitPerWindow
  /\ RefusedForCause

\* CHANGELOG.md: "Sliding window rate limiter per IP", read as it is meant:
\* never more than Limit admitted calls within one window.
SlidingWindow ==
  \A key \in Hosts, from \in -1 .. MaxClock :
    Cardinality(Admitted(key, from, from + Window)) <= Limit
=============================================================================
