---------------------------- MODULE SessionStores ----------------------------
(***************************************************************************)
(* The session stores of pkg/auth: the map of MemorySessionStore           *)
(* (session.go), the table of PGSessionStore (pg_session_store.go) and the *)
(* items of CacheSessionStore (cache_session_store.go) in a MemoryCache or *)
(* in Redis (pkg/adapters/redisstore).  Map, table and Redis are read or   *)
(* written in one step, under one lock or by one command; an operation of  *)
(* the third is Go code around the steps of the cache.  What is in the     *)
(* process ends with it.                                                   *)
(***************************************************************************)
EXTENDS MemoryCache

CONSTANTS Sessions, None, TTL,
          Kinds,      \* the stores an application may pick
          Skew,       \* how far the clock of the process is behind PostgreSQL's
          MaxEnds     \* how often the process may end

\* The keys are the session ids, prefixed in the cache; of a session only
\* ExpiresAt is modelled.
ASSUME SessionsAssumption ==
  /\ Kinds \subseteq {"memory", "postgres", "cache", "redis"}
  /\ Keys = Sessions /\ None \notin Sessions
  /\ Values = 0 .. MaxClock + TTL
  /\ TTL \in Nat \ {0} /\ Skew \in Nat /\ MaxEnds \in Nat /\ MaxClock \in Nat

VARIABLES
  kind,     \* the store
  job,      \* job[c]: the store operation of caller c
  reply,    \* reply[c]: what it has returned
  expires,  \* expires[c]: ExpiresAt of the session c creates
  tokens,   \* the ids secureToken has given out
  ends,     \* how often the process has ended
  stored,   \* ghost: the sessions that have been in the store
  seen      \* ghost: what the session of a Get has been while it ran

calls == <<job, reply, expires, tokens, ends>>
vars == <<cacheVars, kind, calls, stored, seen>>

\* The clock is the one that decides about expiry: the database's, if any.
Behind == IF kind = "postgres" THEN Skew ELSE 0

Init ==
  /\ kind \in Kinds
  /\ clock = Behind
  /\ CacheInit
  /\ job = [c \in Callers |-> "none"]
  /\ reply = [c \in Callers |-> "none"]
  /\ expires = [c \in Callers |-> 0]
  /\ tokens = {}
  /\ ends = 0
  /\ stored = {}
  /\ seen = [c \in Callers |-> {}]

TypeOK ==
  /\ CacheTypeOK
  /\ kind \in Kinds
  /\ job \in [Callers -> {"none", "create", "get", "expire", "delete"}]
  /\ reply \in [Callers -> {"none", "ok", "found", "missing", "error"}]
  /\ expires \in [Callers -> Values]
  /\ ends \in 0 .. MaxEnds
  /\ tokens \subseteq Sessions /\ stored \subseteq tokens

-----------------------------------------------------------------------------
\* A session is valid at its last instant in Go (After is strict) and no longer
\* in PostgreSQL (expires_at > NOW()).
ValidAt(expiry, now) == IF kind = "postgres" THEN expiry > now ELSE now <= expiry
LiveIn(map, now, s) == map[s] # Missing /\ ValidAt(map[s].value, now)

Begin(c, what) == job[c] = "none" /\ job' = [job EXCEPT ![c] = what]
Pending(c, what) == job[c] = what /\ reply[c] = "none" /\ step[c] # "dead"
Answer(c, x) ==
  /\ reply' = [reply EXCEPT ![c] = x]
  /\ UNCHANGED <<clock, step, key, held, result, job, expires, tokens, ends>>

\* Create in all three: a fresh id and the time of expiry by the clock of the
\* process, before anything is stored.
Create(c) ==
  /\ Begin(c, "create")
  /\ \E s \in Sessions \ tokens : tokens' = tokens \union {s} /\ key' = [key EXCEPT ![c] = s]
  /\ expires' = [expires EXCEPT ![c] = clock - Behind + TTL]
  /\ UNCHANGED <<clock, items, step, held, result, reply, ends, stored>>

\* Get with any id a client may send, Delete with one it was given.
BeginGet(c) ==
  /\ Begin(c, "get")
  /\ \E s \in Sessions : IF kind \in {"cache", "redis"} THEN Get(c, s)
                         ELSE key' = [key EXCEPT ![c] = s] /\ UNCHANGED <<clock, items, step, held, result>>
  /\ UNCHANGED <<reply, expires, tokens, ends, stored>>
BeginDelete(c) ==
  /\ Begin(c, "delete")
  /\ \E s \in tokens : IF kind = "cache" THEN Delete(c, s)
                       ELSE key' = [key EXCEPT ![c] = s] /\ UNCHANGED <<clock, items, step, held, result>>
  /\ UNCHANGED <<reply, expires, tokens, ends, stored>>

-----------------------------------------------------------------------------
\* The map, the table and Redis, which forgets a key by a clock of its own.

Put(c) ==
  /\ items' = [items EXCEPT ![key[c]] =
                [value |-> expires[c], expiresAt |-> IF kind = "redis" THEN clock + TTL ELSE Forever]]
  /\ stored' = stored \union {key[c]}
Take(c) == items' = [items EXCEPT ![key[c]] = Missing] /\ UNCHANGED stored

CreateRow(c) == kind # "cache" /\ Pending(c, "create") /\ Put(c) /\ Answer(c, "ok")

\* (wrong variant: the expiry is forgotten)
GetRow_AnyAge(c) ==
  /\ kind \in {"memory", "postgres"} /\ Pending(c, "get")
  /\ Answer(c, IF items[key[c]] # Missing THEN "found" ELSE "missing")
  /\ UNCHANGED <<items, stored>>

GetRow(c) ==
  /\ kind \in {"memory", "postgres"} /\ Pending(c, "get")
  /\ Answer(c, IF LiveIn(items, clock, key[c]) THEN "found" ELSE "missing")
  /\ UNCHANGED <<items, stored>>

DeleteRow(c) == kind # "cache" /\ Pending(c, "delete") /\ Take(c) /\ Answer(c, "ok")

\* A statement or a command fails, before or after it has taken effect.
Fail(c) ==
  /\ kind \in {"postgres", "redis"} /\ step[c] \in {"idle", "look"}
  /\ job[c] # "none" /\ reply[c] = "none"
  /\ \/ UNCHANGED <<items, stored>>
     \/ job[c] = "create" /\ Put(c)
     \/ job[c] = "delete" /\ Take(c)
  /\ Answer(c, "error")

CleanupOf(old) ==
  /\ kind = "postgres"
  /\ items' = [s \in Sessions |-> IF items[s] # Missing /\ old[s] THEN Missing ELSE items[s]]
  /\ UNCHANGED <<clock, step, key, held, result, calls, stored>>

\* (wrong variant: Cleanup compares the wrong way round)
Cleanup_Reversed == CleanupOf([s \in Sessions |-> items[s] # Missing /\ items[s].value > clock])

\* Cleanup: delete where expires_at <= NOW(), whenever the application likes.
Cleanup == CleanupOf([s \in Sessions |-> items[s] # Missing /\ items[s].value <= clock])

-----------------------------------------------------------------------------
\* The cache.

\* Set reads the clock once more, for the expiry of the item.
CreateSet(c) ==
  /\ kind = "cache" /\ job[c] = "create"
  /\ Set(c, key[c], expires[c], TTL)
  /\ UNCHANGED <<calls, stored>>

\* The steps of the cache; only Store puts anything into it.
InCache(c) ==
  /\ kind = "cache" /\ CacheStep(c)
  /\ stored' = stored \union {s \in Sessions : items'[s] # Missing}
  /\ UNCHANGED calls

\* GET and DEL of Redis; of the second, Get on a session that has expired does
\* not look at the error.
RedisGet(c) ==
  /\ kind = "redis" /\ Pending(c, "get") /\ step[c] = "look"
  /\ Return(c, IF items[key[c]] = Missing \/ Expired(items[key[c]], clock) THEN Missing
               ELSE items[key[c]].value)
  /\ UNCHANGED <<clock, items, key, held, calls, stored>>

RedisDel(c) ==
  /\ kind = "redis" /\ step[c] = "drop"
  /\ items' \in {items, [items EXCEPT ![key[c]] = Missing]}
  /\ Return(c, Missing)
  /\ UNCHANGED <<clock, key, held, calls, stored>>

Returned(c, what) == Pending(c, what) /\ step[c] = "returned"

CallDone(c) ==
  /\ Returned(c, "create") \/ Returned(c, "delete")
  /\ Answer(c, "ok")
  /\ UNCHANGED <<items, stored>>

GetFound(c) ==
  /\ Returned(c, "get") /\ result[c] # Missing /\ clock <= result[c]
  /\ Answer(c, "found")
  /\ UNCHANGED <<items, stored>>

GetMissing(c) ==
  /\ Returned(c, "get") \/ Returned(c, "expire")
  /\ result[c] = Missing
  /\ Answer(c, "missing")
  /\ UNCHANGED <<items, stored>>

\* The session has expired and its item has not: it is deleted first.
GetExpired(c) ==
  /\ Returned(c, "get") /\ result[c] # Missing /\ clock > result[c]
  /\ job' = [job EXCEPT ![c] = "expire"]
  /\ step' = [step EXCEPT ![c] = "drop"]
  /\ UNCHANGED <<clock, items, key, held, result, reply, expires, tokens, ends, stored>>

-----------------------------------------------------------------------------
\* The process ends: nobody hears of its calls any more, and what it had in
\* memory is gone.
ProcessEnds ==
  /\ ends < MaxEnds /\ ends' = ends + 1
  /\ step' = [c \in Callers |-> IF job[c] # "none" /\ reply[c] = "none" THEN "dead" ELSE step[c]]
  /\ items' = IF kind \in {"memory", "cache"} THEN [s \in Sessions |-> Missing] ELSE items
  /\ UNCHANGED <<clock, key, held, result, job, reply, expires, tokens, stored>>

\* What SessionManager sees of the store.

StatesIn(map, now, ever) ==
  [s \in Sessions |-> IF LiveIn(map, now, s) THEN "live"
                      ELSE IF s \in ever THEN "gone" ELSE "new"]
States == StatesIn(items, clock, stored)
Asked(c) == IF job[c] \in {"get", "expire"} THEN key[c] ELSE None
GetReply(c) == IF job[c] \in {"get", "expire"} THEN reply[c] ELSE "none"

Abstract == INSTANCE SessionStore WITH
  state <- States,
  asked <- [c \in Callers |-> Asked(c)],
  reply <- [c \in Callers |-> GetReply(c)]

WatchSessions ==
  seen' = [c \in Callers |->
    IF Asked(c)' = None \/ GetReply(c) # "none" THEN seen[c]
    ELSE seen[c] \union {Abstract!Status(States[Asked(c)'])}
                 \union {Abstract!Status(States'[Asked(c)'])}]

Operation(c) ==
  \/ Create(c) \/ BeginGet(c) \/ BeginDelete(c)
  \/ CreateRow(c) \/ GetRow(c) \/ DeleteRow(c) \/ Fail(c)
  \/ CreateSet(c) \/ InCache(c) \/ RedisGet(c) \/ RedisDel(c) \/ CallDone(c)
  \/ GetFound(c) \/ GetMissing(c) \/ GetExpired(c)

TimePasses == Tick /\ UNCHANGED <<calls, stored>>

Next ==
  /\ (\E c \in Callers : Operation(c)) \/ Cleanup \/ TimePasses \/ ProcessEnds
  /\ kind' = kind
  /\ WatchSessions

Spec == Init /\ [][Next]_vars

-----------------------------------------------------------------------------
\* All keep the contract of SessionStore: what Get tells the middleware
\* was true of the session at some moment of the call, although Get on a
\* cache is several looks at two clocks, PostgreSQL judges by a clock that is
\* ahead, statements and commands fail, and the process may end.
ImplementsSessionStore == Abstract!StoreSpec

\* A session that has not expired ends by a Delete of its own and by nothing
\* else: neither by a Cleanup that runs at the same time nor by the eviction
\* race of the cache or the expiry of Redis, as long as secureToken never
\* repeats an id; and a process takes with it what it has in memory only.
LosesNoLiveSession ==
  [][\A s \in Sessions :
       LiveIn(items, clock, s) /\ clock' = clock /\ ~LiveIn(items', clock', s) =>
         \/ \E c \in Callers : job[c] = "delete" /\ key[c] = s
         \/ ends' # ends /\ kind \in {"memory", "cache"}]_vars
=============================================================================
