---------------------------- MODULE ServerProofs ----------------------------
(***************************************************************************)
(* For any number of sessions, callers and ends of the process, any life   *)
(* time of a session and any skew of PostgreSQL's clock: New is all or     *)
(* nothing, and whichever session store it has chosen implements the       *)
(* contract that SessionManager relies on.                                 *)
(***************************************************************************)
EXTENDS Server, TLAPS

-----------------------------------------------------------------------------
\* New.

\* The parts of the database are brought into being in their order, on a pool
\* that is open.
PartsInOrder ==
  /\ phase \in Parts => phase \in Needed /\ Postgres /\ pool = "open"
  /\ phase = "connect" => Postgres /\ ~cfg.pool
  /\ phase \in {"seed", "sessions", "keys"} => "internal" \in tables
  /\ phase = "keys" => Needed \ {"keys"} \subseteq tables
  /\ phase \in {"new", "connect"} => pool = Given

WiringInv ==
  /\ cfg \in Configs /\ phase \in Parts \union {"new", "connect", "up", "failed", "closed", "dead"}
  /\ pool \in {"none", "open", "closed"} /\ tables \subseteq Parts
  /\ PartsInOrder
  /\ NewIsAllOrNothing

\* The server is not there yet.
LEMMA WiringInit == ServerInit => WiringInv
<1> SUFFICES ASSUME ServerInit PROVE WiringInv
  OBVIOUS
<1>1. cfg \in Configs /\ phase = "new" /\ pool = Given /\ tables \subseteq Parts
  BY DEF ServerInit
<1> QED
  BY <1>1 DEF WiringInv, PartsInOrder, NewIsAllOrNothing, Given, Own, Parts

\* Every part is followed by the next that is needed.
LEMMA WiringStep ==
  ASSUME WiringInv, [ServerNext]_serverVars PROVE WiringInv'
<1>1. cfg \in Config /\ cfg \in Configs
  BY ConfigsAssumption DEF WiringInv
<1>2. cfg' = cfg
  BY DEF ServerNext, Boot, Refuse, New, Connect, Migrate, Seed, MigrateFails, Serve, Close, Die, Restart,
         Goto, wiring, serverVars
<1>3. Needed' = Needed /\ Own' = Own /\ Postgres' = Postgres /\ Given' = Given /\ Valid' = Valid
  BY <1>2 DEF Needed, TemplateNeeds, LibraryNeeds, Own, Postgres, Given, Valid
<1>4. /\ Needed \subseteq Parts
      /\ Postgres => "internal" \in Needed
      /\ ~Postgres => Needed = {}
      /\ "seed" \in Needed => "sessions" \notin Needed
  BY <1>1 DEF Config, Needed, TemplateNeeds, LibraryNeeds, Postgres, Parts
<1> USE DEF WiringInv, PartsInOrder, NewIsAllOrNothing
<1>5. CASE Refuse
  BY <1>2, <1>3, <1>5 DEF Refuse, Goto, Own, Given, Parts
<1>6. CASE New
  <2>1. UNCHANGED <<pool, tables>> /\ pool = Given
    BY <1>6 DEF New
  <2>2. CASE cfg.store
    <3>1. phase' = "up"
      BY <1>6, <2>2 DEF New, Goto
    <3> QED
      BY <1>2, <1>3, <1>4, <2>1, <2>2, <3>1 DEF Postgres, Given, Parts
  <2>3. CASE ~cfg.store /\ cfg.pool
    <3>1. phase' = "internal"
      BY <1>6, <2>3 DEF New, Goto
    <3> QED
      BY <1>2, <1>3, <1>4, <2>1, <2>3, <3>1 DEF Postgres, Given, Parts
  <2>4. CASE ~cfg.store /\ ~cfg.pool
    <3>1. phase' = "connect"
      BY <1>6, <2>4 DEF New, Goto
    <3> QED
      BY <1>2, <1>3, <1>4, <2>1, <2>4, <3>1 DEF Postgres, Given, Parts
  <2> QED
    BY <2>2, <2>3, <2>4
<1>7. CASE Connect
  BY <1>2, <1>3, <1>4, <1>7 DEF Connect, Goto, Own, Given, Parts
<1>8. ASSUME NEW p \in Parts, phase = p, tables \union {p} \subseteq tables', tables' \subseteq Parts,
             phase' = AfterPart(p), pool' = pool
      PROVE  WiringInv'
  <2>1. p \in Needed /\ Postgres /\ pool = "open" /\ "internal" \in tables'
    BY <1>8 DEF Parts
  <2>2. phase' \in (Needed \intersect {"seed", "sessions", "keys"}) \union {"up"}
    BY <1>8 DEF AfterPart
  <2>3. phase' = "keys" => Needed \ {"keys"} \subseteq tables'
    BY <1>1, <1>4, <1>8, <2>1 DEF AfterPart, Parts
  <2>4. phase' = "up" => Needed \subseteq tables'
    BY <1>1, <1>4, <1>8, <2>1 DEF AfterPart, Parts
  <2> QED
    BY <1>1, <1>2, <1>3, <1>4, <1>8, <2>1, <2>2, <2>3, <2>4 DEF Parts
<1>9. CASE Migrate
  <2>1. phase \in Parts /\ tables' = tables \union {phase} /\ phase' = AfterPart(phase) /\ pool' = pool
    BY <1>9 DEF Migrate, Goto
  <2> QED
    BY <1>8, <2>1
<1>10. CASE Seed
  <2>1. phase = "seed" /\ tables' = tables \union {phase} /\ phase' = AfterPart(phase) /\ pool' = pool
    BY <1>10 DEF Seed, Goto
  <2> QED
    BY <1>8, <2>1 DEF Parts
<1>11. CASE MigrateFails
  BY <1>2, <1>3, <1>11 DEF MigrateFails, Goto, Own, Parts
<1>12. CASE Close
  BY <1>2, <1>3, <1>12 DEF Close, Goto, Own, Parts
<1>13. CASE Die
  BY <1>2, <1>3, <1>13 DEF Die, Goto, Parts
<1>14. CASE Restart
  BY <1>2, <1>3, <1>14 DEF Restart, Goto, Given, Own, Parts
<1>15. CASE UNCHANGED wiring
  BY <1>1, <1>2, <1>3, <1>15 DEF wiring
<1> QED
  BY <1>5, <1>6, <1>7, <1>9, <1>10, <1>11, <1>12, <1>13, <1>14, <1>15
     DEF ServerNext, Boot, Serve, serverVars

\* A server that is up has its pool and all tables it needs, one that is not
\* keeps no connection of its own, and a pool that was given stays the caller's
\* (NewAdminServer and Close of server.go, New of the template).
THEOREM AllOrNothing == ServerSpec => []NewIsAllOrNothing
<1>1. WiringInv => NewIsAllOrNothing
  BY DEF WiringInv
<1> QED
  BY WiringInit, WiringStep, <1>1, PTL DEF ServerSpec

-----------------------------------------------------------------------------
\* The session stores, under SessionStores as under Server.

SessionStep ==
  /\ \/ \E c \in Callers : Operation(c)
     \/ Cleanup \/ TimePasses \/ ProcessEnds
     \/ UNCHANGED <<cacheVars, calls, stored>>
  /\ kind' = kind
  /\ WatchSessions

\* Whatever the server does, its store takes a step of its own or none.
LEMMA ServerStepsStore == [ServerNext]_serverVars => SessionStep \/ UNCHANGED vars
  BY DEF ServerNext, Boot, Serve, Close, Die, Restart, SessionStep, serverVars

LEMMA StoreStepsStore == [Next]_vars => SessionStep \/ UNCHANGED vars
  BY DEF Next, SessionStep

\* An id has been given out, and nothing has been stored under it yet.
WillStore(c) == job[c] = "create" /\ reply[c] = "none" /\ step[c] \in {"idle", "store"}

\* An item never expires before its session.
Outlasts(item) == item.expiresAt # Forever => item.value <= item.expiresAt

Running(c) == Asked(c) # None /\ GetReply(c) = "none"

\* The session of c was read with the expiry v.
Remembered(c, v) ==
  /\ kind # "postgres" /\ key[c] \in stored
  /\ items[key[c]] = Missing \/ items[key[c]].value = v
  /\ clock <= v => "live" \in seen[c]

\* The session of c has ended, for good.
Ended(c) == key[c] \in stored /\ ~LiveIn(items, clock, key[c]) /\ "absent" \in seen[c]

\* Where a call is, and what it has read.
CallOK(c) ==
  /\ job[c] = "none" => step[c] = "idle" /\ reply[c] = "none"
  /\ job[c] # "none" => key[c] \in Sessions
  /\ step[c] \in {"look", "judge", "evict"} => job[c] = "get"
  /\ step[c] = "drop" => job[c] \in {"delete", "expire"}
  /\ job[c] = "create" /\ kind # "cache" => step[c] \in {"idle", "dead"}
  /\ kind = "cache" /\ reply[c] # "none" => step[c] = "returned"
  /\ step[c] = "store" => job[c] = "create" /\ reply[c] = "none" /\ held[c] # Missing /\ Outlasts(held[c])
  /\ expires[c] <= clock + TTL
  /\ WillStore(c) => key[c] \in tokens /\ key[c] \notin stored

GetOK(c) ==
  /\ Asked(c) = None => seen[c] = {}
  /\ Running(c) => Abstract!Status(States[key[c]]) \in seen[c]
  /\ step[c] = "judge" => IF held[c] = Missing THEN "absent" \in seen[c]
                          ELSE Outlasts(held[c]) /\ Remembered(c, held[c].value)
  /\ step[c] = "evict" \/ job[c] = "expire" => Ended(c)
  /\ step[c] = "returned" /\ job[c] = "get" =>
       IF result[c] = Missing THEN "absent" \in seen[c] ELSE Remembered(c, result[c])

\* No id is given out twice.
CreatorsDiffer ==
  \A c, d \in Callers : WillStore(c) /\ WillStore(d) /\ key[c] = key[d] => c = d

StoreTypes ==
  /\ TypeOK
  /\ seen \in [Callers -> SUBSET {"live", "absent"}]
  /\ Behind <= clock /\ clock - Behind <= MaxClock
  /\ \A s \in Sessions : items[s] # Missing => s \in stored /\ Outlasts(items[s])

StoreInv ==
  /\ StoreTypes
  /\ \A c \in Callers : CallOK(c) /\ GetOK(c)
  /\ CreatorsDiffer

USE SessionsAssumption, MissingAssumption

\* The store is empty and nobody has called it.
LEMMA StoreStart == Init => StoreInv
<1> SUFFICES ASSUME Init PROVE StoreInv
  OBVIOUS
<1>1. kind \in Kinds /\ clock = Behind /\ Behind \in Nat /\ items = [s \in Sessions |-> Missing]
  BY DEF Init, CacheInit, Behind
<1>2. 0 \in Values
  OBVIOUS
<1>3. StoreTypes
  BY <1>1, <1>2 DEF Init, CacheInit, StoreTypes, TypeOK, CacheTypeOK
<1>4. ASSUME NEW c \in Callers PROVE CallOK(c) /\ GetOK(c)
  <2>1. /\ job[c] = "none" /\ reply[c] = "none" /\ step[c] = "idle" /\ expires[c] = 0 /\ seen[c] = {}
    BY DEF Init, CacheInit
  <2> QED
    BY <1>1, <2>1 DEF CallOK, GetOK, WillStore, Asked, Running
<1>5. CreatorsDiffer
  BY DEF Init, CreatorsDiffer, WillStore
<1> QED
  BY <1>3, <1>4, <1>5 DEF StoreInv

-----------------------------------------------------------------------------
\* What a step leaves alone.

CallOf(c) == <<step[c], key[c], held[c], result[c], job[c], reply[c], expires[c]>>

\* Answering is the end of a call.
Answers(c) ==
  \/ CreateRow(c) \/ GetRow(c) \/ DeleteRow(c) \/ Fail(c)
  \/ CallDone(c) \/ GetFound(c) \/ GetMissing(c)

\* An operation is about its own caller.
LEMMA OperationFrame ==
  ASSUME StoreTypes, NEW c \in Callers, Operation(c)
  PROVE  /\ UNCHANGED <<clock, ends>> /\ tokens \subseteq tokens'
         /\ \A d \in Callers \ {c} : CallOf(d)' = CallOf(d)
<1> USE DEF StoreTypes, TypeOK, CacheTypeOK, CallOf, calls
<1>1. CASE Create(c)
  BY <1>1 DEF Create, Begin
<1>2. CASE BeginGet(c)
  BY <1>2 DEF BeginGet, Begin, Get, Call
<1>3. CASE BeginDelete(c)
  BY <1>3 DEF BeginDelete, Begin, Delete, Call
<1>4. CASE Answers(c)
  BY <1>4 DEF Answers, CreateRow, GetRow, DeleteRow, Fail, CallDone, GetFound, GetMissing, Answer
<1>5. CASE CreateSet(c)
  BY <1>5 DEF CreateSet, Set, Call
<1>6. CASE InCache(c)
  BY <1>6 DEF InCache, CacheStep, Look, Judge, Evict, Store, Drop, Remove, Return
<1>7. CASE RedisGet(c) \/ RedisDel(c)
  BY <1>7 DEF RedisGet, RedisDel, Return
<1>8. CASE GetExpired(c)
  BY <1>8 DEF GetExpired
<1> QED
  BY <1>1, <1>2, <1>3, <1>4, <1>5, <1>6, <1>7, <1>8 DEF Operation, Answers

\* What an operation does to the store: nothing, or it erases the session of a
\* delete or one that has ended, or it fills a place that was always empty.
Erases(c) ==
  /\ job[c] = "delete" \/ Ended(c)
  /\ items' = [items EXCEPT ![key[c]] = Missing] /\ stored' = stored

Fills(c) ==
  /\ WillStore(c) /\ ~WillStore(c)'
  /\ \E x \in Item : Outlasts(x) /\ items' = [items EXCEPT ![key[c]] = x]
  /\ stored' = stored \union {key[c]}

LEMMA PutFills ==
  ASSUME StoreInv, NEW c \in Callers, WillStore(c), Put(c), reply'[c] # "none"
  PROVE  Fills(c)
<1>1. expires[c] \in Values /\ expires[c] \in Nat /\ expires[c] <= clock + TTL /\ clock \in Nat
  BY DEF StoreInv, StoreTypes, TypeOK, CacheTypeOK, CallOK
<1> DEFINE x == [value |-> expires[c], expiresAt |-> IF kind = "redis" THEN clock + TTL ELSE Forever]
<1>2. x \in Item
  BY <1>1 DEF Item
<1>3. Outlasts(x)
  BY <1>1 DEF Outlasts
<1> QED
  BY <1>2, <1>3 DEF Put, Fills, WillStore

LEMMA OperationItems ==
  ASSUME StoreInv, NEW c \in Callers, Operation(c)
  PROVE  \/ items' = items /\ stored' = stored
         \/ Erases(c)
         \/ Fills(c)
<1>1. StoreTypes /\ CallOK(c) /\ GetOK(c)
  BY DEF StoreInv
<1>2. CASE Create(c) \/ BeginGet(c) \/ BeginDelete(c) \/ GetRow(c) \/ CreateSet(c) \/ RedisGet(c)
           \/ CallDone(c) \/ GetFound(c) \/ GetMissing(c) \/ GetExpired(c)
  BY <1>2 DEF Create, BeginGet, Get, Call, BeginDelete, Delete, GetRow, CreateSet, Set, RedisGet, CallDone,
              GetFound, GetMissing, GetExpired
<1>3. CASE CreateRow(c)
  <2>1. WillStore(c) /\ Put(c) /\ reply'[c] = "ok"
    BY <1>1, <1>3 DEF CreateRow, Pending, Answer, CallOK, WillStore, StoreTypes, TypeOK
  <2> QED
    BY <2>1, PutFills
<1>4. CASE DeleteRow(c)
  BY <1>4 DEF DeleteRow, Pending, Take, Erases
<1>5. CASE Fail(c)
  <2>1. CASE job[c] = "create" /\ Put(c)
    <3>1. WillStore(c) /\ reply'[c] = "error"
      BY <1>1, <1>5, <2>1 DEF Fail, Answer, CallOK, WillStore, StoreTypes, TypeOK
    <3> QED
      BY <2>1, <3>1, PutFills
  <2>2. CASE job[c] = "delete" /\ Take(c)
    BY <2>2 DEF Take, Erases
  <2> QED
    BY <1>5, <2>1, <2>2 DEF Fail
<1>6. CASE RedisDel(c)
  <2>1. job[c] = "delete" \/ Ended(c)
    BY <1>1, <1>6 DEF RedisDel, CallOK, GetOK
  <2> QED
    BY <1>6, <2>1 DEF RedisDel, Erases
<1>7. CASE InCache(c)
  <2>1. stored' = stored \union {s \in Sessions : items'[s] # Missing}
    BY <1>7 DEF InCache
  <2>2. /\ {s \in Sessions : items[s] # Missing} \subseteq stored
        /\ items \in [Sessions -> Item \union {Missing}]
    BY <1>1 DEF StoreTypes, TypeOK, CacheTypeOK
  <2>3. CASE Look(c) \/ Judge(c)
    <3>1. items' = items
      BY <2>3 DEF Look, Judge
    <3> QED
      BY <2>1, <2>2, <3>1
  <2>4. CASE Evict(c) \/ Drop(c)
    <3>1. items' = [items EXCEPT ![key[c]] = Missing]
      BY <2>4 DEF Evict, Drop, Remove
    <3>2. stored' = stored
      BY <2>1, <2>2, <3>1
    <3>3. job[c] = "delete" \/ Ended(c)
      BY <1>1, <2>4 DEF Evict, Drop, CallOK, GetOK
    <3> QED
      BY <3>1, <3>2, <3>3 DEF Erases
  <2>5. CASE Store(c)
    <3>1. items' = [items EXCEPT ![key[c]] = held[c]] /\ step'[c] = "returned" /\ step[c] = "store"
      BY <1>1, <2>5 DEF Store, Return, StoreTypes, TypeOK, CacheTypeOK
    <3>2. held[c] \in Item /\ Outlasts(held[c]) /\ WillStore(c) /\ key[c] \in Sessions
      BY <1>1, <3>1 DEF StoreTypes, TypeOK, CacheTypeOK, CallOK, WillStore
    <3>3. held[c] # Missing
      BY <3>2
    <3>4. stored' = stored \union {key[c]}
      BY <2>1, <2>2, <3>1, <3>2, <3>3
    <3> QED
      BY <3>1, <3>2, <3>4 DEF Fills, WillStore
  <2> QED
    BY <1>7, <2>3, <2>4, <2>5 DEF InCache, CacheStep
<1> QED
  BY <1>2, <1>3, <1>4, <1>5, <1>6, <1>7 DEF Operation

\* What any step does to the store and to time.
LEMMA StepItems ==
  ASSUME StoreInv, SessionStep
  PROVE  /\ kind' = kind /\ clock \in Nat /\ clock' \in Nat /\ clock <= clock'
         /\ items' \in [Sessions -> Item \union {Missing}]
         /\ stored \subseteq stored' /\ tokens \subseteq tokens'
         /\ \A s \in Sessions :
              \/ items'[s] = items[s]
              \/ items'[s] = Missing
              \/ s \notin stored /\ s \in tokens /\ s \in stored' /\ Outlasts(items'[s])
         /\ \A s \in stored' \ stored : s \in tokens
<1>1. StoreTypes /\ clock \in Nat /\ items \in [Sessions -> Item \union {Missing}] /\ kind' = kind
  BY DEF StoreInv, StoreTypes, TypeOK, CacheTypeOK, SessionStep
<1>2. CASE \E c \in Callers : Operation(c)
  <2>1. PICK c \in Callers : Operation(c)
    BY <1>2
  <2>2. clock' = clock /\ tokens \subseteq tokens'
    BY <1>1, <2>1, OperationFrame
  <2>3. CASE items' = items /\ stored' = stored
    BY <1>1, <2>2, <2>3
  <2>4. CASE Erases(c)
    <3>1. items' = [items EXCEPT ![key[c]] = Missing] /\ stored' = stored
      BY <2>4 DEF Erases
    <3>2. items' \in [Sessions -> Item \union {Missing}]
      BY <1>1, <3>1
    <3> QED
      BY <1>1, <2>2, <3>1, <3>2
  <2>5. CASE Fills(c)
    <3>1. key[c] \in Sessions /\ key[c] \in tokens /\ key[c] \notin stored
      BY <2>5 DEF Fills, StoreInv, CallOK, WillStore
    <3> QED
      BY <1>1, <2>2, <2>5, <3>1 DEF Fills
  <2> QED
    BY <2>1, <2>3, <2>4, <2>5, OperationItems
<1>3. CASE Cleanup
  BY <1>1, <1>3 DEF Cleanup, CleanupOf, calls
<1>4. CASE TimePasses
  BY <1>1, <1>4 DEF TimePasses, Tick, calls
<1>5. CASE ProcessEnds
  BY <1>1, <1>5 DEF ProcessEnds
<1>6. CASE UNCHANGED <<cacheVars, calls, stored>>
  BY <1>1, <1>6 DEF cacheVars, calls
<1> QED
  BY <1>2, <1>3, <1>4, <1>5, <1>6 DEF SessionStep

\* A session is new, then live, then gone: its item is never replaced.
LEMMA SessionsMove ==
  ASSUME StoreInv, SessionStep, NEW s \in Sessions
  PROVE  /\ \/ States'[s] \in {States[s], "gone"}
            \/ States[s] = "new" /\ States'[s] = "live"
         /\ s \in stored /\ LiveIn(items, clock, s)' => LiveIn(items, clock, s)
<1>1. /\ kind' = kind /\ clock \in Nat /\ clock' \in Nat /\ clock <= clock'
      /\ stored \subseteq stored'
      /\ \/ items'[s] = items[s]
         \/ items'[s] = Missing
         \/ s \notin stored /\ s \in stored'
  BY StepItems
<1>2. items[s] # Missing => s \in stored /\ items[s].value \in Nat
  BY DEF StoreInv, StoreTypes, TypeOK, CacheTypeOK, Item
<1>3. s \in stored /\ LiveIn(items, clock, s)' => LiveIn(items, clock, s)
  BY <1>1, <1>2 DEF LiveIn, ValidAt
<1>4. LiveIn(items, clock, s) => s \in stored
  BY <1>2 DEF LiveIn
<1> QED
  BY <1>1, <1>3, <1>4 DEF States, StatesIn, LiveIn, ValidAt

\* What the session of a Get is before and after a step, the Get has seen.
LEMMA Watched ==
  ASSUME StoreTypes, SessionStep, NEW d \in Callers
  PROVE  /\ seen[d] \subseteq seen'[d] /\ seen'[d] \subseteq {"live", "absent"}
         /\ Asked(d)' = None => seen'[d] = seen[d]
         /\ Asked(d)' # None /\ GetReply(d) = "none" =>
              {Abstract!Status(States[Asked(d)']), Abstract!Status(States'[Asked(d)'])} \subseteq seen'[d]
  BY DEF SessionStep, WatchSessions, StoreTypes, Abstract!Status

LEMMA StepTypes == ASSUME StoreInv, SessionStep PROVE StoreTypes'
<1>1. /\ StoreTypes /\ \A c \in Callers : CallOK(c)
      /\ kind' = kind /\ Behind' = Behind
      /\ items' \in [Sessions -> Item \union {Missing}]
      /\ stored \subseteq stored' /\ stored' \subseteq tokens \union stored /\ tokens \subseteq tokens'
  BY StepItems DEF StoreInv, Behind
<1>2. \A s \in Sessions : items'[s] # Missing => s \in stored' /\ Outlasts(items'[s])
  BY <1>1, StepItems DEF StoreTypes
<1>3. seen' \in [Callers -> SUBSET {"live", "absent"}]
  BY <1>1, Watched DEF SessionStep, WatchSessions
<1>4. stored' \subseteq tokens'
  BY <1>1 DEF StoreTypes, TypeOK
<1> USE DEF StoreTypes, TypeOK, CacheTypeOK
<1>5. ASSUME NEW c \in Callers, Operation(c) PROVE TypeOK' /\ clock' = clock
  <2>1. clock' = clock
    BY <1>1, <1>5, OperationFrame
  <2> USE <1>1, <1>4, <2>1 DEF calls
  <2>2. CASE Create(c)
    <3>1. clock - Behind + TTL \in Values
      BY DEF Behind
    <3> QED
      BY <2>2, <3>1 DEF Create, Begin
  <2>3. CASE BeginGet(c)
    <3>1. /\ \E s \in Sessions : key' = [key EXCEPT ![c] = s]
          /\ step' \in {step, [step EXCEPT ![c] = "look"]} /\ job' = [job EXCEPT ![c] = "get"]
          /\ UNCHANGED <<held, result, reply, expires, tokens, ends>>
      BY <2>3 DEF BeginGet, Begin, Get, Call
    <3> QED
      BY <3>1
  <2>4. CASE BeginDelete(c)
    <3>1. /\ \E s \in Sessions : key' = [key EXCEPT ![c] = s]
          /\ step' \in {step, [step EXCEPT ![c] = "drop"]} /\ job' = [job EXCEPT ![c] = "delete"]
          /\ UNCHANGED <<held, result, reply, expires, tokens, ends>>
      BY <2>4 DEF BeginDelete, Begin, Delete, Call
    <3> QED
      BY <3>1
  <2>5. CASE Answers(c)
    <3>1. \E x \in {"ok", "found", "missing", "error"} : Answer(c, x)
      BY <2>5 DEF Answers, CreateRow, GetRow, DeleteRow, Fail, CallDone, GetFound, GetMissing
    <3> QED
      BY <3>1 DEF Answer
  <2>6. CASE CreateSet(c)
    <3>1. [value |-> expires[c], expiresAt |-> IF TTL > 0 THEN clock + TTL ELSE Forever] \in Item
      BY DEF Item
    <3>2. key[c] \in Keys
      BY <2>6 DEF CreateSet, CallOK
    <3> QED
      BY <2>6, <3>1, <3>2 DEF CreateSet, Set, Call
  <2>7. CASE InCache(c)
    <3>1. step[c] = "look" => key[c] \in Sessions
      BY DEF CallOK
    <3>2. held[c] # Missing => held[c].value \in Values
      BY DEF Item
    <3>3. CASE Look(c)
      BY <2>7, <3>1, <3>3 DEF InCache, Look
    <3>4. CASE Judge(c)
      BY <2>7, <3>2, <3>4 DEF InCache, Judge, Return
    <3>5. CASE Evict(c) \/ Store(c) \/ Drop(c)
      BY <2>7, <3>5 DEF InCache, Evict, Store, Drop, Remove, Return
    <3> QED
      BY <2>7, <3>3, <3>4, <3>5 DEF InCache, CacheStep
  <2>8. CASE RedisGet(c)
    <3>1. key[c] \in Sessions
      BY <2>8 DEF RedisGet, CallOK
    <3>2. items[key[c]] # Missing => items[key[c]].value \in Values
      BY <3>1 DEF Item
    <3> QED
      BY <2>8, <3>1, <3>2 DEF RedisGet, Return
  <2>9. CASE RedisDel(c)
    BY <2>9 DEF RedisDel, Return
  <2>10. CASE GetExpired(c)
    BY <2>10 DEF GetExpired
  <2> QED
    BY <1>5, <2>2, <2>3, <2>4, <2>5, <2>6, <2>7, <2>8, <2>9, <2>10 DEF Operation, Answers
<1>6. CASE Cleanup \/ UNCHANGED <<cacheVars, calls, stored>>
  <2>1. UNCHANGED <<clock, step, key, held, result, calls, stored>>
    BY <1>6 DEF Cleanup, CleanupOf, cacheVars
  <2> QED
    BY <1>1, <1>2, <1>3, <1>4, <2>1 DEF calls
<1>7. CASE TimePasses
  BY <1>1, <1>2, <1>3, <1>4, <1>7 DEF TimePasses, Tick, calls, Behind
<1>8. CASE ProcessEnds
  BY <1>1, <1>2, <1>3, <1>4, <1>8 DEF ProcessEnds
<1> QED
  BY <1>1, <1>2, <1>3, <1>5, <1>6, <1>7, <1>8 DEF SessionStep

\* What a Get has read remains true: sessions do not come back, items do not
\* change.
LEMMA Persist ==
  ASSUME StoreInv, SessionStep, NEW d \in Callers, key'[d] = key[d]
  PROVE  /\ Ended(d) => Ended(d)'
         /\ \A v \in Nat : Remembered(d, v) => Remembered(d, v)'
<1>1. StoreTypes /\ stored \subseteq Sessions
  BY DEF StoreInv, StoreTypes, TypeOK
<1>2. seen[d] \subseteq seen'[d]
  BY <1>1, Watched
<1>3. ASSUME Ended(d) PROVE Ended(d)'
  <2>1. key[d] \in stored /\ key[d] \in Sessions
    BY <1>1, <1>3 DEF Ended
  <2>2. LiveIn(items, clock, key[d])' => LiveIn(items, clock, key[d])
    BY <2>1, SessionsMove
  <2> QED
    BY <1>2, <1>3, <2>1, <2>2, StepItems DEF Ended
<1>4. ASSUME NEW v \in Nat, Remembered(d, v) PROVE Remembered(d, v)'
  BY <1>1, <1>2, <1>4, StepItems DEF Remembered
<1> QED
  BY <1>3, <1>4

\* A call that does not move keeps what it has.
LEMMA KeptGet ==
  ASSUME StoreInv, SessionStep, NEW d \in Callers,
         UNCHANGED <<key[d], held[d], result[d], job[d]>>, step'[d] \in {step[d], "dead"},
         reply'[d] = "none" => reply[d] = "none"
  PROVE  GetOK(d)'
<1>1. StoreTypes /\ CallOK(d) /\ GetOK(d)
  BY DEF StoreInv
<1>2. Asked(d)' = Asked(d) /\ (Running(d)' => Running(d))
  BY DEF Asked, Running, GetReply
<1>3. Running(d) => Asked(d) = key[d]
  BY DEF Running, Asked
<1>4. held[d] # Missing => held[d].value \in Nat
  BY <1>1 DEF StoreTypes, TypeOK, CacheTypeOK, Item
<1>5. result[d] # Missing => result[d] \in Nat
  BY <1>1 DEF StoreTypes, TypeOK, CacheTypeOK
<1>6. /\ Asked(d)' = None => seen'[d] = {}
      /\ Running(d)' => Abstract!Status(States'[key[d]]) \in seen'[d]
      /\ seen[d] \subseteq seen'[d]
  BY <1>1, <1>2, <1>3, Watched DEF GetOK, Running
<1> QED
  BY <1>1, <1>4, <1>5, <1>6, Persist DEF GetOK

LEMMA KeptCall ==
  ASSUME StoreInv, SessionStep, NEW d \in Callers,
         UNCHANGED <<key[d], held[d], job[d], reply[d], expires[d]>>,
         step'[d] = step[d] \/ (step'[d] = "dead" /\ job[d] # "none" /\ reply[d] = "none"),
         WillStore(d) => key[d] \notin stored'
  PROVE  CallOK(d)'
<1>1. CallOK(d) /\ expires[d] \in Nat
  BY DEF StoreInv, StoreTypes, TypeOK
<1> QED
  BY <1>1, StepItems DEF CallOK, WillStore, Outlasts

-----------------------------------------------------------------------------
\* The caller of an operation.

\* What a Get sees of its session when it begins and as long as it runs.
LEMMA Seeing ==
  ASSUME StoreTypes, SessionStep, NEW c \in Callers, GetOK(c),
         Asked(c)' = None => Asked(c) = None, GetReply(c)' = "none" => GetReply(c) = "none",
         Asked(c)' # None => Asked(c)' = key'[c]
  PROVE  /\ Asked(c)' = None => seen'[c] = {}
         /\ Running(c)' => Abstract!Status(States'[key'[c]]) \in seen'[c]
  BY Watched DEF GetOK, Running

\* A Get has seen whether its session is live.
LEMMA LooksRight ==
  ASSUME StoreTypes, SessionStep, NEW c \in Callers, GetOK(c), Running(c), key[c] \in Sessions
  PROVE  IF LiveIn(items, clock, key[c]) THEN "live" \in seen'[c] ELSE "absent" \in seen'[c]
  BY Watched DEF GetOK, Running, States, StatesIn, Abstract!Status

LEMMA AnswersOnce ==
  ASSUME StoreInv, NEW c \in Callers, Answers(c)
  PROVE  /\ \E x \in {"ok", "found", "missing", "error"} : Answer(c, x)
         /\ UNCHANGED <<step[c], key[c], held[c], result[c], job[c], expires[c]>>
         /\ job[c] # "none" /\ reply[c] = "none" /\ reply'[c] # "none"
         /\ step[c] # "store" /\ (kind = "cache" => step[c] = "returned")
<1>1. StoreTypes /\ CallOK(c)
  BY DEF StoreInv
<1>2. \E x \in {"ok", "found", "missing", "error"} : Answer(c, x)
  BY DEF Answers, CreateRow, GetRow, DeleteRow, Fail, CallDone, GetFound, GetMissing
<1>3. job[c] # "none" /\ reply[c] = "none" /\ step[c] # "store" /\ (kind = "cache" => step[c] = "returned")
  BY <1>1 DEF Answers, CreateRow, GetRow, DeleteRow, Fail, CallDone, GetFound, GetMissing, Pending, Returned,
              CallOK
<1> QED
  BY <1>1, <1>2, <1>3 DEF Answer, StoreTypes, TypeOK

LEMMA ActingCall ==
  ASSUME StoreInv, SessionStep, NEW c \in Callers, Operation(c)
  PROVE  CallOK(c)'
<1>1. /\ StoreTypes /\ CallOK(c)
      /\ kind' = kind /\ clock' = clock /\ clock \in Nat /\ expires[c] \in Nat
  BY StepItems, OperationFrame DEF StoreInv, StoreTypes, TypeOK
<1> USE <1>1 DEF StoreTypes, TypeOK, CacheTypeOK, CallOK, WillStore
<1>2. CASE Create(c)
  <2>1. /\ job[c] = "none" /\ step[c] = "idle" /\ reply[c] = "none"
        /\ job'[c] = "create" /\ UNCHANGED <<step[c], reply[c], stored>>
        /\ key'[c] \in Sessions /\ key'[c] \notin stored /\ key'[c] \in tokens'
        /\ expires'[c] = clock - Behind + TTL
    BY <1>2 DEF Create, Begin
  <2>2. expires'[c] <= clock + TTL
    BY <2>1 DEF Behind
  <2> QED
    BY <2>1, <2>2
<1>3. CASE BeginGet(c)
  <2>1. /\ job[c] = "none" /\ step[c] = "idle" /\ reply[c] = "none"
        /\ job'[c] = "get" /\ UNCHANGED <<reply[c], expires[c]>> /\ key'[c] \in Sessions
        /\ step'[c] \in {"idle", "look"}
    BY <1>3 DEF BeginGet, Begin, Get, Call
  <2> QED
    BY <2>1
<1>4. CASE BeginDelete(c)
  <2>1. /\ job[c] = "none" /\ step[c] = "idle" /\ reply[c] = "none"
        /\ job'[c] = "delete" /\ UNCHANGED <<reply[c], expires[c]>> /\ key'[c] \in Sessions
        /\ step'[c] \in {"idle", "drop"}
    BY <1>4 DEF BeginDelete, Begin, Delete, Call
  <2> QED
    BY <2>1
<1>5. CASE Answers(c)
  BY <1>5, AnswersOnce
<1>6. CASE CreateSet(c)
  <2>1. /\ job[c] = "create" /\ step[c] = "idle" /\ kind = "cache" /\ step'[c] = "store"
        /\ UNCHANGED <<key[c], job[c], reply[c], expires[c], stored, tokens>>
        /\ held'[c] = [value |-> expires[c], expiresAt |-> clock + TTL]
    BY <1>6 DEF CreateSet, Set, Call, calls
  <2>2. reply[c] = "none" /\ expires[c] <= clock + TTL
    BY <2>1
  <2>3. held'[c] # Missing /\ Outlasts(held'[c])
    BY <2>1, <2>2 DEF Item, Outlasts
  <2> QED
    BY <2>1, <2>2, <2>3
<1>7. CASE InCache(c)
  <2>1. step[c] \in {"look", "judge", "evict", "store", "drop"} /\ kind = "cache"
        /\ UNCHANGED <<key[c], job[c], reply[c], expires[c]>>
    BY <1>7 DEF InCache, CacheStep, Look, Judge, Evict, Store, Drop, Remove, calls
  <2>2. \/ step[c] = "look" /\ step'[c] = "judge"
        \/ step[c] = "judge" /\ step'[c] \in {"evict", "returned"}
        \/ step'[c] = "returned"
    BY <1>7 DEF InCache, CacheStep, Look, Judge, Evict, Store, Drop, Remove, Return
  <2> QED
    BY <2>1, <2>2
<1>8. CASE RedisGet(c) \/ RedisDel(c)
  <2>1. /\ step[c] \in {"look", "drop"} /\ step'[c] = "returned"
        /\ UNCHANGED <<key[c], job[c], reply[c], expires[c]>>
    BY <1>8 DEF RedisGet, RedisDel, Return, calls
  <2> QED
    BY <2>1
<1>9. CASE GetExpired(c)
  <2>1. /\ job[c] = "get" /\ job'[c] = "expire" /\ step'[c] = "drop" /\ reply[c] = "none"
        /\ UNCHANGED <<key[c], reply[c], expires[c]>>
    BY <1>9 DEF GetExpired, Returned, Pending
  <2> QED
    BY <2>1
<1> QED
  BY <1>2, <1>3, <1>4, <1>5, <1>6, <1>7, <1>8, <1>9 DEF Operation, Answers

LEMMA ActingGet ==
  ASSUME StoreInv, SessionStep, NEW c \in Callers, Operation(c)
  PROVE  GetOK(c)'
<1>1. /\ StoreTypes /\ CallOK(c) /\ GetOK(c)
      /\ kind' = kind /\ clock' = clock /\ clock \in Nat
      /\ seen[c] \subseteq seen'[c]
      /\ \A s \in Sessions : items[s] # Missing => s \in stored /\ Outlasts(items[s]) /\ items[s] \in Item
  BY StepItems, OperationFrame, Watched DEF StoreInv, StoreTypes, TypeOK, CacheTypeOK
<1> USE <1>1 DEF StoreTypes, TypeOK, CacheTypeOK
<1>2. ASSUME job[c] = "none", job'[c] # "none", key'[c] \in Sessions, reply'[c] = reply[c],
             step'[c] \in {"idle", "look", "drop"}, job'[c] # "expire"
      PROVE  GetOK(c)'
  <2>1. Asked(c) = None /\ GetReply(c) = "none" /\ (Asked(c)' # None => Asked(c)' = key'[c])
    BY <1>2 DEF Asked, GetReply
  <2> QED
    BY <1>2, <2>1, Seeing DEF GetOK
<1>3. CASE Create(c)
  <2>1. job[c] = "none" /\ step[c] = "idle" /\ job'[c] = "create" /\ UNCHANGED <<step[c], reply[c]>>
        /\ key'[c] \in Sessions
    BY <1>3 DEF Create, Begin, CallOK
  <2> QED
    BY <1>2, <2>1
<1>4. CASE BeginGet(c)
  <2>1. job[c] = "none" /\ job'[c] = "get" /\ UNCHANGED reply[c] /\ key'[c] \in Sessions
        /\ step'[c] \in {"idle", "look"}
    BY <1>4 DEF BeginGet, Begin, Get, Call, CallOK
  <2> QED
    BY <1>2, <2>1
<1>5. CASE BeginDelete(c)
  <2>1. job[c] = "none" /\ job'[c] = "delete" /\ UNCHANGED reply[c] /\ key'[c] \in Sessions
        /\ step'[c] \in {"idle", "drop"}
    BY <1>5 DEF BeginDelete, Begin, Delete, Call, CallOK
  <2> QED
    BY <1>2, <2>1
<1>6. CASE Answers(c)
  BY <1>6, AnswersOnce, KeptGet
\* A call that goes on, about the same key.
<1>7. ASSUME job[c] # "none", UNCHANGED <<key[c], reply[c]>>,
             job'[c] = job[c] \/ (job[c] = "get" /\ job'[c] = "expire")
      PROVE  /\ Asked(c)' = None => seen'[c] = {}
             /\ Running(c)' => Abstract!Status(States'[key'[c]]) \in seen'[c]
  <2>1. Asked(c)' = Asked(c) /\ GetReply(c)' = GetReply(c) /\ (Asked(c)' # None => Asked(c)' = key'[c])
    BY <1>7 DEF Asked, GetReply
  <2> QED
    BY <1>7, <2>1, Seeing
<1>8. CASE CreateSet(c)
  <2>1. job[c] = "create" /\ UNCHANGED <<key[c], reply[c], job[c]>> /\ step'[c] = "store"
    BY <1>8 DEF CreateSet, Set, Call, calls
  <2> QED
    BY <1>7, <2>1 DEF GetOK
\* What a Get of the cache or of Redis learns of its session.
<1>9. ASSUME job[c] = "get", reply[c] = "none", kind # "postgres"
      PROVE  /\ key[c] \in Sessions
             /\ IF LiveIn(items, clock, key[c]) THEN "live" \in seen'[c] ELSE "absent" \in seen'[c]
             /\ ~LiveIn(items, clock, key[c]) => "absent" \in seen[c]
             /\ LiveIn(items, clock, key[c]) => "live" \in seen[c]
  <2>1. Running(c) /\ key[c] \in Sessions
    BY <1>9 DEF CallOK, Running, Asked, GetReply
  <2> QED
    BY <2>1, LooksRight DEF GetOK, States, StatesIn, Abstract!Status
<1>10. ASSUME job[c] = "get", reply[c] = "none", kind # "postgres", items[key[c]] # Missing
       PROVE  Remembered(c, items[key[c]].value) /\ items[key[c]].value \in Nat
  <2>1. items[key[c]].value \in Nat /\ key[c] \in stored
    BY <1>9, <1>10 DEF Item
  <2>2. clock <= items[key[c]].value => LiveIn(items, clock, key[c])
    BY <1>10 DEF LiveIn, ValidAt
  <2> QED
    BY <1>9, <1>10, <2>1, <2>2 DEF Remembered
<1>11. CASE InCache(c) /\ Look(c)
  <2>1. /\ job[c] = "get" /\ reply[c] = "none" /\ kind = "cache" /\ step'[c] = "judge"
        /\ UNCHANGED <<key[c], reply[c], job[c]>> /\ held'[c] = items[key[c]]
    BY <1>11 DEF InCache, Look, calls, CallOK
  <2>2. /\ key[c] \in Sessions
        /\ held'[c] = Missing => "absent" \in seen'[c]
    BY <1>9, <2>1 DEF LiveIn
  <2>3. ASSUME held'[c] # Missing PROVE (Outlasts(held[c]) /\ Remembered(c, held[c].value))'
    <3>1. PICK v \in Nat : v = items[key[c]].value
      BY <1>10, <2>1, <2>3
    <3>2. Remembered(c, v)'
      BY <1>10, <2>1, <2>3, <3>1, Persist
    <3>3. Outlasts(held'[c])
      BY <2>1, <2>2, <2>3
    <3> QED
      BY <2>1, <3>1, <3>2, <3>3 DEF Outlasts, Remembered
  <2> QED
    BY <1>7, <2>1, <2>2, <2>3 DEF GetOK
<1>12. CASE InCache(c) /\ Judge(c)
  <2>1. /\ job[c] = "get" /\ reply[c] = "none" /\ kind = "cache" /\ step[c] = "judge"
        /\ UNCHANGED <<key[c], reply[c], job[c], held[c]>>
    BY <1>12 DEF InCache, Judge, calls, CallOK
  <2>2. CASE held[c] = Missing
    <3>1. step'[c] = "returned" /\ result'[c] = Missing /\ "absent" \in seen'[c]
      BY <1>12, <2>1, <2>2 DEF Judge, Return, GetOK
    <3> QED
      BY <1>7, <2>1, <3>1 DEF GetOK
  <2>3. CASE held[c] # Missing
    <3>1. Outlasts(held[c]) /\ Remembered(c, held[c].value) /\ held[c].value \in Nat /\ held[c] \in Item
      BY <2>1, <2>3 DEF GetOK, Item
    <3>2. held[c].value # Missing
      BY <3>1 DEF Item
    <3>3. CASE Expired(held[c], clock)
      <4>1. step'[c] = "evict"
        BY <1>12, <2>3, <3>3 DEF Judge
      <4>2. clock > held[c].value
        BY <3>1, <3>3 DEF Expired, Outlasts, Item
      <4>3. ~LiveIn(items, clock, key[c])
        BY <2>1, <3>1, <4>2 DEF Remembered, LiveIn, ValidAt
      <4>4. Ended(c)
        BY <1>9, <2>1, <3>1, <4>3 DEF Ended, Remembered
      <4> QED
        BY <1>7, <2>1, <4>1, <4>4, Persist DEF GetOK
    <3>4. CASE ~Expired(held[c], clock)
      <4>1. step'[c] = "returned" /\ result'[c] = held[c].value
        BY <1>12, <2>3, <3>4 DEF Judge, Return
      <4> QED
        BY <1>7, <2>1, <3>1, <3>2, <4>1, Persist DEF GetOK
    <3> QED
      BY <3>3, <3>4
  <2> QED
    BY <2>2, <2>3
<1>13. CASE InCache(c) /\ (Evict(c) \/ Store(c) \/ Drop(c))
  <2>1. /\ job[c] # "none" /\ step'[c] = "returned" /\ result'[c] = Missing
        /\ UNCHANGED <<key[c], reply[c], job[c]>>
    BY <1>13 DEF InCache, Evict, Store, Drop, Remove, Return, calls, CallOK
  <2>2. job[c] = "get" => step[c] = "evict"
    BY <1>13 DEF Evict, Store, Drop, CallOK
  <2>3. job[c] = "get" \/ job[c] = "expire" => Ended(c)'
    BY <2>1, <2>2, Persist DEF GetOK
  <2> QED
    BY <1>7, <2>1, <2>3 DEF GetOK, Ended
<1>14. CASE RedisGet(c)
  <2>1. /\ job[c] = "get" /\ reply[c] = "none" /\ kind = "redis" /\ step'[c] = "returned"
        /\ UNCHANGED <<key[c], reply[c], job[c]>>
    BY <1>14 DEF RedisGet, Return, calls, Pending
  <2>2. key[c] \in Sessions
    BY <1>9, <2>1
  <2>3. CASE items[key[c]] = Missing \/ Expired(items[key[c]], clock)
    <3>1. ~LiveIn(items, clock, key[c])
      BY <2>1, <2>2, <2>3 DEF LiveIn, ValidAt, Expired, Outlasts, Item
    <3>2. result'[c] = Missing /\ "absent" \in seen'[c]
      BY <1>9, <1>14, <2>1, <2>3, <3>1 DEF RedisGet, Return
    <3> QED
      BY <1>7, <2>1, <3>2 DEF GetOK
  <2>4. CASE ~(items[key[c]] = Missing \/ Expired(items[key[c]], clock))
    <3>1. result'[c] = items[key[c]].value /\ result'[c] # Missing
      BY <1>14, <2>2, <2>4 DEF RedisGet, Return, Item
    <3> QED
      BY <1>7, <1>10, <2>1, <2>4, <3>1, Persist DEF GetOK
  <2> QED
    BY <2>3, <2>4
<1>15. CASE RedisDel(c)
  <2>1. /\ job[c] \in {"delete", "expire"} /\ step'[c] = "returned"
        /\ UNCHANGED <<key[c], reply[c], job[c]>>
    BY <1>15 DEF RedisDel, Return, calls, CallOK
  <2>2. job[c] = "expire" => Ended(c)'
    BY <2>1, Persist DEF GetOK
  <2> QED
    BY <1>7, <2>1, <2>2 DEF GetOK
<1>16. CASE GetExpired(c)
  <2>1. /\ job[c] = "get" /\ reply[c] = "none" /\ job'[c] = "expire" /\ step'[c] = "drop"
        /\ UNCHANGED <<key[c], reply[c]>>
        /\ result[c] # Missing /\ clock > result[c] /\ step[c] = "returned"
    BY <1>16 DEF GetExpired, Returned, Pending
  <2>2. Remembered(c, result[c]) /\ result[c] \in Nat
    BY <2>1 DEF GetOK
  <2>3. ~LiveIn(items, clock, key[c])
    BY <2>1, <2>2 DEF Remembered, LiveIn, ValidAt
  <2>4. Ended(c)
    BY <1>9, <2>1, <2>2, <2>3 DEF Ended, Remembered
  <2> QED
    BY <1>7, <2>1, <2>4, Persist DEF GetOK
<1> QED
  BY <1>3, <1>4, <1>5, <1>6, <1>8, <1>11, <1>12, <1>13, <1>14, <1>15, <1>16
     DEF Operation, Answers, InCache, CacheStep

\* The ids that are about to be stored are of different callers, and theirs
\* alone.
LEMMA Ids ==
  ASSUME StoreInv, NEW c \in Callers, Operation(c)
  PROVE  /\ CreatorsDiffer'
         /\ \A d \in Callers \ {c} : WillStore(d) => key[d] \notin stored'
<1>1. /\ StoreTypes /\ CreatorsDiffer /\ tokens \subseteq tokens'
      /\ \A d \in Callers : CallOK(d)
      /\ \A d \in Callers \ {c} : /\ UNCHANGED <<step[d], key[d], job[d], reply[d]>>
  BY OperationFrame DEF StoreInv, CallOf
<1>2. \A d \in Callers \ {c} : WillStore(d)' = WillStore(d) /\ key'[d] = key[d]
  BY <1>1 DEF WillStore
<1>3. CASE Create(c)
  <2>1. key'[c] \notin tokens
    BY <1>1, <1>3 DEF Create, StoreTypes, TypeOK, CacheTypeOK
  <2>2. \A d \in Callers \ {c} : WillStore(d) => key[d] \in tokens /\ key[d] \notin stored
    BY <1>1 DEF CallOK
  <2>3. stored' = stored
    BY <1>3 DEF Create
  <2> QED
    BY <1>1, <1>2, <2>1, <2>2, <2>3 DEF CreatorsDiffer
<1>4. CASE ~Create(c)
  <2>1. WillStore(c)' => WillStore(c) /\ key'[c] = key[c]
    <3>1. CASE BeginGet(c) \/ BeginDelete(c)
      BY <1>1, <3>1 DEF BeginGet, BeginDelete, Begin, WillStore, StoreTypes, TypeOK
    <3>2. CASE Answers(c)
      BY <3>2, AnswersOnce DEF WillStore
    <3>3. CASE CreateSet(c)
      BY <1>1, <3>3 DEF CreateSet, Set, Call, calls, WillStore, StoreTypes, TypeOK, CacheTypeOK
    <3>4. CASE InCache(c)
      BY <1>1, <3>4 DEF InCache, CacheStep, Look, Judge, Evict, Store, Drop, Remove, Return, calls,
                        WillStore, StoreTypes, TypeOK, CacheTypeOK
    <3>5. CASE RedisGet(c) \/ RedisDel(c)
      BY <1>1, <3>5 DEF RedisGet, RedisDel, Return, calls, WillStore, StoreTypes, TypeOK, CacheTypeOK
    <3>6. CASE GetExpired(c)
      BY <1>1, <3>6 DEF GetExpired, WillStore, StoreTypes, TypeOK
    <3> QED
      BY <1>4, <3>1, <3>2, <3>3, <3>4, <3>5, <3>6 DEF Operation, Answers
  <2>2. CreatorsDiffer'
    BY <1>1, <1>2, <2>1 DEF CreatorsDiffer
  <2>3. ASSUME NEW d \in Callers \ {c}, WillStore(d) PROVE key[d] \notin stored'
    <3>1. key[d] \notin stored
      BY <1>1, <2>3 DEF CallOK
    <3>2. Fills(c) => key[d] # key[c]
      BY <1>1, <2>3 DEF Fills, CreatorsDiffer
    <3> QED
      BY <3>1, <3>2, OperationItems DEF Erases, Fills
  <2> QED
    BY <2>2, <2>3
<1> QED
  BY <1>3, <1>4

\* Every step of a store preserves its invariant.
LEMMA StoreStep == ASSUME StoreInv, SessionStep PROVE StoreInv'
<1>1. StoreTypes /\ CreatorsDiffer /\ \A c \in Callers : CallOK(c)
  BY DEF StoreInv
<1>2. StoreTypes'
  BY StepTypes
<1>3. CASE \E c \in Callers : Operation(c)
  <2>1. PICK c \in Callers : Operation(c)
    BY <1>3
  <2>2. CreatorsDiffer'
    BY <2>1, Ids
  <2>3. ASSUME NEW d \in Callers \ {c} PROVE CallOK(d)' /\ GetOK(d)'
    <3>1. UNCHANGED <<step[d], key[d], held[d], result[d], job[d], reply[d], expires[d]>>
      BY <1>1, <2>1, OperationFrame DEF CallOf
    <3> QED
      BY <2>1, <3>1, Ids, KeptGet, KeptCall
  <2>4. CallOK(c)' /\ GetOK(c)'
    BY <2>1, ActingCall, ActingGet
  <2> QED
    BY <1>2, <2>2, <2>3, <2>4 DEF StoreInv
<1>4. CASE Cleanup \/ TimePasses \/ ProcessEnds \/ UNCHANGED <<cacheVars, calls, stored>>
  <2>1. /\ UNCHANGED <<key, held, result, job, reply, expires, tokens, stored>>
        /\ \A d \in Callers : \/ step'[d] = step[d]
                              \/ step'[d] = "dead" /\ job[d] # "none" /\ reply[d] = "none"
    BY <1>4 DEF Cleanup, CleanupOf, TimePasses, Tick, ProcessEnds, cacheVars, calls
  <2>2. ASSUME NEW d \in Callers PROVE CallOK(d)' /\ GetOK(d)'
    <3>1. WillStore(d) => key[d] \notin stored'
      BY <1>1, <2>1 DEF CallOK
    <3> QED
      BY <2>1, <3>1, KeptGet, KeptCall
  <2>3. \A d \in Callers : WillStore(d)' => WillStore(d)
    BY <2>1 DEF WillStore
  <2> QED
    BY <1>1, <1>2, <2>1, <2>2, <2>3 DEF StoreInv, CreatorsDiffer
<1> QED
  BY <1>3, <1>4 DEF SessionStep

\* A step that leaves the stores alone.
LEMMA StoreStutter == ASSUME StoreInv, UNCHANGED vars PROVE StoreInv'
<1> USE DEF vars, cacheVars, calls
<1>1. StoreTypes'
  BY DEF StoreInv, StoreTypes, TypeOK, CacheTypeOK, Behind
<1>2. \A c \in Callers : CallOK(c)'
  BY DEF StoreInv, CallOK, WillStore
<1>3. \A c \in Callers : GetOK(c)'
  BY DEF StoreInv, GetOK, Running, Asked, GetReply, States, StatesIn, LiveIn, ValidAt, Remembered, Ended
<1>4. CreatorsDiffer'
  BY DEF StoreInv, CreatorsDiffer, WillStore
<1> QED
  BY <1>1, <1>2, <1>3, <1>4 DEF StoreInv

\* The invariant of the stores holds whenever they are used by themselves
\* (pkg/auth, pkg/cache)
THEOREM StoreInvariance == Spec => []StoreInv
  BY StoreStart, StoreStepsStore, StoreStep, StoreStutter, PTL DEF Spec

\* and behind a server (pkg/server/server.go).
THEOREM ServedInvariance == ServerSpec => []StoreInv
<1>1. ServerInit => StoreInv
  BY StoreStart DEF ServerInit
<1> QED
  BY <1>1, ServerStepsStore, StoreStep, StoreStutter, PTL DEF ServerSpec

\* The stores of a server and what New knows of them keep their types.
THEOREM ServerTypes == ServerSpec => []ServerTypeOK
<1>1. WiringInv /\ StoreInv => ServerTypeOK
  BY DEF WiringInv, StoreInv, StoreTypes, ServerTypeOK
<1> QED
  BY <1>1, WiringInit, WiringStep, ServedInvariance, PTL DEF ServerSpec

-----------------------------------------------------------------------------
\* Nothing but its Delete ends a session that is live.

LostForCause(s) ==
  LiveIn(items, clock, s) /\ clock' = clock /\ ~LiveIn(items', clock', s) =>
    \/ \E c \in Callers : job[c] = "delete" /\ key[c] = s
    \/ ends' # ends /\ kind \in {"memory", "cache"}

LEMMA NoLoss ==
  ASSUME StoreInv, SessionStep \/ UNCHANGED vars, NEW s \in Sessions PROVE LostForCause(s)
<1>1. items \in [Sessions -> Item \union {Missing}] /\ ends \in Nat /\ clock \in Nat
  BY DEF StoreInv, StoreTypes, TypeOK, CacheTypeOK
<1>2. CASE items'[s] = items[s]
  BY <1>2 DEF LostForCause, LiveIn
<1>3. ASSUME NEW c \in Callers, Operation(c), items'[s] # items[s] PROVE LostForCause(s)
  <2>1. items[s] # Missing => s \in stored
    BY DEF StoreInv, StoreTypes
  <2>2. CASE Erases(c)
    BY <1>1, <1>3, <2>2 DEF Erases, Ended, LostForCause
  <2>3. CASE Fills(c)
    <3>1. key[c] = s /\ s \notin stored
      BY <1>1, <1>3, <2>3 DEF Fills, StoreInv, CallOK
    <3> QED
      BY <2>1, <3>1 DEF LostForCause, LiveIn
  <2> QED
    BY <1>3, <2>2, <2>3, OperationItems
<1>4. CASE Cleanup
  <2>1. kind = "postgres"
    BY <1>4 DEF Cleanup, CleanupOf
  <2>2. items'[s] # items[s] => items[s] # Missing /\ items[s].value <= clock
    BY <1>4 DEF Cleanup, CleanupOf
  <2>3. items[s] # Missing => items[s].value \in Nat
    BY <1>1 DEF Item
  <2> QED
    BY <1>1, <1>2, <2>1, <2>2, <2>3 DEF LostForCause, LiveIn, ValidAt
<1>5. CASE ProcessEnds
  BY <1>1, <1>5 DEF ProcessEnds, LostForCause, LiveIn
<1>6. CASE TimePasses \/ UNCHANGED <<cacheVars, calls, stored>> \/ UNCHANGED vars
  BY <1>2, <1>6 DEF TimePasses, Tick, cacheVars, vars
<1> QED
  BY <1>2, <1>3, <1>4, <1>5, <1>6 DEF SessionStep

\* As LosesNoLiveSession says, of the stores by themselves (Cleanup of
\* pg_session_store.go, Get and Set of cache.go, Delete of all four)
THEOREM StoresLoseNothing == Spec => LosesNoLiveSession
<1>1. StoreInv /\ [Next]_vars => [\A s \in Sessions : LostForCause(s)]_vars
  BY NoLoss, StoreStepsStore
<1> QED
  BY <1>1, StoreInvariance, PTL DEF Spec, LosesNoLiveSession, LostForCause

\* and of the store that New has chosen, in a server that is started, closed,
\* killed and started again.
THEOREM ServersLoseNothing == ServerSpec => LosesNoLiveSession
<1>1. StoreInv /\ [ServerNext]_serverVars => [\A s \in Sessions : LostForCause(s)]_vars
  BY NoLoss, ServerStepsStore
<1> QED
  BY <1>1, ServedInvariance, PTL DEF ServerSpec, LosesNoLiveSession, LostForCause

-----------------------------------------------------------------------------
\* The contract of SessionStore.

LEMMA NothingYet == Init => Abstract!StoreInit
  BY DEF Init, CacheInit, States, StatesIn, LiveIn, Asked, GetReply, Abstract!StoreInit

\* What a Get that is not about to begin has seen, in a step that changes no
\* session.
LEMMA SeenStays ==
  ASSUME StoreInv, SessionStep, NEW d \in Callers, Asked(d)' = Asked(d), States' = States
  PROVE  seen'[d] = seen[d]
<1>1. StoreTypes /\ GetOK(d)
  BY DEF StoreInv
<1>2. Asked(d) # None => Asked(d) = key[d]
  BY DEF Asked
<1>3. CASE Asked(d)' = None \/ GetReply(d) # "none"
  BY <1>1, <1>3 DEF SessionStep, WatchSessions
<1>4. CASE Running(d)
  BY <1>1, <1>2, <1>4 DEF SessionStep, WatchSessions, GetOK, Running
<1> QED
  BY <1>3, <1>4 DEF Running

\* A step that begins or answers no Get is a Move.
LEMMA StepMoves ==
  ASSUME StoreInv, SessionStep, \A d \in Callers : Asked(d)' = Asked(d) /\ GetReply(d)' = GetReply(d)
  PROVE  Abstract!Move(States')
<1>1. \A s \in Sessions : \/ States'[s] \in {States[s], "gone"}
                          \/ States[s] = "new" /\ States'[s] = "live"
  BY SessionsMove
<1>2. StoreTypes
  BY DEF StoreInv
<1>3. ASSUME NEW d \in Callers
      PROVE  seen'[d] = IF Running(d) THEN seen[d] \union {Abstract!Status(States'[Asked(d)])} ELSE seen[d]
  <2>1. Running(d) => Asked(d) = key[d] /\ Abstract!Status(States[key[d]]) \in seen[d]
    BY DEF StoreInv, GetOK, Running, Asked
  <2> QED
    BY <1>2, <2>1 DEF SessionStep, WatchSessions, Running
<1>4. seen' = [d \in Callers |-> seen'[d]]
  BY DEF SessionStep, WatchSessions
<1> QED
  BY <1>1, <1>3, <1>4 DEF Abstract!Move, Abstract!Running, Running

LEMMA AskMoves ==
  ASSUME StoreInv, SessionStep, NEW c \in Callers, BeginGet(c)
  PROVE  \E s \in Sessions : Abstract!Get(c, s)
<1>1. StoreTypes /\ CallOK(c) /\ GetOK(c)
  BY DEF StoreInv
<1> USE DEF StoreTypes, TypeOK, CacheTypeOK
<1>2. PICK s \in Sessions : key' = [key EXCEPT ![c] = s]
  BY <1>1 DEF BeginGet, Get, Call
<1>3. /\ job[c] = "none" /\ reply[c] = "none" /\ job' = [job EXCEPT ![c] = "get"]
      /\ UNCHANGED <<items, clock, stored, reply, kind>>
  BY <1>1 DEF BeginGet, Begin, Get, Call, CallOK, SessionStep
<1>4. States' = States
  BY <1>3 DEF States, StatesIn, LiveIn, ValidAt
<1>5. Asked(c) = None /\ GetReply(c) = "none" /\ Asked(c)' = s /\ GetReply(c)' = "none"
  BY <1>1, <1>2, <1>3 DEF Asked, GetReply
<1>6. \A d \in Callers \ {c} : Asked(d)' = Asked(d) /\ GetReply(d)' = GetReply(d)
  BY <1>1, <1>2, <1>3 DEF Asked, GetReply
<1>7. seen'[c] = {Abstract!Status(States[s])}
  BY <1>1, <1>4, <1>5 DEF SessionStep, WatchSessions, GetOK
<1>8. \A d \in Callers \ {c} : seen'[d] = seen[d]
  BY <1>4, <1>6, SeenStays
<1>9. seen' = [seen EXCEPT ![c] = {Abstract!Status(States[s])}]
  BY <1>1, <1>7, <1>8 DEF SessionStep, WatchSessions
<1> QED
  BY <1>3, <1>4, <1>5, <1>6, <1>9 DEF Abstract!Get

\* What a Get answers, it has seen.
LEMMA AnswerIsTrue ==
  ASSUME StoreInv, SessionStep, NEW c \in Callers, Answers(c), job[c] \in {"get", "expire"}
  PROVE  \E x \in {"found", "missing", "error"} :
           Answer(c, x) /\ items' = items /\ stored' = stored
           /\ (x = "found" => "live" \in seen[c]) /\ (x = "missing" => "absent" \in seen[c])
<1>1. StoreTypes /\ CallOK(c) /\ GetOK(c) /\ reply[c] = "none"
  BY AnswersOnce DEF StoreInv
<1>2. Running(c) /\ Abstract!Status(States[key[c]]) \in seen[c] /\ key[c] \in Sessions
  BY <1>1 DEF GetOK, Running, Asked, GetReply, CallOK
<1>3. CASE GetRow(c)
  BY <1>2, <1>3 DEF GetRow, States, StatesIn, LiveIn, ValidAt, Abstract!Status
<1>4. CASE Fail(c)
  BY <1>4 DEF Fail
<1>5. CASE GetFound(c)
  BY <1>1, <1>5 DEF GetFound, Returned, Pending, GetOK, Remembered
<1>6. CASE GetMissing(c)
  BY <1>1, <1>6 DEF GetMissing, Returned, Pending, GetOK, Ended
<1> QED
  BY <1>3, <1>4, <1>5, <1>6 DEF Answers, CreateRow, DeleteRow, CallDone, Returned, Pending

LEMMA AnswerMoves ==
  ASSUME StoreInv, SessionStep, NEW c \in Callers, Answers(c), job[c] \in {"get", "expire"}
  PROVE  \E x \in {"found", "missing", "error"} : Abstract!Answer(c, x)
<1>1. StoreTypes /\ CallOK(c) /\ kind' = kind
  BY DEF StoreInv, SessionStep
<1>2. PICK x \in {"found", "missing", "error"} :
        Answer(c, x) /\ items' = items /\ stored' = stored
        /\ (x = "found" => "live" \in seen[c]) /\ (x = "missing" => "absent" \in seen[c])
  BY AnswerIsTrue
<1>3. UNCHANGED <<key, job, clock>> /\ reply' = [reply EXCEPT ![c] = x]
  BY <1>2 DEF Answer
<1>4. States' = States
  BY <1>1, <1>2, <1>3 DEF States, StatesIn, LiveIn, ValidAt
<1>5. \A d \in Callers : Asked(d)' = Asked(d)
  BY <1>3 DEF Asked
<1>6. seen' = seen
  <2>1. \A d \in Callers : seen'[d] = seen[d]
    BY <1>4, <1>5, SeenStays
  <2> QED
    BY <1>1, <2>1 DEF SessionStep, WatchSessions, StoreTypes
<1>7. Asked(c) # None /\ GetReply(c) = "none" /\ GetReply(c)' = x
  BY <1>1, <1>3, AnswersOnce DEF Asked, GetReply, CallOK, StoreTypes, TypeOK
<1>8. \A d \in Callers \ {c} : GetReply(d)' = GetReply(d)
  BY <1>1, <1>3 DEF GetReply, StoreTypes, TypeOK
<1> QED
  BY <1>2, <1>4, <1>5, <1>6, <1>7, <1>8 DEF Abstract!Answer, Abstract!Running

LEMMA StoreRefines ==
  ASSUME StoreInv, SessionStep \/ UNCHANGED vars
  PROVE  [Abstract!StoreNext]_(Abstract!storeVars)
<1>1. CASE UNCHANGED vars
  BY <1>1 DEF vars, cacheVars, calls, States, StatesIn, LiveIn, ValidAt, Asked, GetReply, Abstract!storeVars
<1>2. ASSUME Abstract!Move(States') PROVE Abstract!StoreNext
  <2>1. States' \in [Sessions -> Abstract!States]
    BY DEF States, StatesIn, LiveIn, ValidAt, Abstract!States
  <2> QED
    BY <1>2, <2>1 DEF Abstract!StoreNext
<1>3. ASSUME SessionStep, NEW c \in Callers, Operation(c) PROVE Abstract!StoreNext
  <2>1. /\ StoreTypes /\ CallOK(c)
        /\ \A d \in Callers \ {c} : Asked(d)' = Asked(d) /\ GetReply(d)' = GetReply(d)
    BY <1>3, OperationFrame DEF StoreInv, CallOf, Asked, GetReply
  <2>2. CASE BeginGet(c)
    BY <1>3, <2>2, AskMoves DEF Abstract!StoreNext
  <2>3. CASE Answers(c) /\ job[c] \in {"get", "expire"}
    BY <1>3, <2>3, AnswerMoves DEF Abstract!StoreNext
  <2>4. CASE ~BeginGet(c) /\ ~(Answers(c) /\ job[c] \in {"get", "expire"})
    <3>1. Asked(c)' = Asked(c) /\ GetReply(c)' = GetReply(c)
      <4>1. CASE Create(c) \/ BeginDelete(c)
        BY <2>1, <4>1 DEF Create, BeginDelete, Begin, Asked, GetReply, StoreTypes, TypeOK
      <4>2. CASE Answers(c)
        BY <2>4, <4>2, AnswersOnce DEF Asked, GetReply
      <4>3. CASE CreateSet(c)
        BY <2>1, <4>3 DEF CreateSet, Set, Call, calls, Asked, GetReply
      <4>4. CASE InCache(c) \/ RedisGet(c) \/ RedisDel(c)
        BY <4>4 DEF InCache, CacheStep, Look, Judge, Evict, Store, Drop, Remove, RedisGet, RedisDel, calls,
                    Asked, GetReply
      <4>5. CASE GetExpired(c)
        BY <2>1, <4>5 DEF GetExpired, Returned, Pending, Asked, GetReply, StoreTypes, TypeOK
      <4> QED
        BY <1>3, <2>4, <4>1, <4>2, <4>3, <4>4, <4>5 DEF Operation, Answers
    <3> QED
      BY <1>2, <1>3, <2>1, <3>1, StepMoves
  <2> QED
    BY <2>2, <2>3, <2>4
<1>4. CASE SessionStep /\ (Cleanup \/ TimePasses \/ ProcessEnds \/ UNCHANGED <<cacheVars, calls, stored>>)
  <2>1. UNCHANGED <<key, job, reply>>
    BY <1>4 DEF Cleanup, CleanupOf, TimePasses, Tick, ProcessEnds, cacheVars, calls
  <2>2. \A d \in Callers : Asked(d)' = Asked(d) /\ GetReply(d)' = GetReply(d)
    BY <2>1 DEF Asked, GetReply
  <2> QED
    BY <1>2, <1>4, <2>2, StepMoves
<1> QED
  BY <1>1, <1>3, <1>4 DEF SessionStep

\* Get of all four stores answers with something that was true of the session
\* while it ran, and sessions begin and end once (session.go,
\* pg_session_store.go, cache_session_store.go).
THEOREM StoresImplement == Spec => ImplementsSessionStore
  BY NothingYet, StoreInvariance, StoreStepsStore, StoreRefines, PTL
     DEF Spec, ImplementsSessionStore, Abstract!StoreSpec

\* So does the store of a server, whatever becomes of the server.
THEOREM ServersImplement == ServerSpec => ImplementsSessionStore
<1>1. ServerInit => Abstract!StoreInit
  BY NothingYet DEF ServerInit
<1> QED
  BY <1>1, ServedInvariance, ServerStepsStore, StoreRefines, PTL
     DEF ServerSpec, ImplementsSessionStore, Abstract!StoreSpec
=============================================================================
