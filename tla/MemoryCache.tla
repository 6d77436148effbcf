----------------------------- MODULE MemoryCache -----------------------------
(***************************************************************************)
(* The in-memory cache (pkg/cache/cache.go), called from many goroutines.  *)
(* One action is what happens under the mutex, or the code between: Get    *)
(* lets go of the lock before it looks at the expiry and takes it again to *)
(* delete, Set reads the clock before it takes the lock.  Time is counted  *)
(* in ticks.                                                               *)
(***************************************************************************)
EXTENDS Naturals

CONSTANTS Callers, Keys, Values,
          Missing,     \* no such item; also what Get returns as ErrNotFound
          Forever,     \* the zero expiresAt
          NoKey,
          MaxClock     \* bound of the clock

VARIABLES
  clock,
  items,    \* items[key]: the map
  step,     \* step[c]: where the call of c is
  key,      \* key[c]: the key it is about
  held,     \* held[c]: the item Get has read, or Set is about to store
  result    \* result[c]: what it has returned

cacheVars == <<clock, items, step, key, held, result>>

Item == [value : Values, expiresAt : Nat \union {Forever}]

\* A pointer is not nil, and ErrNotFound is no value.
ASSUME MissingAssumption == Missing \notin Item \union Values

CacheTypeOK ==
  /\ clock \in Nat
  /\ items \in [Keys -> Item \union {Missing}]
  /\ step \in [Callers -> {"idle", "look", "judge", "evict", "store", "drop", "returned", "dead"}]
  /\ key \in [Callers -> Keys \union {NoKey}]
  /\ held \in [Callers -> Item \union {Missing}]
  /\ result \in [Callers -> Values \union {Missing}]

CacheInit ==
  /\ items = [k \in Keys |-> Missing]
  /\ step = [c \in Callers |-> "idle"]
  /\ key = [c \in Callers |-> NoKey]
  /\ held = [c \in Callers |-> Missing]
  /\ result = [c \in Callers |-> Missing]

-----------------------------------------------------------------------------
Expired(item, now) == item.expiresAt # Forever /\ now > item.expiresAt

Return(c, x) ==
  /\ step' = [step EXCEPT ![c] = "returned"]
  /\ result' = [result EXCEPT ![c] = x]

Call(c, k, label) ==
  /\ step[c] = "idle"
  /\ step' = [step EXCEPT ![c] = label]
  /\ key' = [key EXCEPT ![c] = k]
  /\ UNCHANGED <<clock, items, result>>

Get(c, k) == Call(c, k, "look") /\ UNCHANGED held

Look(c) ==
  /\ step[c] = "look"
  /\ held' = [held EXCEPT ![c] = items[key[c]]]
  /\ step' = [step EXCEPT ![c] = "judge"]
  /\ UNCHANGED <<clock, items, key, result>>

Judge(c) ==
  /\ step[c] = "judge"
  /\ \/ held[c] = Missing /\ Return(c, Missing)
     \/ /\ held[c] # Missing /\ Expired(held[c], clock)
        /\ step' = [step EXCEPT ![c] = "evict"]
        /\ UNCHANGED result
     \/ held[c] # Missing /\ ~Expired(held[c], clock) /\ Return(c, held[c].value)
  /\ UNCHANGED <<clock, items, key, held>>

Remove(c) ==
  /\ items' = [items EXCEPT ![key[c]] = Missing]
  /\ Return(c, Missing)
  /\ UNCHANGED <<clock, key, held>>

Evict(c) == step[c] = "evict" /\ Remove(c)

Set(c, k, value, ttl) ==
  /\ Call(c, k, "store")
  /\ held' = [held EXCEPT ![c] =
       [value |-> value, expiresAt |-> IF ttl > 0 THEN clock + ttl ELSE Forever]]

Store(c) ==
  /\ step[c] = "store"
  /\ items' = [items EXCEPT ![key[c]] = held[c]]
  /\ Return(c, Missing)
  /\ UNCHANGED <<clock, key, held>>

Delete(c, k) == Call(c, k, "drop") /\ UNCHANGED held

Drop(c) == step[c] = "drop" /\ Remove(c)

Tick ==
  /\ clock < MaxClock
  /\ clock' = clock + 1
  /\ UNCHANGED <<items, step, key, held, result>>

\* What happens inside a call that has begun.
CacheStep(c) == Look(c) \/ Judge(c) \/ Evict(c) \/ Store(c) \/ Drop(c)
=============================================================================
