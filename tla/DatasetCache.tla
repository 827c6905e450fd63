---------------------------- MODULE DatasetCache ----------------------------
(***************************************************************************)
(* runtimeBarsCache of internal/pointintime/dataset_cache.go: the bars of  *)
(* concurrent backtests, one load in flight per key, least recently used   *)
(* entries evicted when the bytes exceed the maximum.                      *)
(***************************************************************************)
EXTENDS Integers, Sequences, FiniteSetsExt, Functions

CONSTANTS
    Readers,        \* goroutines that read series
    Series,         \* what a key names: the bars of one series of one manifest
    Size,           \* [Series -> bytes of its bars]
    Maximum,        \* datasetCacheMaximumBytes
    MaxFlights      \* bound: loads started

VARIABLES
    lru,            \* keys of entries, the most recently used first
    bytes,
    flights,        \* every load started: [key, done, failed]
    inflight,       \* [key -> its flight in c.inflight, 0 for none]
    reader          \* [reader -> where it is in get]

cacheVars == <<lru, bytes, flights, inflight, reader>>

\* What the instances have to satisfy.
CacheAssumption ==
    /\ Maximum \in Nat /\ MaxFlights \in Nat
    /\ IsFiniteSet(Series) /\ Size \in [Series -> Nat]

Reading == [at : {"load", "publish", "wait"}, key : Series, flight : 1 .. MaxFlights]
NotReading == [at |-> "idle"]

CacheTypeOK ==
    /\ lru \in Seq(Series) /\ bytes \in Nat
    /\ flights \in Seq([key : Series, done : BOOLEAN, failed : BOOLEAN]) /\ Len(flights) <= MaxFlights
    /\ inflight \in [Series -> 0 .. Len(flights)]
    /\ reader \in [Readers -> {NotReading} \cup Reading]

Cached(k) == k \in Range(lru)
Bytes(keys) == SumFunctionOnSet(Size, Range(keys))

\* A hit: the entry moves to the front, and those before it one place back.
MoveToFront(k) ==
    LET p == CHOOSE i \in DOMAIN lru : lru[i] = k
    IN  [i \in DOMAIN lru |-> IF i = 1 THEN k ELSE IF i <= p THEN lru[i - 1] ELSE lru[i]]

\* Mutant: what is evicted stays counted.
insertLockedUncounted(k) ==
    LET keys == <<k>> \o lru
        n == Max({m \in 0 .. Len(keys) : Bytes(SubSeq(keys, 1, m)) <= Maximum})
    IN  IF Size[k] > Maximum THEN [lru |-> lru, bytes |-> bytes]
        ELSE [lru |-> SubSeq(keys, 1, n), bytes |-> bytes + Size[k]]

\* A new entry at the front; the loop takes entries from the back, and their
\* bytes from the count, until the count fits or no entry is left.
insertLocked(k) ==
    LET keys == <<k>> \o lru
        counted(n) == bytes + Size[k] - Bytes(SubSeq(keys, n + 1, Len(keys)))
        n == Max({0} \cup {m \in 1 .. Len(keys) : counted(m) <= Maximum})
    IN  IF Maximum <= 0 \/ Size[k] > Maximum THEN [lru |-> lru, bytes |-> bytes]
        ELSE [lru |-> SubSeq(keys, 1, n), bytes |-> counted(n)]

\* A flight of its own.
StartLoad(c, k) ==
    /\ Len(flights) < MaxFlights
    /\ flights' = Append(flights, [key |-> k, done |-> FALSE, failed |-> FALSE])
    /\ inflight' = [inflight EXCEPT ![k] = Len(flights) + 1]
    /\ reader' = [reader EXCEPT ![c] = [at |-> "load", key |-> k, flight |-> Len(flights) + 1]]
    /\ UNCHANGED <<lru, bytes>>

\* Mutant: a load in flight is not joined.
GetUnjoined(c, k) == reader[c].at = "idle" /\ ~Cached(k) /\ StartLoad(c, k)

\* get, under the mutex: a hit, a wait for the flight, or a new flight.
Get(c, k) ==
    /\ reader[c].at = "idle"
    /\ \/ Cached(k) /\ lru' = MoveToFront(k) /\ UNCHANGED <<bytes, flights, inflight, reader>>
       \/ /\ ~Cached(k) /\ inflight[k] # 0
          /\ reader' = [reader EXCEPT ![c] = [at |-> "wait", key |-> k, flight |-> inflight[k]]]
          /\ UNCHANGED <<lru, bytes, flights, inflight>>
       \/ ~Cached(k) /\ inflight[k] = 0 /\ StartLoad(c, k)

\* load, outside the mutex, may fail.
Load(c) ==
    /\ reader[c].at = "load"
    /\ \E failed \in BOOLEAN : flights' = [flights EXCEPT ![reader[c].flight].failed = failed]
    /\ reader' = [reader EXCEPT ![c].at = "publish"]
    /\ UNCHANGED <<lru, bytes, inflight>>

\* The second critical section of get: the flight ends, its bars are cached
\* unless it failed, and its waiters are woken.
Publish(c) ==
    LET f == reader[c].flight
        k == reader[c].key
    IN  /\ reader[c].at = "publish"
        /\ inflight' = [inflight EXCEPT ![k] = 0]
        /\ flights' = [flights EXCEPT ![f].done = TRUE]
        /\ IF flights[f].failed THEN UNCHANGED <<lru, bytes>>
           ELSE lru' = insertLocked(k).lru /\ bytes' = insertLocked(k).bytes
        /\ reader' = [reader EXCEPT ![c] = NotReading]

\* A waiter returns what the flight loaded, or its error.
Wake(c) ==
    /\ reader[c].at = "wait" /\ flights[reader[c].flight].done
    /\ reader' = [reader EXCEPT ![c] = NotReading]
    /\ UNCHANGED <<lru, bytes, flights, inflight>>

CacheInit ==
    /\ lru = <<>> /\ bytes = 0 /\ flights = <<>> /\ inflight = [k \in Series |-> 0]
    /\ reader = [c \in Readers |-> NotReading]

CacheNext == \E c \in Readers : (\E k \in Series : Get(c, k)) \/ Load(c) \/ Publish(c) \/ Wake(c)

CacheSpec == CacheInit /\ [][CacheNext]_cacheVars

-----------------------------------------------------------------------------
\* The byte count is the size of the entries, within the maximum, and no key
\* has two entries, whatever order loads of several readers end in.
BytesExact == bytes = Bytes(lru) /\ bytes <= Maximum /\ IsInjective(lru)

\* A key is loaded by one reader at a time, and only while it has no entry.
Loading(c) == reader[c].at \in {"load", "publish"}
OneLoadPerKey ==
    \A c \in Readers : Loading(c) =>
        /\ ~Cached(reader[c].key)
        /\ \A d \in Readers \ {c} : Loading(d) => reader[d].key # reader[c].key

\* The byte count of the cache is exact and within its maximum, and a key is
\* loaded by one reader at a time (runtimeBarsCache.get, insertLocked).
CacheIsExact == CacheTypeOK /\ BytesExact /\ OneLoadPerKey
=============================================================================
