----------------------------- MODULE ReadLeasesProofs -----------------------------
(***************************************************************************)
(* Proofs about ReadLeases: for any number of readers, artifacts, requests  *)
(* and any limits, the store's tables agree, its counters and the object    *)
(* counts are exact, the chunks of a lease tile the artifact and a response *)
(* is kept as long as it promises.                                          *)
(*                                                                         *)
(* The store is swept and changed in one locked section.  The parts of the  *)
(* invariant are therefore predicates on tables given as arguments: dropping *)
(* leases keeps them, and so does adding or advancing one afterwards.       *)
(***************************************************************************)
EXTENDS ReadLeases, CountingProofs

LiveOf(rd) == {l \in Readers : rd[l] # None}
Without(rd, D) == [l \in Readers |-> IF l \in D THEN None ELSE rd[l]]
Forget(rd, at, D) ==
  [q \in Requests |-> IF \E l \in D : rd[l].key = q THEN None ELSE at[q]]
PinOf(rd) == [l \in LiveOf(rd) |-> Bytes[rd[l].key.artifact]]
On(rd, a) == {l \in LiveOf(rd) : rd[l].key.artifact = a}

(* What prepareLocked leaves in the table: a chunk within the artifact, not *)
(* empty unless it is the last, and the deadline it was answered with.      *)
GoodLease(x) ==
  /\ x \in Lease
  /\ x.replay.offset <= x.replay.next
  /\ x.replay.next <= Bytes[x.key.artifact]
  /\ x.final <=> x.replay.next = Bytes[x.key.artifact]
  /\ ~x.final => x.replay.offset < x.replay.next
  /\ x.expiresAt <= x.created + Absolute
  /\ x.replay.expires = x.expiresAt

(* The two tables describe the same leases.                                 *)
Tables(rd, at) ==
  /\ DOMAIN rd = Readers
  /\ \A l \in LiveOf(rd) : GoodLease(rd[l])
  /\ at \in [Requests -> Readers \cup {None}]
  /\ \A q \in Requests : at[q] # None => at[q] \in LiveOf(rd) /\ rd[at[q]].key = q
  /\ \A l \in LiveOf(rd) : at[rd[l].key] = l

(* The counters are what the leases add up to, within the limits.           *)
Amounts(rd, pinned, replays) ==
  /\ pinned = Total(PinOf(rd), LiveOf(rd))
  /\ replays = Cardinality(LiveOf(rd))
  /\ pinned <= MaxPinnedBytes
  /\ replays <= MaxReplays
  /\ replays <= MaxCount

(* An object counts its leases, its pins and its package.                   *)
Objects(rd, pins, inst, rf) ==
  /\ DOMAIN rf = Artifacts
  /\ \A a \in Artifacts :
       rf[a] = Cardinality(On(rd, a)) + Cardinality(pins[a])
                 + IF a \in inst THEN 1 ELSE 0

(* What has been served: the chunk in a lease's replay slot and the earlier *)
(* ones, which end where it begins at the latest.                           *)
History(rd, sv, rq) ==
  /\ sv \subseteq [id : Readers, response : Replay]
  /\ \A l \in LiveOf(rd) : [id |-> l, response |-> rd[l].replay] \in sv
  /\ \A l \in LiveOf(rd), a \in sv :
       a.id = l => \/ a.response = rd[l].replay
                   \/ /\ a.response.offset < rd[l].replay.offset
                      /\ a.response.next <= rd[l].replay.offset
  /\ \A a, b \in sv :
       a.id = b.id =>
         /\ a.response.offset = b.response.offset => a = b
         /\ a.response.offset < b.response.offset => a.response.next <= b.response.offset
  /\ \A a \in sv :
       \/ a.response.offset = rq[a.id].offset
       \/ \E b \in sv : /\ b.id = a.id
                        /\ b.response.offset < a.response.offset
                        /\ b.response.next = a.response.offset

(* A response that has not expired at time t is there or was superseded.    *)
Kept(rd, sv, t) ==
  \A a \in sv :
    t < a.response.expires =>
      \/ a.id \in LiveOf(rd) /\ rd[a.id].replay = a.response
      \/ \E b \in sv : b.id = a.id /\ b.response.offset > a.response.offset

Pins == [a \in Artifacts |-> Pinning(a)]

(* Only a reader that is done has a lease or was served through it, and it  *)
(* will not commit another.                                                 *)
DoneOK ==
  /\ \A l \in Leases : pc[l] = "done"
  /\ \A a \in served : pc[a.id] = "done"

ReadersOK ==
  /\ now \in 0 .. Horizon
  /\ closed \in BOOLEAN
  /\ installed \subseteq Artifacts
  /\ pc \in [Readers -> {"idle", "missed", "pinned", "done"}]
  /\ request \in [Readers -> Requests]
  /\ \A r \in Readers : pc[r] = "pinned" => request[r].offset <= Bytes[request[r].artifact]

(* The tables are functions.                                                *)
Shapes ==
  /\ reads = [l \in Readers |-> reads[l]]
  /\ refs = [a \in Artifacts |-> refs[a]]

(* The inductive invariant.                                                 *)
IInv ==
  /\ ReadersOK
  /\ Shapes
  /\ DoneOK
  /\ Tables(reads, attempts)
  /\ Amounts(reads, pinnedBytes, replayBytes)
  /\ Objects(reads, Pins, installed, refs)
  /\ History(reads, served, request)
  /\ ~closed => Kept(reads, served, now)
-----------------------------------------------------------------------------
(* The smaller of two numbers.                                              *)
LEMMA MinOfTwo ==
  ASSUME NEW a \in Nat, NEW b \in Nat
  PROVE  /\ Min({a, b}) \in {a, b}
         /\ Min({a, b}) <= a /\ Min({a, b}) <= b
<1>1. \E x \in {a, b} : \A y \in {a, b} : x <= y
  <2>1. CASE a <= b
    BY <2>1
  <2>2. CASE b <= a
    BY <2>2
  <2> QED
    BY <2>1, <2>2
<1>2. Min({a, b}) = CHOOSE x \in {a, b} : \A y \in {a, b} : x <= y
  BY DEF Min
<1> DEFINE m == CHOOSE x \in {a, b} : \A y \in {a, b} : x <= y
<1>3. m \in {a, b} /\ \A y \in {a, b} : m <= y
  BY <1>1
<1> HIDE DEF m
<1> QED
  BY <1>2, <1>3 DEF m

(* The leases are as few as the readers.                                    *)
LEMMA LiveFinite ==
  ASSUME NEW rd, NEW D \in SUBSET Readers
  PROVE  /\ IsFiniteSet(LiveOf(rd)) /\ IsFiniteSet(D)
         /\ Cardinality(LiveOf(rd)) \in Nat /\ Cardinality(D) \in Nat
BY ReadAssumption, FS_Subset, FS_CardinalityType DEF LiveOf

(* A lease pins the bytes of an artifact.                                   *)
LEMMA PinNat ==
  ASSUME NEW rd, NEW at, Tables(rd, at)
  PROVE  /\ \A l \in LiveOf(rd) : PinOf(rd)[l] \in Nat
         /\ \A l \in LiveOf(rd) : rd[l].key \in Requests /\ rd[l].key.artifact \in Artifacts
BY ReadAssumption DEF Tables, GoodLease, Lease, PinOf

(* prepareLocked returns a good lease on the same key, whose chunk begins   *)
(* at the offset asked for.                                                 *)
LEMMA PrepareGood ==
  ASSUME NEW x, NEW q \in Requests, x.key = q, NEW c \in Nat, x.created = c,
         NEW input \in {"artifact", "handle"}, NEW offset \in Nat, NEW max \in Nat \ {0},
         NEW t \in Nat, offset <= Bytes[q.artifact]
  PROVE  /\ GoodLease(Prepare(x, input, offset, max, t))
         /\ Prepare(x, input, offset, max, t).key = q
         /\ Prepare(x, input, offset, max, t).replay.offset = offset
<1> DEFINE size == Bytes[q.artifact]
           next == Min({offset + max, size})
           expires == Min({t + IF next = size THEN FinalReplay ELSE Idle, c + Absolute})
           y == [key |-> q, created |-> c, expiresAt |-> expires, final |-> next = size,
                 replay |-> [input |-> input, offset |-> offset, max |-> max,
                             next |-> next, expires |-> expires]]
<1>1. size \in Nat
  BY ReadAssumption
<1>2. next \in Nat /\ next <= size /\ offset <= next /\ (next # size => offset < next)
  BY <1>1, MinOfTwo
<1>3. expires \in Nat /\ expires <= c + Absolute
  BY ReadAssumption, MinOfTwo
<1>4. Prepare(x, input, offset, max, t) = y
  BY DEF Prepare
<1> HIDE DEF next, expires
<1>5. GoodLease(y)
  BY <1>1, <1>2, <1>3 DEF GoodLease, Lease, Replay
<1> QED
  BY <1>4, <1>5
-----------------------------------------------------------------------------
(* Dropping the leases of D.                                                *)
LEMMA TablesDrop ==
  ASSUME NEW rd, NEW at, Tables(rd, at), NEW D, D \subseteq LiveOf(rd)
  PROVE  /\ Tables(Without(rd, D), Forget(rd, at, D))
         /\ LiveOf(Without(rd, D)) = LiveOf(rd) \ D
         /\ \A l \in LiveOf(rd) \ D : Without(rd, D)[l] = rd[l]
<1> DEFINE rd1 == Without(rd, D)
           at1 == Forget(rd, at, D)
<1>1. /\ DOMAIN rd1 = Readers
      /\ \A l \in Readers : rd1[l] = IF l \in D THEN None ELSE rd[l]
      /\ at1 \in [Requests -> Readers \cup {None}]
      /\ \A q \in Requests : at1[q] = IF \E l \in D : rd[l].key = q THEN None ELSE at[q]
  BY DEF Without, Forget, Tables
<1> HIDE DEF rd1, at1
<1>2. LiveOf(rd1) = LiveOf(rd) \ D
  BY <1>1 DEF LiveOf
<1>3. \A l \in LiveOf(rd) \ D : rd1[l] = rd[l]
  BY <1>1 DEF LiveOf
<1>4. \A l \in LiveOf(rd1) : GoodLease(rd1[l])
  BY <1>2, <1>3 DEF Tables
<1>5. \A q \in Requests : at1[q] # None => at1[q] \in LiveOf(rd1) /\ rd1[at1[q]].key = q
  BY <1>1, <1>2, <1>3 DEF Tables
<1>6. \A l \in LiveOf(rd1) : at1[rd1[l].key] = l
  <2> SUFFICES ASSUME NEW l \in LiveOf(rd1) PROVE at1[rd1[l].key] = l
    OBVIOUS
  <2>1. rd1[l] = rd[l] /\ l \in LiveOf(rd) \ D /\ rd[l].key \in Requests
    BY <1>2, <1>3, PinNat
  <2>2. ~\E d \in D : rd[d].key = rd[l].key
    BY <2>1 DEF Tables
  <2> QED
    BY <1>1, <2>1, <2>2 DEF Tables
<1> QED
  BY <1>1, <1>2, <1>3, <1>4, <1>5, <1>6 DEF Tables, rd1, at1

(* Dropping leases returns their bytes and their replays.                   *)
LEMMA AmountsDrop ==
  ASSUME NEW rd, NEW at, Tables(rd, at), NEW D, D \subseteq LiveOf(rd),
         NEW pinned, NEW replays, Amounts(rd, pinned, replays)
  PROVE  /\ Amounts(Without(rd, D), pinned - Total(PinOf(rd), D), replays - Cardinality(D))
         /\ Cardinality(LiveOf(rd) \ D) = replays - Cardinality(D)
<1> DEFINE rd1 == Without(rd, D)
<1>0. D \subseteq Readers
  BY DEF LiveOf
<1>1. LiveOf(rd1) = LiveOf(rd) \ D /\ \A l \in LiveOf(rd) \ D : rd1[l] = rd[l]
  BY TablesDrop
<1>2. \A l \in LiveOf(rd) \ D : PinOf(rd1)[l] = PinOf(rd)[l]
  BY <1>1 DEF PinOf
<1> HIDE DEF rd1
<1>3. Total(PinOf(rd1), LiveOf(rd) \ D) = Total(PinOf(rd), LiveOf(rd) \ D)
  BY <1>2, TotalSame
<1>4. /\ Total(PinOf(rd), D) \in Nat
      /\ Total(PinOf(rd), LiveOf(rd) \ D) \in Nat
      /\ Total(PinOf(rd), LiveOf(rd) \ D) = Total(PinOf(rd), LiveOf(rd)) - Total(PinOf(rd), D)
  BY <1>0, LiveFinite, PinNat, TotalSubset
<1>5. Total(PinOf(rd), LiveOf(rd)) \in Nat
  BY <1>0, LiveFinite, PinNat, TotalType
<1>6. /\ Cardinality(LiveOf(rd)) \in Nat /\ Cardinality(D) \in Nat
      /\ Cardinality(LiveOf(rd) \ D) \in Nat
      /\ Cardinality(LiveOf(rd) \ D) = Cardinality(LiveOf(rd)) - Cardinality(D)
  <2>1. IsFiniteSet(LiveOf(rd)) /\ LiveOf(rd) \cap D = D
    BY <1>0, LiveFinite
  <2>2. Cardinality(LiveOf(rd) \ D)
          = Cardinality(LiveOf(rd)) - Cardinality(LiveOf(rd) \cap D)
    BY <2>1, FS_Difference, Zenon
  <2>3. Cardinality(LiveOf(rd) \cap D) = Cardinality(D)
    BY <2>1, Zenon
  <2>4. LiveOf(rd) \ D \subseteq Readers
    BY DEF LiveOf
  <2> QED
    BY <1>0, <2>2, <2>3, <2>4, LiveFinite
<1>7. /\ Total(PinOf(rd1), LiveOf(rd1)) = pinned - Total(PinOf(rd), D)
      /\ pinned - Total(PinOf(rd), D) <= MaxPinnedBytes
  <2>1. pinned = Total(PinOf(rd), LiveOf(rd)) /\ pinned <= MaxPinnedBytes
    BY DEF Amounts
  <2>2. Total(PinOf(rd1), LiveOf(rd1)) = Total(PinOf(rd), LiveOf(rd) \ D)
    BY <1>1, <1>3, Zenon
  <2> QED
    BY <1>4, <1>5, <2>1, <2>2, ReadAssumption
<1>8. /\ Cardinality(LiveOf(rd1)) = replays - Cardinality(D)
      /\ replays - Cardinality(D) <= MaxReplays /\ replays - Cardinality(D) <= MaxCount
      /\ Cardinality(LiveOf(rd) \ D) = replays - Cardinality(D)
  <2>1. replays = Cardinality(LiveOf(rd)) /\ replays <= MaxReplays /\ replays <= MaxCount
    BY DEF Amounts
  <2>2. Cardinality(LiveOf(rd1)) = Cardinality(LiveOf(rd) \ D)
    BY <1>1, Zenon
  <2> QED
    BY <1>6, <2>1, <2>2, ReadAssumption
<1> QED
  BY <1>7, <1>8 DEF Amounts, rd1

(* Dropping leases returns their references to the objects.                 *)
LEMMA ObjectsDrop ==
  ASSUME NEW rd, NEW at, Tables(rd, at), NEW D, D \subseteq LiveOf(rd),
         NEW pins, NEW inst, NEW rf, Objects(rd, pins, inst, rf),
         \A a \in Artifacts : Cardinality(pins[a]) \in Nat
  PROVE  Objects(Without(rd, D), pins, inst,
                 [a \in Artifacts |-> rf[a] - Cardinality({l \in D : rd[l].key.artifact = a})])
<1> DEFINE rd1 == Without(rd, D)
           gone(a) == {l \in D : rd[l].key.artifact = a}
<1>0. LiveOf(rd1) = LiveOf(rd) \ D /\ \A l \in LiveOf(rd) \ D : rd1[l] = rd[l]
  BY TablesDrop
<1> SUFFICES ASSUME NEW a \in Artifacts
             PROVE  rf[a] - Cardinality(gone(a))
                      = Cardinality(On(rd1, a)) + Cardinality(pins[a])
                          + IF a \in inst THEN 1 ELSE 0
  BY DEF Objects
<1>1. /\ On(rd1, a) = On(rd, a) \ gone(a)
      /\ On(rd, a) \cap gone(a) = gone(a)
      /\ On(rd, a) \subseteq Readers /\ gone(a) \subseteq Readers
  BY <1>0 DEF On, LiveOf
<1> HIDE DEF rd1, gone
<1>2. /\ IsFiniteSet(On(rd, a))
      /\ Cardinality(On(rd, a)) \in Nat /\ Cardinality(gone(a)) \in Nat
  BY <1>1, LiveFinite
<1>3. Cardinality(On(rd, a) \ gone(a))
        = Cardinality(On(rd, a)) - Cardinality(On(rd, a) \cap gone(a))
  BY <1>2, FS_Difference, Zenon
<1>4. Cardinality(On(rd1, a)) = Cardinality(On(rd, a)) - Cardinality(gone(a))
  BY <1>1, <1>3, Zenon
<1>5. rf[a] = Cardinality(On(rd, a)) + Cardinality(pins[a]) + IF a \in inst THEN 1 ELSE 0
  BY DEF Objects
<1> QED
  BY <1>2, <1>4, <1>5

(* Dropping leases leaves the chunks of the others consecutive.             *)
LEMMA HistoryDrop ==
  ASSUME NEW rd, NEW at, Tables(rd, at), NEW D, D \subseteq LiveOf(rd),
         NEW sv, NEW rq, History(rd, sv, rq)
  PROVE  History(Without(rd, D), sv, rq)
<1> DEFINE rd1 == Without(rd, D)
<1>0. LiveOf(rd1) = LiveOf(rd) \ D /\ \A l \in LiveOf(rd) \ D : rd1[l] = rd[l]
  BY TablesDrop
<1> HIDE DEF rd1
<1>1. /\ \A l \in LiveOf(rd1) : [id |-> l, response |-> rd1[l].replay] \in sv
      /\ \A l \in LiveOf(rd1), a \in sv :
           a.id = l => \/ a.response = rd1[l].replay
                       \/ /\ a.response.offset < rd1[l].replay.offset
                          /\ a.response.next <= rd1[l].replay.offset
  BY <1>0 DEF History
<1> QED
  BY <1>1 DEF History, rd1

(* A dropped lease has expired, and so has the response it holds.           *)
LEMMA KeptDrop ==
  ASSUME NEW rd, NEW at, Tables(rd, at), NEW D, D \subseteq LiveOf(rd),
         NEW sv, NEW rq, History(rd, sv, rq), NEW t \in Nat, Kept(rd, sv, t),
         \A l \in D : t >= rd[l].expiresAt, NEW u \in Nat, t <= u
  PROVE  Kept(Without(rd, D), sv, u)
<1> DEFINE rd1 == Without(rd, D)
<1>0. LiveOf(rd1) = LiveOf(rd) \ D /\ \A l \in LiveOf(rd) \ D : rd1[l] = rd[l]
  BY TablesDrop
<1> HIDE DEF rd1
<1> SUFFICES ASSUME NEW a \in sv, u < a.response.expires
             PROVE  \/ a.id \in LiveOf(rd1) /\ rd1[a.id].replay = a.response
                    \/ \E b \in sv : b.id = a.id /\ b.response.offset > a.response.offset
  BY DEF Kept, rd1
<1>1. a.response.expires \in Nat
  BY DEF History, Replay
<1>2. t < a.response.expires
  BY <1>1
<1>3. CASE a.id \in LiveOf(rd) /\ rd[a.id].replay = a.response
  <2>1. rd[a.id].expiresAt = a.response.expires
    BY <1>3 DEF Tables, GoodLease
  <2>2. a.id \notin D
    BY <1>1, <1>2, <2>1
  <2> QED
    BY <1>0, <1>3, <2>2
<1> QED
  BY <1>2, <1>3 DEF Kept

-----------------------------------------------------------------------------
(* rd1 is the table rd with x in the place of reader r.                     *)
Puts(rd1, rd, r, x) ==
  /\ DOMAIN rd1 = Readers
  /\ rd1[r] = x
  /\ \A l \in Readers \ {r} : rd1[l] = rd[l]

(* Committing the lease x of reader r.                                      *)
LEMMA LiveAdd ==
  ASSUME NEW rd, NEW at, Tables(rd, at), NEW r \in Readers, rd[r] = None,
         NEW x, GoodLease(x), NEW rd1, Puts(rd1, rd, r, x)
  PROVE  /\ LiveOf(rd1) = LiveOf(rd) \cup {r}
         /\ r \notin LiveOf(rd)
         /\ rd1[r] = x
         /\ \A l \in LiveOf(rd) : rd1[l] = rd[l]
<1>1. x # None /\ DOMAIN rd = Readers
  BY ReadAssumption DEF GoodLease, Tables
<1> QED
  BY <1>1 DEF LiveOf, Puts

(* A new lease is filed under its identifier and under its attempt.         *)
LEMMA TablesAdd ==
  ASSUME NEW rd, NEW at, Tables(rd, at), NEW r \in Readers, rd[r] = None,
         NEW x, GoodLease(x), NEW rd1, Puts(rd1, rd, r, x), at[x.key] = None
  PROVE  Tables(rd1, [at EXCEPT ![x.key] = r])
<1> DEFINE at1 == [at EXCEPT ![x.key] = r]
<1>0. x # None /\ x.key \in Requests
  BY ReadAssumption DEF GoodLease, Lease
<1>1. /\ DOMAIN rd1 = Readers /\ rd1[r] = x
      /\ \A l \in Readers \ {r} : rd1[l] = rd[l]
      /\ at1 \in [Requests -> Readers \cup {None}] /\ at1[x.key] = r
      /\ \A q \in Requests \ {x.key} : at1[q] = at[q]
  BY <1>0 DEF Tables, Puts
<1> HIDE DEF at1
<1>2. LiveOf(rd1) = LiveOf(rd) \cup {r} /\ r \notin LiveOf(rd)
  BY LiveAdd
<1>3. \A l \in LiveOf(rd) : rd1[l] = rd[l] /\ rd[l].key \in Requests /\ rd[l].key # x.key
  <2> SUFFICES ASSUME NEW l \in LiveOf(rd)
               PROVE  rd1[l] = rd[l] /\ rd[l].key \in Requests /\ rd[l].key # x.key
    OBVIOUS
  <2>1. l \in Readers /\ l # r /\ rd[l].key \in Requests /\ at[rd[l].key] = l
    BY <1>2, PinNat DEF LiveOf, Tables
  <2> QED
    BY <1>1, <2>1, ReadAssumption
<1>4. \A l \in LiveOf(rd1) : GoodLease(rd1[l])
  BY <1>1, <1>2, <1>3 DEF Tables
<1>5. \A q \in Requests : at1[q] # None => at1[q] \in LiveOf(rd1) /\ rd1[at1[q]].key = q
  BY <1>1, <1>2, <1>3 DEF Tables
<1>6. \A l \in LiveOf(rd1) : at1[rd1[l].key] = l
  BY <1>1, <1>2, <1>3 DEF Tables
<1> QED
  BY <1>1, <1>2, <1>4, <1>5, <1>6 DEF Tables, at1

(* A new lease that the quotas allow is added to the amounts.               *)
LEMMA AmountsAdd ==
  ASSUME NEW rd, NEW at, Tables(rd, at), NEW r \in Readers, rd[r] = None,
         NEW x, GoodLease(x), NEW rd1, Puts(rd1, rd, r, x), at[x.key] = None,
         NEW pinned, NEW replays, Amounts(rd, pinned, replays),
         pinned + Bytes[x.key.artifact] <= MaxPinnedBytes,
         replays + 1 <= MaxReplays, replays + 1 <= MaxCount
  PROVE  Amounts(rd1, pinned + Bytes[x.key.artifact], replays + 1)
<1> DEFINE size == Bytes[x.key.artifact]
<1>0. x.key \in Requests /\ size \in Nat
  BY ReadAssumption DEF GoodLease, Lease
<1>1. /\ LiveOf(rd1) = LiveOf(rd) \cup {r} /\ r \notin LiveOf(rd)
      /\ rd1[r] = x /\ \A l \in LiveOf(rd) : rd1[l] = rd[l]
  BY LiveAdd
<1>2. /\ \A l \in LiveOf(rd) : PinOf(rd1)[l] = PinOf(rd)[l]
      /\ PinOf(rd1)[r] = size
  BY <1>1 DEF PinOf
<1> HIDE DEF size
<1>3. \A l \in LiveOf(rd) \cup {r} : PinOf(rd1)[l] \in Nat
  BY <1>0, <1>2, PinNat
<1>4. IsFiniteSet(LiveOf(rd)) /\ Cardinality(LiveOf(rd)) \in Nat
  BY LiveFinite
<1>5. Total(PinOf(rd1), LiveOf(rd) \cup {r}) = Total(PinOf(rd1), LiveOf(rd)) + PinOf(rd1)[r]
  BY <1>1, <1>3, <1>4, TotalAdd
<1>6. Total(PinOf(rd1), LiveOf(rd)) = Total(PinOf(rd), LiveOf(rd))
  BY <1>2, TotalSame
<1>7. Total(PinOf(rd1), LiveOf(rd1)) = pinned + size
  BY <1>1, <1>2, <1>5, <1>6, Zenon DEF Amounts
<1>8. Cardinality(LiveOf(rd1)) = replays + 1
  <2>1. Cardinality(LiveOf(rd) \cup {r}) = Cardinality(LiveOf(rd)) + 1
    BY <1>1, <1>4, FS_AddElement
  <2> QED
    BY <1>1, <2>1, Zenon DEF Amounts
<1> QED
  BY <1>7, <1>8 DEF Amounts, size

(* The pin of reader r becomes a reference of its lease.                    *)
LEMMA ObjectsAdd ==
  ASSUME NEW rd, NEW at, Tables(rd, at), NEW r \in Readers, rd[r] = None,
         NEW x, GoodLease(x), NEW rd1, Puts(rd1, rd, r, x), at[x.key] = None,
         NEW pins, NEW pins1, NEW inst, NEW rf, Objects(rd, pins, inst, rf),
         \A a \in Artifacts : IsFiniteSet(pins[a]),
         r \in pins[x.key.artifact], pins1[x.key.artifact] = pins[x.key.artifact] \ {r},
         \A a \in Artifacts \ {x.key.artifact} : pins1[a] = pins[a]
  PROVE  Objects(rd1, pins1, inst, rf)
<1>0. x.key.artifact \in Artifacts
  BY ReadAssumption DEF GoodLease, Lease
<1>1. LiveOf(rd1) = LiveOf(rd) \cup {r} /\ r \notin LiveOf(rd)
  BY LiveAdd
<1>2. rd1[r] = x /\ \A l \in LiveOf(rd) : rd1[l] = rd[l]
  BY LiveAdd
<1> SUFFICES ASSUME NEW a \in Artifacts
             PROVE  Cardinality(On(rd1, a)) + Cardinality(pins1[a])
                      = Cardinality(On(rd, a)) + Cardinality(pins[a])
  BY DEF Objects
<1>3. On(rd, a) \subseteq Readers /\ IsFiniteSet(On(rd, a)) /\ Cardinality(On(rd, a)) \in Nat
  BY LiveFinite DEF On, LiveOf
<1>4. CASE a = x.key.artifact
  <2>1. On(rd1, a) = On(rd, a) \cup {r} /\ r \notin On(rd, a)
    BY <1>1, <1>2, <1>4 DEF On
  <2>2. Cardinality(On(rd, a) \cup {r}) = Cardinality(On(rd, a)) + 1
    BY <1>3, <2>1, FS_AddElement
  <2>3. /\ IsFiniteSet(pins[a]) /\ Cardinality(pins[a]) \in Nat
        /\ Cardinality(pins[a] \ {r}) = Cardinality(pins[a]) - 1
    BY <1>4, FS_RemoveElement, FS_CardinalityType
  <2>4. /\ Cardinality(On(rd1, a)) = Cardinality(On(rd, a)) + 1
        /\ Cardinality(pins1[a]) = Cardinality(pins[a]) - 1
    BY <1>4, <2>1, <2>2, <2>3, Zenon
  <2> QED
    BY <1>3, <2>3, <2>4
<1>5. CASE a # x.key.artifact
  <2>1. On(rd1, a) = On(rd, a)
    BY <1>1, <1>2, <1>5 DEF On
  <2> QED
    BY <1>5, <2>1
<1> QED
  BY <1>4, <1>5

(* A new lease begins at the offset its reader asked for.                   *)
LEMMA HistoryAdd ==
  ASSUME NEW rd, NEW at, Tables(rd, at), NEW r \in Readers, rd[r] = None,
         NEW x, GoodLease(x), NEW rd1, Puts(rd1, rd, r, x), at[x.key] = None,
         NEW sv, NEW rq, History(rd, sv, rq), \A a \in sv : a.id # r,
         x.replay.offset = rq[r].offset
  PROVE  History(rd1, sv \cup {[id |-> r, response |-> x.replay]}, rq)
<1> DEFINE new == [id |-> r, response |-> x.replay]
           sv1 == sv \cup {new}
<1>1. LiveOf(rd1) = LiveOf(rd) \cup {r} /\ r \notin LiveOf(rd)
  BY LiveAdd
<1>2. rd1[r] = x /\ \A l \in LiveOf(rd) : rd1[l] = rd[l]
  BY LiveAdd
<1>3. new.id = r /\ new.response = x.replay /\ new \in [id : Readers, response : Replay]
  BY DEF GoodLease, Lease
<1> HIDE DEF new
<1>4. sv1 \subseteq [id : Readers, response : Replay]
  BY <1>3 DEF History
<1>5. \A l \in LiveOf(rd1) : [id |-> l, response |-> rd1[l].replay] \in sv1
  BY <1>1, <1>2 DEF History, new
<1>6. \A l \in LiveOf(rd1), a \in sv1 :
        a.id = l => \/ a.response = rd1[l].replay
                    \/ /\ a.response.offset < rd1[l].replay.offset
                       /\ a.response.next <= rd1[l].replay.offset
  BY <1>1, <1>2, <1>3 DEF History
<1>7. \A a, b \in sv1 :
        a.id = b.id =>
          /\ a.response.offset = b.response.offset => a = b
          /\ a.response.offset < b.response.offset => a.response.next <= b.response.offset
  <2>1. x.replay.offset \in Nat
    BY DEF GoodLease, Lease, Replay
  <2> QED
    BY <1>3, <2>1 DEF History
<1>8. \A a \in sv1 :
        \/ a.response.offset = rq[a.id].offset
        \/ \E b \in sv1 : /\ b.id = a.id
                          /\ b.response.offset < a.response.offset
                          /\ b.response.next = a.response.offset
  BY <1>3 DEF History
<1> QED
  BY <1>4, <1>5, <1>6, <1>7, <1>8 DEF History, new

(* A new lease takes nothing from those that are kept.                      *)
LEMMA KeptAdd ==
  ASSUME NEW rd, NEW at, Tables(rd, at), NEW r \in Readers, rd[r] = None,
         NEW x, GoodLease(x), NEW rd1, Puts(rd1, rd, r, x), at[x.key] = None,
         NEW sv, NEW t, Kept(rd, sv, t)
  PROVE  Kept(rd1, sv \cup {[id |-> r, response |-> x.replay]}, t)
<1> DEFINE new == [id |-> r, response |-> x.replay]
<1>1. LiveOf(rd1) = LiveOf(rd) \cup {r} /\ r \notin LiveOf(rd)
  BY LiveAdd
<1>2. rd1[r] = x /\ \A l \in LiveOf(rd) : rd1[l] = rd[l]
  BY LiveAdd
<1>3. new.id = r /\ new.response = x.replay
  OBVIOUS
<1> HIDE DEF new
<1> QED
  BY <1>1, <1>2, <1>3 DEF Kept, new

-----------------------------------------------------------------------------
(* Advancing lease l to x, on the same key.                                 *)
LEMMA LiveAdvance ==
  ASSUME NEW rd, NEW at, Tables(rd, at), NEW l \in LiveOf(rd),
         NEW x, GoodLease(x), NEW rd1, Puts(rd1, rd, l, x)
  PROVE  /\ LiveOf(rd1) = LiveOf(rd)
         /\ rd1[l] = x
         /\ \A k \in LiveOf(rd) \ {l} : rd1[k] = rd[k]
<1>1. x # None /\ DOMAIN rd = Readers
  BY ReadAssumption DEF GoodLease, Tables
<1> QED
  BY <1>1 DEF LiveOf, Puts

(* A lease that advances stays where it is filed.                           *)
LEMMA TablesAdvance ==
  ASSUME NEW rd, NEW at, Tables(rd, at), NEW l \in LiveOf(rd),
         NEW x, GoodLease(x), NEW rd1, Puts(rd1, rd, l, x), x.key = rd[l].key
  PROVE  /\ Tables(rd1, at)
         /\ \A k \in LiveOf(rd) : rd1[k].key = rd[k].key
<1>1. /\ LiveOf(rd1) = LiveOf(rd)
      /\ rd1[l] = x
      /\ \A k \in LiveOf(rd) \ {l} : rd1[k] = rd[k]
  BY LiveAdvance
<1>2. \A k \in LiveOf(rd) : rd1[k].key = rd[k].key
  BY <1>1
<1>3. \A k \in LiveOf(rd1) : GoodLease(rd1[k])
  BY <1>1 DEF Tables
<1>4. \A q \in Requests : at[q] # None => at[q] \in LiveOf(rd1) /\ rd1[at[q]].key = q
  BY <1>1, <1>2 DEF Tables
<1>5. \A k \in LiveOf(rd1) : at[rd1[k].key] = k
  BY <1>1, <1>2 DEF Tables
<1>6. DOMAIN rd1 = Readers
  BY DEF Puts
<1> QED
  BY <1>2, <1>3, <1>4, <1>5, <1>6 DEF Tables

(* A lease that advances pins the same bytes.                               *)
LEMMA AmountsAdvance ==
  ASSUME NEW rd, NEW at, Tables(rd, at), NEW l \in LiveOf(rd),
         NEW x, GoodLease(x), NEW rd1, Puts(rd1, rd, l, x), x.key = rd[l].key,
         NEW pinned, NEW replays, Amounts(rd, pinned, replays)
  PROVE  Amounts(rd1, pinned, replays)
<1>1. LiveOf(rd1) = LiveOf(rd)
  BY LiveAdvance
<1>2. \A k \in LiveOf(rd) : rd1[k].key = rd[k].key
  BY TablesAdvance
<1>3. PinOf(rd1) = PinOf(rd)
  BY <1>1, <1>2 DEF PinOf
<1> QED
  BY <1>1, <1>3, Zenon DEF Amounts

(* A lease that advances holds the same reference.                          *)
LEMMA ObjectsAdvance ==
  ASSUME NEW rd, NEW at, Tables(rd, at), NEW l \in LiveOf(rd),
         NEW x, GoodLease(x), NEW rd1, Puts(rd1, rd, l, x), x.key = rd[l].key,
         NEW pins, NEW inst, NEW rf, Objects(rd, pins, inst, rf)
  PROVE  Objects(rd1, pins, inst, rf)
<1>1. LiveOf(rd1) = LiveOf(rd)
  BY LiveAdvance
<1>2. \A k \in LiveOf(rd) : rd1[k].key = rd[k].key
  BY TablesAdvance
<1>3. \A a \in Artifacts : On(rd1, a) = On(rd, a)
  BY <1>1, <1>2 DEF On
<1> QED
  BY <1>3 DEF Objects

(* The next chunk begins where the last one ended.                          *)
LEMMA HistoryAdvance ==
  ASSUME NEW rd, NEW at, Tables(rd, at), NEW l \in LiveOf(rd),
         NEW x, GoodLease(x), NEW rd1, Puts(rd1, rd, l, x), x.key = rd[l].key,
         ~rd[l].final, x.replay.offset = rd[l].replay.next,
         NEW sv, NEW rq, History(rd, sv, rq)
  PROVE  History(rd1, sv \cup {[id |-> l, response |-> x.replay]}, rq)
<1> DEFINE new == [id |-> l, response |-> x.replay]
           old == [id |-> l, response |-> rd[l].replay]
           sv1 == sv \cup {new}
<1>1. /\ LiveOf(rd1) = LiveOf(rd)
      /\ rd1[l] = x
      /\ \A k \in LiveOf(rd) \ {l} : rd1[k] = rd[k]
  BY LiveAdvance
<1>2. new.id = l /\ new.response = x.replay /\ new \in [id : Readers, response : Replay]
  BY DEF GoodLease, Lease, LiveOf
<1>3. old.id = l /\ old.response = rd[l].replay /\ old \in sv
  BY DEF History
<1>4. /\ rd[l].replay.offset \in Nat /\ rd[l].replay.next \in Nat /\ x.replay.offset \in Nat
      /\ rd[l].replay.offset < rd[l].replay.next
  BY DEF Tables, GoodLease, Lease, Replay
<1>5. \A a \in sv : a.response.offset \in Nat /\ a.response.next \in Nat
  BY DEF History, Replay
<1> HIDE DEF new, old
<1>6. \A a \in sv : a.id = l => /\ a.response.offset < x.replay.offset
                                /\ a.response.next <= x.replay.offset
  BY <1>4, <1>5 DEF History
<1>7. sv1 \subseteq [id : Readers, response : Replay]
  BY <1>2 DEF History
<1>8. \A k \in LiveOf(rd1) : [id |-> k, response |-> rd1[k].replay] \in sv1
  BY <1>1 DEF History, new
<1>9. \A k \in LiveOf(rd1), a \in sv1 :
        a.id = k => \/ a.response = rd1[k].replay
                    \/ /\ a.response.offset < rd1[k].replay.offset
                       /\ a.response.next <= rd1[k].replay.offset
  BY <1>1, <1>2, <1>6 DEF History
<1>10. \A a, b \in sv1 :
        a.id = b.id =>
          /\ a.response.offset = b.response.offset => a = b
          /\ a.response.offset < b.response.offset => a.response.next <= b.response.offset
  BY <1>2, <1>4, <1>5, <1>6 DEF History
<1>11. \A a \in sv1 :
        \/ a.response.offset = rq[a.id].offset
        \/ \E b \in sv1 : /\ b.id = a.id
                          /\ b.response.offset < a.response.offset
                          /\ b.response.next = a.response.offset
  <2>1. \A a \in sv : \/ a.response.offset = rq[a.id].offset
                      \/ \E b \in sv1 : /\ b.id = a.id
                                        /\ b.response.offset < a.response.offset
                                        /\ b.response.next = a.response.offset
    BY DEF History
  <2>2. old \in sv1 /\ old.id = new.id /\ old.response.offset < new.response.offset
          /\ old.response.next = new.response.offset
    BY <1>2, <1>3, <1>4
  <2> QED
    BY <2>1, <2>2
<1> QED
  BY <1>7, <1>8, <1>9, <1>10, <1>11 DEF History, new

(* A lease that advances is still kept for its client.                      *)
LEMMA KeptAdvance ==
  ASSUME NEW rd, NEW at, Tables(rd, at), NEW l \in LiveOf(rd),
         NEW x, GoodLease(x), NEW rd1, Puts(rd1, rd, l, x), x.key = rd[l].key,
         ~rd[l].final, x.replay.offset = rd[l].replay.next,
         NEW sv, NEW t, Kept(rd, sv, t)
  PROVE  Kept(rd1, sv \cup {[id |-> l, response |-> x.replay]}, t)
<1> DEFINE new == [id |-> l, response |-> x.replay]
<1>1. /\ LiveOf(rd1) = LiveOf(rd)
      /\ rd1[l] = x
      /\ \A k \in LiveOf(rd) \ {l} : rd1[k] = rd[k]
  BY LiveAdvance
<1>2. new.id = l /\ new.response = x.replay
  OBVIOUS
<1>3. /\ rd[l].replay.offset \in Nat /\ rd[l].replay.next \in Nat
      /\ rd[l].replay.offset < rd[l].replay.next
  BY DEF Tables, GoodLease, Lease, Replay
<1> HIDE DEF new
<1> SUFFICES ASSUME NEW a \in sv \cup {new}, t < a.response.expires
             PROVE  \/ a.id \in LiveOf(rd1) /\ rd1[a.id].replay = a.response
                    \/ \E b \in sv \cup {new} :
                         b.id = a.id /\ b.response.offset > a.response.offset
  BY DEF Kept, new
<1>4. CASE a = new
  BY <1>1, <1>2, <1>4
<1>5. CASE a \in sv /\ a.id = l /\ rd[l].replay = a.response
  <2>1. new.response.offset > a.response.offset
    BY <1>2, <1>3, <1>5
  <2> QED
    BY <1>2, <1>5, <2>1
<1>6. CASE a \in sv /\ ~(a.id = l /\ rd[l].replay = a.response)
  BY <1>1, <1>6 DEF Kept
<1> QED
  BY <1>4, <1>5, <1>6

-----------------------------------------------------------------------------
(* The state's tables as the arguments of the predicates above.             *)
LEMMA Abbreviations ==
  /\ Leases = LiveOf(reads)
  /\ PinnedBy = PinOf(reads)
  /\ \A D : ReadsWithout(D) = Without(reads, D)
  /\ \A D : AttemptsWithout(D) = Forget(reads, attempts, D)
  /\ \A D : PinnedWithout(D) = pinnedBytes - Total(PinOf(reads), D)
<1>1. Leases = LiveOf(reads) /\ PinnedBy = PinOf(reads)
  BY DEF Leases, LiveOf, PinnedBy, PinOf
<1> QED
  BY <1>1 DEF ReadsWithout, Without, AttemptsWithout, Forget, PinnedWithout

(* The readers that pin an artifact between lookup and commit.              *)
LEMMA PinsFinite ==
  \A a \in Artifacts : /\ Pins[a] = Pinning(a)
                       /\ IsFiniteSet(Pins[a])
                       /\ Cardinality(Pins[a]) \in Nat
<1> TAKE a \in Artifacts
<1>1. Pins[a] = Pinning(a) /\ Pinning(a) \in SUBSET Readers
  BY DEF Pins, Pinning
<1> QED
  BY <1>1, LiveFinite

(* Only leases whose time is over are swept.                                *)
LEMMA ExpiredLive == Expired \subseteq Leases /\ \A l \in Expired : now >= reads[l].expiresAt
BY DEF Expired

(* A sweep, or any other drop, leaves the tables in order.                  *)
LEMMA Dropped ==
  ASSUME IInv, NEW D, D \subseteq Leases
  PROVE  /\ LiveOf(ReadsWithout(D)) = Leases \ D
         /\ \A l \in Leases \ D : ReadsWithout(D)[l] = reads[l]
         /\ Tables(ReadsWithout(D), AttemptsWithout(D))
         /\ Amounts(ReadsWithout(D), PinnedWithout(D), ReplayWithout(D))
         /\ Cardinality(Leases \ D) = ReplayWithout(D)
         /\ Objects(ReadsWithout(D), Pins, installed, RefsWithout(D))
         /\ History(ReadsWithout(D), served, request)
<1>0. D \subseteq LiveOf(reads)
  BY Abbreviations
<1>1. /\ Tables(reads, attempts) /\ Amounts(reads, pinnedBytes, replayBytes)
      /\ Objects(reads, Pins, installed, refs) /\ History(reads, served, request)
  BY DEF IInv
<1>2. /\ LiveOf(Without(reads, D)) = LiveOf(reads) \ D
      /\ \A l \in LiveOf(reads) \ D : Without(reads, D)[l] = reads[l]
      /\ Tables(Without(reads, D), Forget(reads, attempts, D))
  BY <1>0, <1>1, TablesDrop
<1>3. /\ Amounts(Without(reads, D), pinnedBytes - Total(PinOf(reads), D),
                 replayBytes - Cardinality(D))
      /\ Cardinality(LiveOf(reads) \ D) = replayBytes - Cardinality(D)
  BY <1>0, <1>1, AmountsDrop
<1>4. Objects(Without(reads, D), Pins, installed, RefsWithout(D))
  BY <1>0, <1>1, PinsFinite, ObjectsDrop DEF RefsWithout
<1>5. History(Without(reads, D), served, request)
  BY <1>0, <1>1, HistoryDrop
<1> QED
  BY <1>2, <1>3, <1>4, <1>5, Abbreviations, Zenon DEF ReplayWithout

(* The sweep drops no lease that was promised to last until now.            *)
LEMMA SweptKept ==
  ASSUME IInv, ~closed, NEW u \in Nat, now <= u
  PROVE  Kept(ReadsWithout(Expired), served, u)
<1>1. /\ Tables(reads, attempts) /\ History(reads, served, request)
      /\ Kept(reads, served, now) /\ now \in Nat
  BY ReadAssumption DEF IInv, ReadersOK
<1>2. Expired \subseteq LiveOf(reads) /\ \A l \in Expired : now >= reads[l].expiresAt
  BY ExpiredLive, Abbreviations
<1>3. Kept(Without(reads, Expired), served, u)
  BY <1>1, <1>2, KeptDrop
<1> QED
  BY <1>3, Abbreviations, Zenon

(* Repeating a response that is in its lease's slot adds nothing new.       *)
LEMMA KnownStep ==
  ASSUME IInv, NEW r \in Readers, NEW l, l = AttemptsWithout(Expired)[request[r]], l # None,
         AnswerKnown(r, l)
  PROVE  /\ served' = served
         /\ pc' = [pc EXCEPT ![r] = "done"]
         /\ request' = request
<1>1. request[r] \in Requests
  BY DEF IInv, ReadersOK
<1>2. l \in Leases
  BY <1>1, Dropped, ExpiredLive DEF Tables
<1>3. [id |-> l, response |-> reads[l].replay] \in served
  BY <1>2, Abbreviations DEF IInv, History
<1> QED
  BY <1>3 DEF AnswerKnown, Answer, Serve
-----------------------------------------------------------------------------
(* A reader takes its pin, or leaves it.                                    *)
LEMMA PinsTake ==
  ASSUME IInv, NEW r \in Readers, pc[r] # "pinned", pc' = [pc EXCEPT ![r] = "pinned"],
         request' = request
  PROVE  /\ r \notin Pins[request[r].artifact]
         /\ Pins'[request[r].artifact] = Pins[request[r].artifact] \cup {r}
         /\ \A a \in Artifacts \ {request[r].artifact} : Pins'[a] = Pins[a]
<1>1. request[r].artifact \in Artifacts /\ DOMAIN pc = Readers
  BY ReadAssumption DEF IInv, ReadersOK
<1> QED
  BY <1>1 DEF Pins, Pinning

(* A reader that is done unpins its artifact and no other.                  *)
LEMMA PinsLeave ==
  ASSUME IInv, NEW r \in Readers, pc[r] = "pinned", pc' = [pc EXCEPT ![r] = "done"],
         request' = request
  PROVE  /\ r \in Pins[request[r].artifact]
         /\ Pins'[request[r].artifact] = Pins[request[r].artifact] \ {r}
         /\ \A a \in Artifacts \ {request[r].artifact} : Pins'[a] = Pins[a]
<1>1. request[r].artifact \in Artifacts /\ DOMAIN pc = Readers
  BY ReadAssumption DEF IInv, ReadersOK
<1> QED
  BY <1>1 DEF Pins, Pinning

(* Pins change with the readers only.                                       *)
LEMMA PinsStay ==
  ASSUME UNCHANGED <<pc, request>>
  PROVE  Pins' = Pins
BY DEF Pins, Pinning

(* A reader that was not pinned moves to a state that is not.               *)
LEMMA PinsIdle ==
  ASSUME IInv, NEW r \in Readers, NEW v, pc' = [pc EXCEPT ![r] = v], request' = request,
         pc[r] # "pinned", v # "pinned"
  PROVE  Pins' = Pins
<1>1. DOMAIN pc = Readers
  BY DEF IInv, ReadersOK
<1>2. \A a \in Artifacts : Pinning(a)' = Pinning(a)
  BY <1>1 DEF Pinning
<1> QED
  BY <1>2 DEF Pins

(* A reader goes from lookup to pin and from pin to commit.                 *)
LEMMA ReadersMove ==
  ASSUME IInv, NEW r \in Readers, NEW v \in {"missed", "pinned", "done"},
         pc' = [pc EXCEPT ![r] = v], request' = request,
         v = "pinned" => request[r].offset <= Bytes[request[r].artifact],
         now' \in 0 .. Horizon, closed' = closed, installed' = installed
  PROVE  ReadersOK'
<1>1. /\ ReadersOK /\ DOMAIN pc = Readers
      /\ pc'[r] = v /\ \A q \in Readers \ {r} : pc'[q] = pc[q]
      /\ pc' \in [Readers -> {"idle", "missed", "pinned", "done"}]
  BY DEF IInv, ReadersOK
<1> QED
  BY <1>1 DEF ReadersOK

(* A reader that is done stays done, and a lease or a response is only      *)
(* added for a reader that is.                                              *)
LEMMA DoneMove ==
  ASSUME IInv, NEW r \in Readers, NEW v, pc' = [pc EXCEPT ![r] = v],
         pc[r] # "done", v = "done" \/ r \notin Leases',
         Leases' \subseteq Leases \cup {r},
         \A a \in served' : a \in served \/ (a.id = r /\ v = "done")
  PROVE  DoneOK'
<1>1. /\ DoneOK /\ pc'[r] = v /\ \A q \in Readers \ {r} : pc'[q] = pc[q]
      /\ \A a \in served : a.id \in Readers
  BY DEF IInv, ReadersOK, History
<1>2. \A l \in Leases' : pc'[l] = "done"
  BY <1>1 DEF DoneOK, Leases
<1>3. \A a \in served' : pc'[a.id] = "done"
  BY <1>1 DEF DoneOK
<1> QED
  BY <1>2, <1>3 DEF DoneOK

(* One reference more, or one less, with a pin.                             *)
LEMMA ObjectsUnpin ==
  ASSUME NEW rd, NEW pins, NEW pins1, NEW inst, NEW rf, Objects(rd, pins, inst, rf),
         NEW r, NEW b \in Artifacts, r \in pins[b], pins1[b] = pins[b] \ {r},
         \A a \in Artifacts \ {b} : pins1[a] = pins[a],
         \A a \in Artifacts : IsFiniteSet(pins[a])
  PROVE  Objects(rd, pins1, inst, [rf EXCEPT ![b] = @ - 1])
<1> DEFINE rf1 == [rf EXCEPT ![b] = @ - 1]
<1>1. /\ DOMAIN rf1 = Artifacts /\ rf1[b] = rf[b] - 1
      /\ \A a \in Artifacts \ {b} : rf1[a] = rf[a]
  BY DEF Objects
<1> HIDE DEF rf1
<1>2. /\ Cardinality(pins[b]) \in Nat
      /\ Cardinality(pins1[b]) = Cardinality(pins[b]) - 1
  BY FS_RemoveElement, FS_CardinalityType
<1>3. On(rd, b) \in SUBSET Readers /\ Cardinality(On(rd, b)) \in Nat
  BY LiveFinite DEF On, LiveOf
<1>4. rf1[b] = Cardinality(On(rd, b)) + Cardinality(pins1[b]) + IF b \in inst THEN 1 ELSE 0
  BY <1>1, <1>2, <1>3 DEF Objects
<1>5. \A a \in Artifacts \ {b} :
        rf1[a] = Cardinality(On(rd, a)) + Cardinality(pins1[a]) + IF a \in inst THEN 1 ELSE 0
  BY <1>1 DEF Objects
<1> QED
  BY <1>1, <1>4, <1>5 DEF Objects, rf1

(* A pin takes one reference to the object of the artifact.                 *)
LEMMA ObjectsPin ==
  ASSUME NEW rd, NEW pins, NEW pins1, NEW inst, NEW rf, Objects(rd, pins, inst, rf),
         NEW r, NEW b \in Artifacts, r \notin pins[b], pins1[b] = pins[b] \cup {r},
         \A a \in Artifacts \ {b} : pins1[a] = pins[a],
         \A a \in Artifacts : IsFiniteSet(pins[a])
  PROVE  Objects(rd, pins1, inst, [rf EXCEPT ![b] = @ + 1])
<1> DEFINE rf1 == [rf EXCEPT ![b] = @ + 1]
<1>1. /\ DOMAIN rf1 = Artifacts /\ rf1[b] = rf[b] + 1
      /\ \A a \in Artifacts \ {b} : rf1[a] = rf[a]
  BY DEF Objects
<1> HIDE DEF rf1
<1>2. /\ Cardinality(pins[b]) \in Nat
      /\ Cardinality(pins1[b]) = Cardinality(pins[b]) + 1
  BY FS_AddElement, FS_CardinalityType
<1>3. On(rd, b) \in SUBSET Readers /\ Cardinality(On(rd, b)) \in Nat
  BY LiveFinite DEF On, LiveOf
<1>4. rf1[b] = Cardinality(On(rd, b)) + Cardinality(pins1[b]) + IF b \in inst THEN 1 ELSE 0
  BY <1>1, <1>2, <1>3 DEF Objects
<1>5. \A a \in Artifacts \ {b} :
        rf1[a] = Cardinality(On(rd, a)) + Cardinality(pins1[a]) + IF a \in inst THEN 1 ELSE 0
  BY <1>1 DEF Objects
<1> QED
  BY <1>1, <1>4, <1>5 DEF Objects, rf1
-----------------------------------------------------------------------------
(* A sweep with nothing but a reader, that holds no pin, moving on.         *)
LEMMA SweepMoves ==
  ASSUME IInv, NEW r \in Readers, pc[r] = "idle", NEW v \in {"missed", "done"},
         pc' = [pc EXCEPT ![r] = v], request' = request, served' = served,
         ~closed, UNCHANGED <<now, closed, installed>>,
         DropOnly(Expired), refs' = RefsWithout(Expired)
  PROVE  IInv'
<1>1. Pins' = Pins
  BY PinsIdle
<1>2. ReadersOK'
  BY ReadersMove DEF IInv, ReadersOK
<1>3. /\ reads' = ReadsWithout(Expired) /\ attempts' = AttemptsWithout(Expired)
      /\ pinnedBytes' = PinnedWithout(Expired) /\ replayBytes' = ReplayWithout(Expired)
  BY DEF DropOnly
<1>4. Leases' = Leases \ Expired
  BY <1>3, Dropped, ExpiredLive DEF Leases, LiveOf
<1>5. DoneOK'
  <2>1. r \notin Leases
    BY DEF IInv, DoneOK
  <2> QED
    BY <1>4, <2>1, DoneMove
<1>6. Shapes'
  BY <1>3 DEF Shapes, ReadsWithout, RefsWithout
<1>7. Kept(ReadsWithout(Expired), served, now)
  BY SweptKept, ReadAssumption DEF IInv, ReadersOK
<1> QED
  BY <1>1, <1>2, <1>3, <1>5, <1>6, <1>7, Dropped, ExpiredLive, Zenon DEF IInv

(* The lookup of an attempt: a replay, or a miss.                           *)
LEMMA LookupAttemptStep ==
  ASSUME IInv, NEW r \in Readers, LookupAttempt(r)
  PROVE  IInv'
<1>0. pc[r] = "idle" /\ UNCHANGED <<now, closed, installed>>
  BY DEF LookupAttempt
<1>1. CASE closed /\ Answer(r, "closed") /\ UNCHANGED <<tableVars, refs, served>>
  <2>1. /\ pc' = [pc EXCEPT ![r] = "done"] /\ request' = request
        /\ UNCHANGED <<reads, attempts, pinnedBytes, replayBytes, refs, served>>
    BY <1>1 DEF Answer, tableVars
  <2>2. Pins' = Pins
    BY <1>0, <2>1, PinsIdle
  <2>3. ReadersOK'
    BY <1>0, <2>1, ReadersMove DEF IInv, ReadersOK
  <2>4. DoneOK'
    <3>1. Leases' = Leases
      BY <2>1 DEF Leases
    <3> QED
      BY <1>0, <2>1, <3>1, DoneMove
  <2>5. Shapes'
    BY <2>1 DEF IInv, Shapes
  <2> QED
    BY <1>0, <1>1, <2>1, <2>2, <2>3, <2>4, <2>5 DEF IInv
<1>2. CASE ~closed /\ DropOnly(Expired) /\ refs' = RefsWithout(Expired)
           /\ AttemptsWithout(Expired)[request[r]] # None
           /\ AnswerKnown(r, AttemptsWithout(Expired)[request[r]])
  <2>1. pc' = [pc EXCEPT ![r] = "done"] /\ request' = request /\ served' = served
    BY <1>2, KnownStep
  <2> QED
    BY <1>0, <1>2, <2>1, SweepMoves
<1>3. CASE ~closed /\ DropOnly(Expired) /\ refs' = RefsWithout(Expired)
           /\ pc' = [pc EXCEPT ![r] = "missed"] /\ UNCHANGED <<request, result, served>>
  BY <1>0, <1>3, SweepMoves
<1> QED
  BY <1>1, <1>2, <1>3 DEF LookupAttempt

(* The artifact of an installed package is pinned, or the read is refused.  *)
LEMMA PinArtifactStep ==
  ASSUME IInv, NEW r \in Readers, PinArtifact(r)
  PROVE  IInv'
<1> DEFINE b == request[r].artifact
<1>0. /\ pc[r] = "missed" /\ UNCHANGED <<now, closed, installed, served>>
      /\ UNCHANGED <<reads, attempts, pinnedBytes, replayBytes>>
      /\ request' = request /\ b \in Artifacts
  BY ReadAssumption DEF PinArtifact, Answer, tableVars, IInv, ReadersOK
<1>1. Leases' = Leases /\ r \notin Leases
  BY <1>0 DEF Leases, IInv, DoneOK
<1>2. CASE pc' = [pc EXCEPT ![r] = "done"] /\ UNCHANGED refs
  <2>1. Pins' = Pins
    BY <1>0, <1>2, PinsIdle
  <2>2. ReadersOK'
    BY <1>0, <1>2, ReadersMove DEF IInv, ReadersOK
  <2>3. DoneOK'
    BY <1>0, <1>1, <1>2, DoneMove
  <2>4. Shapes'
    BY <1>0, <1>2 DEF IInv, Shapes
  <2> QED
    BY <1>0, <1>2, <2>1, <2>2, <2>3, <2>4 DEF IInv
<1>3. CASE /\ request[r].offset <= Bytes[b]
           /\ pc' = [pc EXCEPT ![r] = "pinned"]
           /\ refs' = [refs EXCEPT ![b] = @ + 1]
  <2>1. /\ r \notin Pins[b] /\ Pins'[b] = Pins[b] \cup {r}
        /\ \A a \in Artifacts \ {b} : Pins'[a] = Pins[a]
    BY <1>0, <1>3, PinsTake
  <2>2. ReadersOK'
    BY <1>0, <1>3, ReadersMove DEF IInv, ReadersOK
  <2>3. DoneOK'
    BY <1>0, <1>1, <1>3, DoneMove
  <2>4. Shapes'
    BY <1>0, <1>3 DEF IInv, Shapes
  <2>5. Objects(reads, Pins', installed, [refs EXCEPT ![b] = @ + 1])
    BY <1>0, <2>1, PinsFinite, ObjectsPin DEF IInv
  <2> QED
    BY <1>0, <1>3, <2>2, <2>3, <2>4, <2>5 DEF IInv
<1> QED
  BY <1>0, <1>2, <1>3 DEF PinArtifact, Answer

(* A commit that leaves no lease, because the store was closed, the attempt *)
(* was answered by then, the quotas are exhausted or the response fails:    *)
(* the artifact is unpinned.                                                *)
LEMMA CommitRefusedStep ==
  ASSUME IInv, NEW r \in Readers, CommitRefused(r)
  PROVE  IInv'
<1> DEFINE b == request[r].artifact
<1>0. /\ pc[r] = "pinned" /\ UNCHANGED <<now, closed, installed>> /\ b \in Artifacts
  BY ReadAssumption DEF CommitRefused, IInv, ReadersOK
<1>1. pc' = [pc EXCEPT ![r] = "done"] /\ request' = request /\ served' = served
  <2>1. CASE closed
    BY <2>1 DEF CommitRefused, Answer
  <2>2. CASE ~closed
    BY <2>2, KnownStep DEF CommitRefused, Answer
  <2> QED
    BY <2>1, <2>2
<1>2. /\ r \in Pins[b] /\ Pins'[b] = Pins[b] \ {r}
      /\ \A a \in Artifacts \ {b} : Pins'[a] = Pins[a]
  BY <1>0, <1>1, PinsLeave
<1>3. ReadersOK'
  BY <1>0, <1>1, ReadersMove DEF IInv, ReadersOK
<1>4. CASE closed
  <2>1. /\ UNCHANGED <<reads, attempts, pinnedBytes, replayBytes>>
        /\ refs' = [refs EXCEPT ![b] = @ - 1]
    BY <1>4 DEF CommitRefused, tableVars
  <2>2. DoneOK'
    <3>1. Leases' = Leases
      BY <2>1 DEF Leases
    <3> QED
      BY <1>0, <1>1, <3>1, DoneMove
  <2>3. Shapes'
    BY <2>1 DEF IInv, Shapes
  <2>4. Objects(reads, Pins', installed, [refs EXCEPT ![b] = @ - 1])
    BY <1>0, <1>2, PinsFinite, ObjectsUnpin DEF IInv
  <2> QED
    BY <1>0, <1>1, <1>3, <1>4, <2>1, <2>2, <2>3, <2>4 DEF IInv
<1>5. CASE ~closed
  <2>1. /\ reads' = ReadsWithout(Expired) /\ attempts' = AttemptsWithout(Expired)
        /\ pinnedBytes' = PinnedWithout(Expired) /\ replayBytes' = ReplayWithout(Expired)
        /\ refs' = [RefsWithout(Expired) EXCEPT ![b] = @ - 1]
    BY <1>5 DEF CommitRefused, DropOnly, RefsWithoutPin
  <2>2. DoneOK'
    <3>1. Leases' = Leases \ Expired
      BY <2>1, Dropped, ExpiredLive DEF Leases, LiveOf
    <3> QED
      BY <1>0, <1>1, <3>1, DoneMove
  <2>3. Shapes'
    BY <2>1 DEF Shapes, ReadsWithout, RefsWithout
  <2>4. Objects(ReadsWithout(Expired), Pins, installed, RefsWithout(Expired))
    BY Dropped, ExpiredLive
  <2>5. Objects(ReadsWithout(Expired), Pins', installed,
                [RefsWithout(Expired) EXCEPT ![b] = @ - 1])
    BY <1>0, <1>2, <2>4, PinsFinite, ObjectsUnpin
  <2>6. Kept(ReadsWithout(Expired), served, now)
    BY <1>5, SweptKept, ReadAssumption DEF IInv, ReadersOK
  <2> QED
    BY <1>0, <1>1, <1>3, <2>1, <2>2, <2>3, <2>5, <2>6, Dropped, ExpiredLive, Zenon DEF IInv
<1> QED
  BY <1>4, <1>5

(* A response is prepared no earlier than it was asked for.                 *)
LEMMA PrepareTimesLater ==
  ASSUME IInv, NEW t \in PrepareTimes
  PROVE  t \in Nat /\ t \in 0 .. Horizon /\ now <= t
<1>1. now \in Nat /\ Horizon \in Nat
  BY ReadAssumption DEF IInv, ReadersOK
<1>2. Min({now + 1, Horizon}) \in Nat /\ Min({now + 1, Horizon}) <= Horizon
  BY <1>1, MinOfTwo
<1> QED
  BY <1>1, <1>2 DEF PrepareTimes

(* A commit makes a lease of the pin: the sweep first, then the quotas,     *)
(* then the tables.                                                         *)
LEMMA CommitLeaseStep ==
  ASSUME IInv, NEW r \in Readers, CommitLease(r)
  PROVE  IInv'
<1> DEFINE q == request[r]
           b == q.artifact
           old == ReadsWithout(Expired)
           known == AttemptsWithout(Expired)
<1>0. /\ pc[r] = "pinned" /\ ~closed /\ UNCHANGED <<closed, installed>>
      /\ pc' = [pc EXCEPT ![r] = "done"] /\ request' = request
      /\ known[q] = None /\ ~OverQuota(q)
  BY DEF CommitLease, Answer
<1>1. /\ q \in Requests /\ b \in Artifacts /\ q.offset \in Nat /\ q.max \in Nat \ {0}
      /\ q.offset <= Bytes[b] /\ Bytes[b] \in Nat /\ now \in Nat
  BY <1>0, ReadAssumption DEF IInv, ReadersOK
<1>2. PICK t \in PrepareTimes :
        /\ now' = t
        /\ reads' = [old EXCEPT
                       ![r] = Prepare(NewLease(q), "artifact", q.offset, q.max, t)]
        /\ attempts' = [known EXCEPT ![q] = r]
        /\ pinnedBytes' = PinnedWithout(Expired) + Bytes[b]
        /\ replayBytes' = ReplayWithout(Expired) + 1
        /\ refs' = RefsWithout(Expired)
        /\ Serve(r, Prepare(NewLease(q), "artifact", q.offset, q.max, t))
  BY DEF CommitLease
<1>3. t \in Nat /\ t \in 0 .. Horizon /\ now <= t
  BY PrepareTimesLater
<1>4. PICK x : x = Prepare(NewLease(q), "artifact", q.offset, q.max, t)
  OBVIOUS
<1>5. GoodLease(x) /\ x.key = q /\ x.replay.offset = q.offset
  <2>1. NewLease(q).key = q /\ NewLease(q).created = now
    BY DEF NewLease
  <2> QED
    BY <1>1, <1>3, <1>4, <2>1, PrepareGood
<1>6. /\ reads' = [old EXCEPT ![r] = x]
      /\ served' = served \cup {[id |-> r, response |-> x.replay]}
  BY <1>2, <1>4 DEF Serve
<1>7. /\ LiveOf(old) = Leases \ Expired
      /\ Tables(old, known)
      /\ Amounts(old, PinnedWithout(Expired), ReplayWithout(Expired))
      /\ Cardinality(Leases \ Expired) = ReplayWithout(Expired)
      /\ Objects(old, Pins, installed, RefsWithout(Expired))
      /\ History(old, served, request)
  BY Dropped, ExpiredLive
<1>8. Kept(old, served, t)
  BY <1>0, <1>3, SweptKept
<1>9. old[r] = None /\ DOMAIN old = Readers
  <2>1. r \notin Leases
    BY <1>0 DEF IInv, DoneOK
  <2> QED
    BY <2>1 DEF ReadsWithout, Leases
<1>10. /\ r \in Pins[b] /\ Pins'[b] = Pins[b] \ {r}
       /\ \A a \in Artifacts \ {b} : Pins'[a] = Pins[a]
  BY <1>0, PinsLeave
<1>11. Shapes'
  BY <1>2 DEF Shapes, ReadsWithout, RefsWithout
<1> HIDE DEF old, known
<1>12. Puts(reads', old, r, x)
  BY <1>6, <1>9 DEF Puts
<1>13. Tables(reads', attempts')
  <2>1. Tables(reads', [known EXCEPT ![x.key] = r])
    BY <1>0, <1>5, <1>7, <1>9, <1>12, TablesAdd
  <2> QED
    BY <1>2, <1>5, <2>1
<1>14. Amounts(reads', pinnedBytes', replayBytes')
  <2>1. /\ PinnedWithout(Expired) + Bytes[b] <= MaxPinnedBytes
        /\ ReplayWithout(Expired) + 1 <= MaxReplays
        /\ ReplayWithout(Expired) + 1 <= MaxCount
    <3>1. ReplayWithout(Expired) \in Nat /\ PinnedWithout(Expired) \in Nat
      <4>1. ReplayWithout(Expired) \in Nat
        BY <1>7, LiveFinite, Zenon
      <4>2. Total(PinOf(old), LiveOf(old)) \in Nat
        BY <1>7, LiveFinite, PinNat, TotalType
      <4> QED
        BY <1>7, <4>1, <4>2 DEF Amounts
    <3> QED
      BY <1>0, <1>1, <1>7, <3>1, ReadAssumption DEF OverQuota
  <2>2. Amounts(reads', PinnedWithout(Expired) + Bytes[x.key.artifact],
                ReplayWithout(Expired) + 1)
    BY <1>0, <1>5, <1>7, <1>9, <1>12, <2>1, AmountsAdd
  <2> QED
    BY <1>2, <1>5, <2>2
<1>15. Objects(reads', Pins', installed', refs')
  <2>1. Objects(reads', Pins', installed, RefsWithout(Expired))
    BY <1>0, <1>5, <1>7, <1>9, <1>10, <1>12, PinsFinite, ObjectsAdd
  <2> QED
    BY <1>0, <1>2, <2>1
<1>16. History(reads', served', request')
  <2>1. \A a \in served : a.id # r
    BY <1>0 DEF IInv, DoneOK
  <2>2. History(reads', served \cup {[id |-> r, response |-> x.replay]}, request)
    BY <1>0, <1>5, <1>7, <1>9, <1>12, <2>1, HistoryAdd
  <2> QED
    BY <1>0, <1>6, <2>2
<1>17. Kept(reads', served', now')
  <2>1. Kept(reads', served \cup {[id |-> r, response |-> x.replay]}, t)
    BY <1>0, <1>5, <1>7, <1>8, <1>9, <1>12, KeptAdd
  <2> QED
    BY <1>2, <1>6, <2>1
<1>18. ReadersOK'
  BY <1>0, <1>2, <1>3, ReadersMove
<1>19. DoneOK'
  <2>1. LiveOf(reads') = LiveOf(old) \cup {r}
    BY <1>5, <1>7, <1>9, <1>12, LiveAdd
  <2>2. Leases' \subseteq Leases \cup {r}
    BY <1>7, <2>1 DEF Leases, LiveOf
  <2>3. \A a \in served' : a \in served \/ (a.id = r /\ "done" = "done")
    BY <1>6
  <2> QED
    BY <1>0, <2>2, <2>3, DoneMove
<1> QED
  BY <1>11, <1>13, <1>14, <1>15, <1>16, <1>17, <1>18, <1>19 DEF IInv

(* The readers are left alone, and what is added was served before.         *)
LEMMA ReadersStay ==
  ASSUME IInv, UNCHANGED <<pc, request>>, now' \in 0 .. Horizon, closed' \in BOOLEAN,
         installed' \subseteq Artifacts
  PROVE  ReadersOK'
BY DEF IInv, ReadersOK

(* Readers that are done stay done.                                         *)
LEMMA DoneStay ==
  ASSUME IInv, UNCHANGED pc, Leases' \subseteq Leases,
         \A a \in served' : a \in served \/ a.id \in Leases
  PROVE  DoneOK'
BY DEF IInv, DoneOK

(* A sweep and nothing else.                                                *)
LEMMA SweepStep ==
  ASSUME IInv, DropOnly(Expired), refs' = RefsWithout(Expired),
         UNCHANGED <<now, closed, installed, readerVars>>, served' = served
  PROVE  IInv'
<1>1. Pins' = Pins /\ UNCHANGED <<pc, request>>
  BY PinsStay DEF readerVars
<1>2. /\ reads' = ReadsWithout(Expired) /\ attempts' = AttemptsWithout(Expired)
      /\ pinnedBytes' = PinnedWithout(Expired) /\ replayBytes' = ReplayWithout(Expired)
  BY DEF DropOnly
<1>3. ReadersOK'
  BY <1>1, ReadersStay DEF IInv, ReadersOK
<1>4. DoneOK'
  <2>1. Leases' = Leases \ Expired
    BY <1>2, Dropped, ExpiredLive DEF Leases, LiveOf
  <2> QED
    BY <1>1, <2>1, DoneStay
<1>5. Shapes'
  BY <1>2 DEF Shapes, ReadsWithout, RefsWithout
<1>6. ~closed => Kept(ReadsWithout(Expired), served, now)
  BY SweptKept, ReadAssumption DEF IInv, ReadersOK
<1> QED
  BY <1>1, <1>2, <1>3, <1>4, <1>5, <1>6, Dropped, ExpiredLive, Zenon DEF IInv, readerVars

(* A continuation that repeats the last one gets the same chunk.            *)
LEMMA ContinuationReplayedStep ==
  ASSUME IInv, NEW scope, NEW l \in Readers, NEW offset, NEW max,
         ContinuationReplayed(scope, l, offset, max)
  PROVE  IInv'
<1>1. l \in LiveOf(reads)
  BY Abbreviations DEF ContinuationReplayed, Owned
<1>2. [id |-> l, response |-> reads[l].replay] \in served
  BY <1>1 DEF IInv, History
<1>3. served' = served
  BY <1>2 DEF ContinuationReplayed, Serve
<1> QED
  BY <1>3, SweepStep DEF ContinuationReplayed

(* A continuation gets the next chunk, and the lease its new deadline.      *)
LEMMA ContinuationAdvancedStep ==
  ASSUME IInv, NEW scope, NEW l \in Readers, NEW offset, NEW max \in ChunkSizes,
         ContinuationAdvanced(scope, l, offset, max)
  PROVE  IInv'
<1> DEFINE old == ReadsWithout(Expired)
           known == AttemptsWithout(Expired)
<1>0. /\ ~closed /\ UNCHANGED <<closed, installed, pc, request>>
      /\ l \in Leases \ Expired /\ ~reads[l].final /\ offset = reads[l].replay.next
      /\ attempts' = known /\ pinnedBytes' = PinnedWithout(Expired)
      /\ replayBytes' = ReplayWithout(Expired) /\ refs' = RefsWithout(Expired)
  BY DEF ContinuationAdvanced, Owned, readerVars
<1>1. PICK t \in PrepareTimes :
        /\ now' = t
        /\ reads' = [old EXCEPT ![l] = Prepare(reads[l], "handle", offset, max, t)]
        /\ Serve(l, Prepare(reads[l], "handle", offset, max, t))
  BY DEF ContinuationAdvanced
<1>2. t \in Nat /\ t \in 0 .. Horizon /\ now <= t
  BY PrepareTimesLater
<1>3. PICK x : x = Prepare(reads[l], "handle", offset, max, t)
  OBVIOUS
<1>4. GoodLease(x) /\ x.key = reads[l].key /\ x.replay.offset = offset
  <2>1. GoodLease(reads[l])
    BY <1>0, Abbreviations DEF IInv, Tables
  <2>2. /\ reads[l].key \in Requests /\ reads[l].created \in Nat
        /\ reads[l].replay.next \in Nat
        /\ reads[l].replay.next <= Bytes[reads[l].key.artifact]
    BY <2>1 DEF GoodLease, Lease, Replay
  <2>3. max \in Nat \ {0}
    BY ReadAssumption
  <2> QED
    BY <1>0, <1>2, <1>3, <2>2, <2>3, PrepareGood
<1>5. /\ reads' = [old EXCEPT ![l] = x]
      /\ served' = served \cup {[id |-> l, response |-> x.replay]}
  BY <1>1, <1>3 DEF Serve
<1>6. /\ LiveOf(old) = Leases \ Expired
      /\ old[l] = reads[l]
      /\ Tables(old, known)
      /\ Amounts(old, PinnedWithout(Expired), ReplayWithout(Expired))
      /\ Objects(old, Pins, installed, RefsWithout(Expired))
      /\ History(old, served, request)
  BY <1>0, Dropped, ExpiredLive
<1>7. Kept(old, served, t)
  BY <1>0, <1>2, SweptKept
<1>8. Pins' = Pins
  BY <1>0, PinsStay
<1>9. Shapes'
  BY <1>0, <1>1 DEF Shapes, ReadsWithout, RefsWithout
<1> HIDE DEF old, known
<1>10. Puts(reads', old, l, x)
  BY <1>5, <1>6 DEF Puts, Tables
<1>11. l \in LiveOf(old) /\ x.key = old[l].key /\ ~old[l].final
         /\ x.replay.offset = old[l].replay.next
  BY <1>0, <1>4, <1>6
<1>12. Tables(reads', attempts')
  BY <1>0, <1>4, <1>6, <1>10, <1>11, TablesAdvance
<1>13. Amounts(reads', pinnedBytes', replayBytes')
  BY <1>0, <1>4, <1>6, <1>10, <1>11, AmountsAdvance
<1>14. Objects(reads', Pins', installed', refs')
  BY <1>0, <1>4, <1>6, <1>8, <1>10, <1>11, ObjectsAdvance
<1>15. History(reads', served', request')
  <2>1. History(reads', served \cup {[id |-> l, response |-> x.replay]}, request)
    BY <1>4, <1>6, <1>10, <1>11, HistoryAdvance
  <2> QED
    BY <1>0, <1>5, <2>1
<1>16. Kept(reads', served', now')
  <2>1. Kept(reads', served \cup {[id |-> l, response |-> x.replay]}, t)
    BY <1>4, <1>6, <1>7, <1>10, <1>11, KeptAdvance
  <2> QED
    BY <1>1, <1>5, <2>1
<1>17. ReadersOK'
  BY <1>0, <1>1, <1>2, ReadersStay DEF IInv, ReadersOK
<1>18. DoneOK'
  <2>1. LiveOf(reads') = LiveOf(old)
    BY <1>4, <1>6, <1>10, <1>11, LiveAdvance
  <2>2. Leases' \subseteq Leases
    BY <1>6, <2>1 DEF Leases, LiveOf
  <2> QED
    BY <1>0, <1>5, <2>2, DoneStay
<1> QED
  BY <1>9, <1>12, <1>13, <1>14, <1>15, <1>16, <1>17, <1>18 DEF IInv

(* Close drops every lease and returns what they held.                      *)
LEMMA CloseStep ==
  ASSUME IInv, Close
  PROVE  IInv'
<1>1. Pins' = Pins /\ UNCHANGED <<pc, request>>
  BY PinsStay DEF Close, readerVars
<1>2. /\ reads' = ReadsWithout(Leases) /\ attempts' = AttemptsWithout(Leases)
      /\ pinnedBytes' = PinnedWithout(Leases) /\ replayBytes' = ReplayWithout(Leases)
      /\ refs' = RefsWithout(Leases) /\ closed' = TRUE
      /\ UNCHANGED <<now, installed, served>>
  BY DEF Close, DropOnly
<1>3. ReadersOK'
  BY <1>1, <1>2, ReadersStay DEF IInv, ReadersOK
<1>4. DoneOK'
  <2>1. Leases' = Leases \ Leases
    BY <1>2, Dropped DEF Leases, LiveOf
  <2> QED
    BY <1>1, <1>2, <2>1, DoneStay
<1>5. Shapes'
  BY <1>2 DEF Shapes, ReadsWithout, RefsWithout
<1> QED
  BY <1>1, <1>2, <1>3, <1>4, <1>5, Dropped, Zenon DEF IInv

(* Time passes: no table changes.                                           *)
LEMMA TickStep ==
  ASSUME IInv, Tick
  PROVE  IInv'
<1>1. /\ UNCHANGED <<closed, reads, attempts, pinnedBytes, replayBytes, installed, refs,
                     pc, request, served>>
      /\ now' \in 0 .. Horizon /\ now \in Nat /\ now' = now + 1
  BY ReadAssumption DEF Tick, tableVars, readerVars, IInv, ReadersOK
<1>2. Pins' = Pins /\ Leases' = Leases
  BY <1>1, PinsStay DEF Leases
<1>3. ReadersOK'
  BY <1>1, ReadersStay DEF IInv, ReadersOK
<1>4. DoneOK'
  BY <1>1, <1>2, DoneStay
<1>5. ~closed => Kept(reads, served, now')
  <2> SUFFICES ASSUME ~closed PROVE Kept(reads, served, now')
    OBVIOUS
  <2>1. Kept(reads, served, now) /\ \A a \in served : a.response.expires \in Nat
    BY DEF IInv, History, Replay
  <2>2. \A a \in served : now' < a.response.expires => now < a.response.expires
    BY <1>1, <2>1
  <2> QED
    BY <2>1, <2>2 DEF Kept
<1>6. Shapes'
  BY <1>1 DEF IInv, Shapes
<1> QED
  BY <1>1, <1>2, <1>3, <1>4, <1>5, <1>6 DEF IInv

(* A package comes or goes, and its reference with it.                      *)
LEMMA PackageStep ==
  ASSUME IInv, NEW a \in Artifacts, Uninstall(a) \/ Install(a)
  PROVE  IInv'
<1>1. /\ UNCHANGED <<now, closed, reads, attempts, pinnedBytes, replayBytes, pc, request,
                     served>>
      /\ installed' \subseteq Artifacts
  BY DEF Uninstall, Install, tableVars, readerVars, IInv, ReadersOK
<1>2. Pins' = Pins /\ Leases' = Leases
  BY <1>1, PinsStay DEF Leases
<1>3. ReadersOK'
  BY <1>1, ReadersStay DEF IInv, ReadersOK
<1>4. DoneOK'
  BY <1>1, <1>2, DoneStay
<1>5. Shapes'
  BY <1>1 DEF IInv, Shapes, Uninstall, Install
<1>6. /\ \A c \in Artifacts : /\ Cardinality(On(reads, c)) \in Nat
                              /\ Cardinality(Pins[c]) \in Nat
      /\ Objects(reads, Pins, installed, refs)
  <2>1. \A c \in Artifacts : On(reads, c) \in SUBSET Readers
    BY DEF On, LiveOf
  <2> QED
    BY <2>1, LiveFinite, PinsFinite DEF IInv
<1>7. DOMAIN refs = Artifacts
  BY <1>6 DEF Objects
<1>8. Objects(reads, Pins, installed', refs')
  <2>1. CASE Uninstall(a)
    <3>1. /\ a \in installed /\ installed' = installed \ {a}
          /\ DOMAIN refs' = Artifacts /\ refs'[a] = refs[a] - 1
          /\ \A c \in Artifacts \ {a} : refs'[c] = refs[c]
      BY <1>7, <2>1 DEF Uninstall
    <3> QED
      BY <1>6, <3>1 DEF Objects
  <2>2. CASE Install(a)
    <3>1. /\ a \notin installed /\ installed' = installed \cup {a}
          /\ DOMAIN refs' = Artifacts /\ refs'[a] = refs[a] + 1
          /\ \A c \in Artifacts \ {a} : refs'[c] = refs[c]
      BY <1>7, <2>2 DEF Install
    <3> QED
      BY <1>6, <3>1 DEF Objects
  <2> QED
    BY <2>1, <2>2
<1> QED
  BY <1>1, <1>2, <1>3, <1>4, <1>5, <1>8 DEF IInv

(* Neither does a step that leaves the store alone.                         *)
LEMMA StutterStep ==
  ASSUME IInv, UNCHANGED vars
  PROVE  IInv'
<1>1. UNCHANGED <<now, closed, reads, attempts, pinnedBytes, replayBytes, installed, refs,
                  pc, request, served>>
  BY DEF vars, tableVars, readerVars
<1>2. Pins' = Pins
  BY <1>1, PinsStay
<1>3. ReadersOK' /\ DoneOK' /\ Shapes'
  BY <1>1 DEF IInv, ReadersOK, DoneOK, Shapes, Leases
<1> QED
  BY <1>1, <1>2, <1>3 DEF IInv

(* An empty store satisfies the invariant.                                  *)
LEMMA InitInv == Init => IInv
<1> SUFFICES ASSUME Init PROVE IInv
  OBVIOUS
<1>1. LiveOf(reads) = {} /\ Leases = {} /\ served = {}
  BY DEF Init, LiveOf, Leases
<1>2. ReadersOK /\ Shapes /\ DoneOK
  <2>1. ReadersOK
    <3>1. closed \in BOOLEAN
      BY Zenon DEF Init
    <3>4. now \in 0 .. Horizon /\ installed \subseteq Artifacts
      <4>1. now = 0 /\ installed = Artifacts
        BY DEF Init
      <4> QED
        BY <4>1, ReadAssumption
    <3>2. /\ pc \in [Readers -> {"idle", "missed", "pinned", "done"}]
          /\ \A r \in Readers : pc[r] # "pinned"
      BY DEF Init
    <3>3. request \in [Readers -> Requests]
      BY DEF Init
    <3> QED
      BY <3>1, <3>2, <3>3, <3>4 DEF ReadersOK
  <2>2. Shapes
    BY DEF Init, Shapes
  <2>3. DoneOK
    BY <1>1 DEF DoneOK
  <2> QED
    BY <2>1, <2>2, <2>3
<1>3. Tables(reads, attempts)
  BY <1>1 DEF Init, Tables
<1>4. Amounts(reads, pinnedBytes, replayBytes)
  <2>1. Total(PinOf(reads), LiveOf(reads)) = 0
    BY <1>1, TotalEmpty, Zenon
  <2>2. Cardinality(LiveOf(reads)) = 0
    BY <1>1, FS_EmptySet, Zenon
  <2> QED
    BY <2>1, <2>2, ReadAssumption DEF Init, Amounts
<1>5. Objects(reads, Pins, installed, refs)
  <2> SUFFICES ASSUME NEW a \in Artifacts
               PROVE  refs[a] = Cardinality(On(reads, a)) + Cardinality(Pins[a])
                                  + IF a \in installed THEN 1 ELSE 0
    BY DEF Init, Objects
  <2>1. On(reads, a) = {} /\ Pins[a] = {}
    BY <1>1 DEF On, Pins, Pinning, Init
  <2>2. Cardinality(On(reads, a)) = 0 /\ Cardinality(Pins[a]) = 0
    BY <2>1, FS_EmptySet, Zenon
  <2> QED
    BY <2>2 DEF Init
<1>6. History(reads, served, request) /\ Kept(reads, served, now)
  BY <1>1 DEF History, Kept
<1> QED
  BY <1>2, <1>3, <1>4, <1>5, <1>6 DEF IInv
-----------------------------------------------------------------------------
(* Every step of the readers, the store and its environment keeps the       *)
(* invariant.                                                               *)
THEOREM InductiveInvariant == Spec => []IInv
<1>1. IInv /\ [Next]_vars => IInv'
  <2> SUFFICES ASSUME IInv, [Next]_vars PROVE IInv'
    OBVIOUS
  <2>1. ASSUME NEW r \in Readers,
               LookupAttempt(r) \/ PinArtifact(r) \/ CommitRefused(r) \/ CommitLease(r)
        PROVE  IInv'
    BY <2>1, LookupAttemptStep, PinArtifactStep, CommitRefusedStep, CommitLeaseStep
  <2>2. ASSUME NEW l \in Readers, ReadContinuation(l)
        PROVE  IInv'
    BY <2>2, ContinuationReplayedStep, ContinuationAdvancedStep DEF ReadContinuation
  <2>3. ASSUME ContinuationRefused \/ Stats
        PROVE  IInv'
    BY <2>3, SweepStep DEF ContinuationRefused, Stats
  <2> QED
    BY <2>1, <2>2, <2>3, CloseStep, TickStep, PackageStep, StutterStep DEF Next
<1> QED
  BY <1>1, InitInv, PTL DEF Spec

(* The tables hold what prepareLocked makes; no counter of the store or of  *)
(* an object goes below zero, and a chunk lies within its artifact.         *)
THEOREM TypeCorrect == Spec => []TypeOK
<1>1. IInv => TypeOK
  <2> SUFFICES ASSUME IInv PROVE TypeOK
    OBVIOUS
  <2>1. reads \in [Readers -> Lease \cup {None}]
    <3>1. \A l \in Readers : reads[l] \in Lease \cup {None}
      BY DEF IInv, Tables, GoodLease, LiveOf
    <3> QED
      BY <3>1 DEF IInv, Shapes
  <2>2. \A l \in Leases :
          /\ reads[l].replay.offset <= reads[l].replay.next
          /\ reads[l].replay.next <= Bytes[reads[l].key.artifact]
          /\ reads[l].final <=> reads[l].replay.next = Bytes[reads[l].key.artifact]
    BY Abbreviations DEF IInv, Tables, GoodLease
  <2>3. pinnedBytes \in Nat /\ replayBytes \in Nat
    <3>1. Total(PinOf(reads), LiveOf(reads)) \in Nat /\ Cardinality(LiveOf(reads)) \in Nat
      BY LiveFinite, PinNat, TotalType DEF IInv
    <3> QED
      BY <3>1 DEF IInv, Amounts
  <2>4. refs \in [Artifacts -> Nat]
    <3>1. \A a \in Artifacts : On(reads, a) \in SUBSET Readers
      BY DEF On, LiveOf
    <3>2. \A a \in Artifacts : refs[a] \in Nat
      BY <3>1, LiveFinite, PinsFinite DEF IInv, Objects
    <3> QED
      BY <3>2 DEF IInv, Shapes
  <2>5. \A a \in served : a.id \in Readers /\ a.response \in Replay
    BY DEF IInv, History
  <2>6. attempts \in [Requests -> Readers \cup {None}]
    BY DEF IInv, Tables
  <2> QED
    BY <2>1, <2>2, <2>3, <2>4, <2>5, <2>6 DEF IInv, ReadersOK, TypeOK
<1> QED
  BY <1>1, InductiveInvariant, PTL

(* The two tables of ReadLeaseStore describe the same leases and its        *)
(* counters are what these add up to, within ReadLeaseLimits.               *)
THEOREM AccountingCorrect == Spec => []AccountingExact
<1>1. IInv => AccountingExact
  BY Abbreviations, Zenon DEF IInv, Tables, Amounts, AccountingExact
<1> QED
  BY <1>1, InductiveInvariant, PTL

(* Every pin readInitial takes is given back exactly once.                  *)
THEOREM ObjectRefsCorrect == Spec => []ObjectRefsExact
<1>1. IInv => ObjectRefsExact
  <2> SUFFICES ASSUME IInv, NEW a \in Artifacts
               PROVE  refs[a] = Cardinality({l \in Leases : reads[l].key.artifact = a})
                                  + Cardinality(Pinning(a))
                                  + IF a \in installed THEN 1 ELSE 0
    BY DEF ObjectRefsExact
  <2>1. On(reads, a) = {l \in Leases : reads[l].key.artifact = a} /\ Pins[a] = Pinning(a)
    BY Abbreviations, PinsFinite DEF On
  <2>2. refs[a] = Cardinality(On(reads, a)) + Cardinality(Pins[a])
                    + IF a \in installed THEN 1 ELSE 0
    BY DEF IInv, Objects
  <2> QED
    BY <2>1, <2>2
<1> QED
  BY <1>1, InductiveInvariant, PTL

(* The chunks of a lease tile its artifact from the initial offset on.      *)
THEOREM ChunksCorrect == Spec => []ChunksTile
<1>1. IInv => ChunksTile
  BY DEF IInv, History, ChunksTile
<1> QED
  BY <1>1, InductiveInvariant, PTL

(* A response is there to be replayed until the expires_at it names.        *)
THEOREM HeldCorrect == Spec => []HeldAsPromised
<1>1. IInv => HeldAsPromised
  <2> SUFFICES ASSUME IInv PROVE HeldAsPromised
    OBVIOUS
  <2>1. \A a \in served :
          ~closed /\ now < a.response.expires =>
            \/ a.id \in Leases /\ reads[a.id].replay = a.response
            \/ \E b \in served : b.id = a.id /\ b.response.offset > a.response.offset
    BY Abbreviations DEF IInv, Kept
  <2>2. \A l \in Leases : /\ reads[l].expiresAt <= reads[l].created + Absolute
                          /\ reads[l].replay.expires = reads[l].expiresAt
    BY Abbreviations DEF IInv, Tables, GoodLease
  <2> QED
    BY <2>1, <2>2 DEF HeldAsPromised
<1> QED
  BY <1>1, InductiveInvariant, PTL

===================================================================================
