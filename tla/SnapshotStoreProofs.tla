--------------------------- MODULE SnapshotStoreProofs ---------------------------
(***************************************************************************)
(* Proofs about SnapshotStore: for any number of loads, names, contents and *)
(* leases, the store's counters are what its users add up to, the quotas    *)
(* hold and a reservation is honoured at commit.                            *)
(***************************************************************************)
EXTENDS SnapshotStore, CountingProofs

(* A transaction holds declared files of the declared sizes, and has        *)
(* reserved what they add up to.                                            *)
FilesOK(t) ==
  /\ DOMAIN declared[t] \subseteq Names
  /\ DOMAIN artifacts[t] \subseteq DOMAIN declared[t]
  /\ \A n \in DOMAIN declared[t] : declared[t][n] \in Nat
  /\ \A n \in DOMAIN artifacts[t] :
       artifacts[t][n] \in Contents /\ Size[artifacts[t][n]] = declared[t][n]
  /\ pc[t] = "idle" => reserved[t] = 0 /\ DOMAIN artifacts[t] = {}
  /\ pc[t] = "manifest" => DOMAIN declared[t] = {Manifest}
  /\ Staging(t) => reserved[t] = Total(declared[t], DOMAIN declared[t])

TransactionsOK ==
  /\ DOMAIN declared = Loads
  /\ DOMAIN artifacts = Loads
  /\ \A t \in Loads : FilesOK(t)

(* A package LoadAll has begun to load and not put among its records.       *)
InFlight(t) ==
  \/ Staging(t)
  \/ pc[t] \in {"aborted", "rejected"}
  \/ pc[t] = "committed" /\ t \notin records

(* LoadAll loads one package after the other and drops none it committed.   *)
BatchOK ==
  /\ \A t \in records : pc[t] = "committed"
  /\ loadAll = "loading" => \A t, u \in Batch : InFlight(t) /\ InFlight(u) => t = u
  /\ loadAll # "loading" => \A t \in Batch : ~Staging(t)
  /\ loadAll = "failed" => \A t \in Batch : pc[t] = "committed" => t \in records
  /\ loadAll = "returned" => records = {}

(* ObjectsExact, with every committed load for its owned ones.              *)
Held == {t \in Loads : pc[t] = "committed"}
Live == {c \in Contents : refs[c] > 0}

RefsExact ==
  \A c \in Contents :
    refs[c] = Total([t \in Loads |-> Uses(t, c)], Held)
              + Cardinality({l \in Leases : lease[l] = c})
UsedExact == snapshotUsed = Total(Size, Live)

(* The inductive invariant.                                                 *)
IInv ==
  /\ TypeOK
  /\ TransactionsOK
  /\ BatchOK
  /\ ReservationsExact
  /\ QuotasHold
  /\ RefsExact
  /\ UsedExact
  /\ ReservationHonoured
Open == {t \in Loads : Staging(t)}
-----------------------------------------------------------------------------
(* Loads, leases, names and contents can be counted.                        *)
LEMMA FiniteParts ==
  /\ \A S \in SUBSET Loads : IsFiniteSet(S)
  /\ \A S \in SUBSET Leases : IsFiniteSet(S)
  /\ \A S \in SUBSET Names : IsFiniteSet(S)
  /\ \A S \in SUBSET Contents : IsFiniteSet(S)
BY StoreAssumption, FS_Subset

(* The reserved bytes are those of the open transactions.                   *)
LEMMA OpenBytes ==
  ASSUME IInv
  PROVE  /\ Open \subseteq Loads
         /\ IsFiniteSet(Open)
         /\ \A u \in Loads : reserved[u] \in Nat
         /\ Total(reserved, Open) \in Nat
         /\ stagingReserved = Total(reserved, Open)
         /\ snapshotReserved = Total(reserved, Open)
<1>1. Open \subseteq Loads
  BY DEF Open
<1>2. IsFiniteSet(Open)
  BY <1>1, FiniteParts
<1>3. \A u \in Loads : reserved[u] \in Nat
  BY DEF IInv, TypeOK
<1>4. Total(reserved, Open) \in Nat
  BY <1>1, <1>2, <1>3, TotalType
<1> QED
  BY <1>1, <1>2, <1>3, <1>4 DEF IInv, ReservationsExact, Open

(* What a step that adds size to the open reservations does to the counters. *)
LEMMA ReserveCounts ==
  ASSUME IInv, NEW t \in Loads, NEW size \in Nat, Reserve(t, size),
         Total(reserved', Open') = Total(reserved, Open) + size
  PROVE  /\ stagingReserved' \in Nat /\ snapshotReserved' \in Nat
         /\ snapshotUsed' \in Nat
         /\ reserved' \in [Loads -> Nat]
         /\ ReservationsExact'
         /\ QuotasHold'
<1> USE StoreAssumption
<1>1. /\ stagingReserved' = stagingReserved + size
      /\ snapshotReserved' = snapshotReserved + size
      /\ snapshotUsed' = snapshotUsed
      /\ reserved' = [reserved EXCEPT ![t] = @ + size]
      /\ stagingReserved + size <= StagingBytes
      /\ snapshotUsed + snapshotReserved + size <= SnapshotBytes
  BY DEF Reserve, Fits
<1>2. /\ stagingReserved \in Nat /\ snapshotReserved \in Nat /\ snapshotUsed \in Nat
      /\ reserved \in [Loads -> Nat]
  BY DEF IInv, TypeOK
<1>3. ReservationsExact'
  BY <1>1, OpenBytes DEF ReservationsExact, Open
<1> QED
  BY <1>1, <1>2, <1>3 DEF QuotasHold

(* What giving the reservation of t back does to them.                      *)
LEMMA GiveBackCounts ==
  ASSUME IInv, NEW t \in Loads,
         Staging(t) \/ reserved[t] = 0,
         ~Staging(t)', \A u \in Loads \ {t} : pc'[u] = pc[u],
         stagingReserved' = stagingReserved - reserved[t],
         snapshotReserved' = snapshotReserved - reserved[t],
         UNCHANGED reserved
  PROVE  /\ stagingReserved' \in Nat /\ snapshotReserved' \in Nat
         /\ reserved' \in [Loads -> Nat]
         /\ ReservationsExact'
         /\ stagingReserved' <= StagingBytes
<1> USE OpenBytes
<1>1. Open' = Open \ {t}
  BY DEF Open, Staging
<1>2. /\ Total(reserved, Open \ {t}) \in Nat
      /\ Total(reserved, Open \ {t}) = Total(reserved, Open) - reserved[t]
  <2>1. CASE t \in Open
    BY <2>1, TotalRemove
  <2>2. CASE t \notin Open
    <3>1. Total(reserved, Open \ {t}) = Total(reserved, Open)
      <4>1. Open \ {t} = Open
        BY <2>2
      <4> QED  BY <4>1, Zenon
    <3>2. reserved[t] = 0
      BY <2>2 DEF Open
    <3> QED
      BY <3>1, <3>2
  <2> QED
    BY <2>1, <2>2
<1>3. ReservationsExact'
  BY <1>1, <1>2 DEF ReservationsExact, Open
<1> QED
  BY <1>2, <1>3, StoreAssumption DEF IInv, QuotasHold, TypeOK

-----------------------------------------------------------------------------
(* How often a transaction refers to an object: never, exactly when it has  *)
(* no artifact with that content.                                           *)
LEMMA UsesCount ==
  ASSUME TransactionsOK, NEW t \in Loads, NEW c \in Contents
  PROVE  /\ Uses(t, c) \in Nat
         /\ Uses(t, c) > 0 <=> \E n \in DOMAIN artifacts[t] : artifacts[t][n] = c
<1> DEFINE S == {n \in DOMAIN artifacts[t] : artifacts[t][n] = c}
<1>1. S \subseteq Names
  BY DEF TransactionsOK, FilesOK
<1>2. IsFiniteSet(S)
  BY <1>1, FiniteParts
<1>3. Cardinality(S) \in Nat /\ (Cardinality(S) = 0 <=> S = {})
  BY <1>2, FS_CardinalityType, FS_EmptySet
<1>4. S = {} <=> ~\E n \in DOMAIN artifacts[t] : artifacts[t][n] = c
  OBVIOUS
<1>5. Uses(t, c) = Cardinality(S)
  BY DEF Uses
<1> HIDE DEF S
<1> QED
  BY <1>3, <1>4, <1>5

(* The declared sizes of a load under way cover what its commit checks, and *)
(* that covers what it stores: a content with several names is stored once. *)
LEMMA CommitFits ==
  ASSUME IInv, NEW t \in Loads, Staging(t)
  PROVE  /\ StoredBytes(t) \in Nat
         /\ CheckedBytes(t) \in Nat
         /\ StoredBytes(t) <= CheckedBytes(t)
         /\ CheckedBytes(t) <= reserved[t]
         /\ reserved[t] <= snapshotReserved
<1> DEFINE size == [n \in NewNames(t) |-> Size[artifacts[t][n]]]
           new == {artifacts[t][n] : n \in NewNames(t)}
           name == [c \in new |-> CHOOSE n \in NewNames(t) : artifacts[t][n] = c]
<1> USE StoreAssumption
<1>f. FilesOK(t)
  BY DEF IInv, TransactionsOK
<1>1. /\ NewNames(t) \subseteq DOMAIN declared[t]
      /\ DOMAIN declared[t] \subseteq Names
      /\ \A n \in NewNames(t) : artifacts[t][n] \in Contents
                                 /\ Size[artifacts[t][n]] = declared[t][n]
      /\ \A n \in DOMAIN declared[t] : declared[t][n] \in Nat
  BY <1>f DEF FilesOK, NewNames
<1>2. /\ IsFiniteSet(NewNames(t)) /\ IsFiniteSet(DOMAIN declared[t])
      /\ new \subseteq Contents /\ IsFiniteSet(new)
  BY <1>1, FiniteParts
<1>3. \A n \in NewNames(t) : size[n] \in Nat /\ size[n] = declared[t][n]
  BY <1>1
<1>4. \A c \in new : Size[c] \in Nat
  BY <1>2
<1>5. /\ name \in [new -> NewNames(t)]
      /\ \A c \in new : artifacts[t][name[c]] = c
  OBVIOUS
<1>6. /\ \A c, d \in new : name[c] = name[d] => c = d
      /\ \A c \in new : Size[c] <= size[name[c]]
  BY <1>4, <1>5
<1>7. /\ StoredBytes(t) = Total(Size, new)
      /\ CheckedBytes(t) = Total(size, NewNames(t))
  BY DEF StoredBytes, CheckedBytes
<1> HIDE DEF size, new, name
<1>8. Total(Size, new) \in Nat /\ Total(size, NewNames(t)) \in Nat
  BY <1>2, <1>3, <1>4, TotalType
<1>9. Total(Size, new) <= Total(size, NewNames(t))
  BY <1>2, <1>3, <1>4, <1>5, <1>6, TotalInjection
<1>10. Total(size, NewNames(t)) = Total(declared[t], NewNames(t))
  BY <1>3, TotalSame
<1>11. Total(declared[t], NewNames(t)) <= Total(declared[t], DOMAIN declared[t])
  BY <1>1, <1>2, TotalSubset
<1>12. reserved[t] = Total(declared[t], DOMAIN declared[t])
  BY <1>f DEF FilesOK
<1>13. reserved[t] <= snapshotReserved
  <2>1. t \in Open
    BY DEF Open
  <2>2. /\ Total(reserved, Open \ {t}) \in Nat
        /\ Total(reserved, Open) = Total(reserved, Open \ {t}) + reserved[t]
    BY <2>1, OpenBytes, TotalRemove
  <2>3. snapshotReserved = Total(reserved, Open) /\ reserved[t] \in Nat
    BY OpenBytes
  <2> QED
    BY <2>2, <2>3
<1> QED
  BY <1>7, <1>8, <1>9, <1>10, <1>11, <1>12, <1>13

(* A reservation is honoured: commit finds room for what was reserved.      *)
LEMMA CommitAccepted ==
  ASSUME IInv, NEW t \in Loads, Staging(t)
  PROVE  snapshotUsed + CheckedBytes(t) <= SnapshotBytes
<1>1. /\ snapshotUsed \in Nat /\ snapshotReserved \in Nat /\ reserved[t] \in Nat
      /\ snapshotUsed + snapshotReserved <= SnapshotBytes
  BY DEF IInv, TypeOK, QuotasHold
<1>2. CheckedBytes(t) \in Nat /\ CheckedBytes(t) <= reserved[t] /\ reserved[t] <= snapshotReserved
  BY CommitFits
<1> QED
  BY <1>1, <1>2, StoreAssumption

-----------------------------------------------------------------------------
Shares(c) == [t \in Loads |-> Uses(t, c)]
LeasesOn(c) == {l \in Leases : lease[l] = c}

(* The references to an object, from the snapshots that are held and from   *)
(* the leases.                                                              *)
LEMMA RefsParts ==
  ASSUME IInv, NEW c \in Contents
  PROVE  /\ Held \subseteq Loads /\ IsFiniteSet(Held)
         /\ \A t \in Loads : Shares(c)[t] = Uses(t, c) /\ Shares(c)[t] \in Nat
         /\ IsFiniteSet(LeasesOn(c))
         /\ Total(Shares(c), Held) \in Nat
         /\ Cardinality(LeasesOn(c)) \in Nat
         /\ refs[c] = Total(Shares(c), Held) + Cardinality(LeasesOn(c))
<1>1. Held \subseteq Loads /\ IsFiniteSet(Held)
  BY FiniteParts DEF Held
<1>2. \A t \in Loads : Shares(c)[t] = Uses(t, c) /\ Shares(c)[t] \in Nat
  BY UsesCount DEF Shares, IInv
<1>3. IsFiniteSet(LeasesOn(c))
  BY FiniteParts DEF LeasesOn
<1>4. Total(Shares(c), Held) \in Nat
  BY <1>1, <1>2, TotalType
<1>5. Cardinality(LeasesOn(c)) \in Nat
  BY <1>3, FS_CardinalityType
<1>6. refs[c] = Total(Shares(c), Held) + Cardinality(LeasesOn(c))
  BY DEF IInv, RefsExact, Shares, LeasesOn
<1> QED
  BY <1>1, <1>2, <1>3, <1>4, <1>5, <1>6

(* RefsExact in the next state, from what became of the users of c.         *)
LEMMA RefsNext ==
  ASSUME \A c \in Contents :
           refs'[c] = Total(Shares(c)', Held') + Cardinality(LeasesOn(c)')
  PROVE  RefsExact'
BY DEF RefsExact, Shares, LeasesOn

(* A held snapshot has as many references to an object as artifacts with    *)
(* its content, so releasing it never goes below zero.                      *)
LEMMA HeldCovers ==
  ASSUME IInv, NEW t \in Held, NEW c \in Contents
  PROVE  /\ Uses(t, c) \in Nat
         /\ Uses(t, c) <= refs[c]
         /\ Total(Shares(c), Held \ {t}) \in Nat
         /\ Total(Shares(c), Held) = Total(Shares(c), Held \ {t}) + Uses(t, c)
<1>1. t \in Loads
  BY DEF Held
<1>2. /\ Total(Shares(c), Held \ {t}) \in Nat
      /\ Total(Shares(c), Held) = Total(Shares(c), Held \ {t}) + Shares(c)[t]
  BY RefsParts, TotalRemove
<1>3. Uses(t, c) \in Nat /\ Shares(c)[t] = Uses(t, c)
  BY <1>1, RefsParts
<1> QED
  BY <1>2, <1>3, RefsParts

(* The users of the objects stay the same when the committed loads do.      *)
LEMMA RefsFrame ==
  ASSUME IInv, UNCHANGED <<refs, lease>>, Held' = Held,
         \A t \in Held : artifacts'[t] = artifacts[t]
  PROVE  RefsExact'
<1> SUFFICES ASSUME NEW c \in Contents
             PROVE  refs'[c] = Total(Shares(c)', Held') + Cardinality(LeasesOn(c)')
  BY RefsNext
<1>1. \A t \in Held : Shares(c)'[t] = Shares(c)[t]
  BY RefsParts DEF Shares, Uses
<1>2. Total(Shares(c)', Held) = Total(Shares(c), Held)
  BY <1>1, TotalSame
<1>3. LeasesOn(c)' = LeasesOn(c)
  BY DEF LeasesOn
<1> QED
  BY <1>2, <1>3, RefsParts

(* Commit adds one reference for every artifact.                            *)
LEMMA RefsCommit ==
  ASSUME IInv, NEW t \in Loads, t \notin Held, Held' = Held \cup {t},
         UNCHANGED <<artifacts, lease>>,
         refs' = [c \in Contents |-> refs[c] + Uses(t, c)]
  PROVE  RefsExact'
<1> SUFFICES ASSUME NEW c \in Contents
             PROVE  refs'[c] = Total(Shares(c)', Held') + Cardinality(LeasesOn(c)')
  BY RefsNext
<1>1. Shares(c)' = Shares(c) /\ LeasesOn(c)' = LeasesOn(c)
  BY DEF Shares, Uses, LeasesOn
<1>2. Total(Shares(c), Held \cup {t}) = Total(Shares(c), Held) + Shares(c)[t]
  BY RefsParts, TotalAdd
<1>3. Shares(c)[t] = Uses(t, c) /\ Uses(t, c) \in Nat
  BY RefsParts
<1>4. Total(Shares(c)', Held') = Total(Shares(c), Held) + Uses(t, c)
  BY <1>1, <1>2, <1>3, Zenon
<1> QED
  BY <1>1, <1>3, <1>4, RefsParts

(* Releasing a snapshot takes these references back.                        *)
LEMMA RefsRelease ==
  ASSUME IInv, NEW t \in Held, Held' = Held \ {t},
         UNCHANGED <<artifacts, lease>>,
         refs' = [c \in Contents |-> Drop(refs[c], Uses(t, c))]
  PROVE  RefsExact'
<1> SUFFICES ASSUME NEW c \in Contents
             PROVE  refs'[c] = Total(Shares(c)', Held') + Cardinality(LeasesOn(c)')
  BY RefsNext
<1>1. Shares(c)' = Shares(c) /\ LeasesOn(c)' = LeasesOn(c)
  BY DEF Shares, Uses, LeasesOn
<1>2. Total(Shares(c)', Held') = Total(Shares(c), Held \ {t})
  BY <1>1, Zenon
<1>3. refs'[c] = refs[c] - Uses(t, c)
  BY HeldCovers, RefsParts DEF Drop
<1> QED
  BY <1>1, <1>2, <1>3, HeldCovers, RefsParts

(* snapshotUsed after objects whose counts went down to zero are freed.     *)
LEMMA UsedFreed ==
  ASSUME IInv, NEW newRefs \in [Contents -> Nat],
         \A c \in Contents : newRefs[c] <= refs[c],
         refs' = newRefs, snapshotUsed' = snapshotUsed - FreedBytes(newRefs)
  PROVE  /\ UsedExact'
         /\ snapshotUsed' \in Nat
         /\ snapshotUsed' <= snapshotUsed
<1> DEFINE freed == {c \in Contents : refs[c] > 0 /\ newRefs[c] = 0}
<1>1. /\ refs \in [Contents -> Nat]
      /\ \A c \in Contents : Size[c] \in Nat
  BY StoreAssumption DEF IInv, TypeOK
<1>2. /\ Live' = Live \ freed
      /\ freed \subseteq Live /\ Live \subseteq Contents
  BY <1>1 DEF Live
<1>3. FreedBytes(newRefs) = Total(Size, freed)
  BY DEF FreedBytes
<1> HIDE DEF freed
<1>4. IsFiniteSet(Live)
  BY <1>2, FiniteParts
<1>5. /\ Total(Size, freed) \in Nat
      /\ Total(Size, Live \ freed) \in Nat
      /\ Total(Size, Live \ freed) = Total(Size, Live) - Total(Size, freed)
      /\ Total(Size, freed) <= Total(Size, Live)
  <2>1. \A c \in Live : Size[c] \in Nat
    BY <1>1, <1>2
  <2>2. freed \subseteq Live
    BY <1>2
  <2>3. \A S : S \subseteq Live =>
          /\ Total(Size, S) \in Nat
          /\ Total(Size, Live \ S) \in Nat
          /\ Total(Size, Live \ S) = Total(Size, Live) - Total(Size, S)
          /\ Total(Size, S) <= Total(Size, Live)
    BY <1>4, <2>1, TotalSubset, Zenon
  <2> QED
    BY <2>2, <2>3, Zenon
<1>6. snapshotUsed = Total(Size, Live)
  BY DEF IInv, UsedExact
<1>7. snapshotUsed' = Total(Size, Live \ freed)
  BY <1>3, <1>5, <1>6
<1>8. UsedExact'
  BY <1>2, <1>7 DEF UsedExact
<1>9. snapshotUsed \in Nat
  BY DEF IInv, TypeOK
<1> QED
  BY <1>3, <1>5, <1>7, <1>8, <1>9

(* Commit is charged for the objects it is the first to store.              *)
LEMMA UsedStored ==
  ASSUME IInv, NEW t \in Loads, Staging(t),
         refs' = [c \in Contents |-> refs[c] + Uses(t, c)],
         snapshotUsed' = snapshotUsed + StoredBytes(t)
  PROVE  UsedExact'
<1> DEFINE new == {artifacts[t][n] : n \in NewNames(t)}
<1> USE StoreAssumption
<1>1. /\ refs \in [Contents -> Nat]
      /\ \A c \in Contents : Size[c] \in Nat
      /\ \A n \in DOMAIN artifacts[t] : artifacts[t][n] \in Contents
  BY DEF IInv, TypeOK, TransactionsOK, FilesOK
<1>2. \A c \in Contents : c \in new <=> refs[c] = 0 /\ Uses(t, c) > 0
  BY <1>1, UsesCount DEF NewNames, IInv
<1>3. new \subseteq Contents
  BY <1>1 DEF NewNames
<1>4. \A c \in Contents : refs'[c] > 0 <=> refs[c] > 0 \/ c \in new
  <2> SUFFICES ASSUME NEW c \in Contents
               PROVE  refs'[c] > 0 <=> refs[c] > 0 \/ c \in new
    OBVIOUS
  <2>1. Uses(t, c) \in Nat /\ refs[c] \in Nat /\ refs'[c] = refs[c] + Uses(t, c)
    BY <1>1, UsesCount DEF IInv
  <2> HIDE DEF new
  <2> QED
    BY <2>1, <1>2
<1>5. StoredBytes(t) = Total(Size, new)
  BY DEF StoredBytes
<1>6. Live \cap new = {}
  BY <1>1, <1>2 DEF Live
<1> HIDE DEF new
<1>7. Live' = Live \cup new
  BY <1>3, <1>4 DEF Live
<1>8. IsFiniteSet(Live) /\ IsFiniteSet(new)
  BY <1>3, FiniteParts DEF Live
<1>9. Total(Size, Live \cup new) = Total(Size, Live) + Total(Size, new)
  BY <1>1, <1>3, <1>6, <1>8, TotalSplit DEF Live
<1> QED
  BY <1>5, <1>7, <1>9 DEF UsedExact, IInv

-----------------------------------------------------------------------------
(* One lemma per action, or per thing several actions do.                   *)

(* The part of TypeOK that no sum is involved in.                           *)
LEMMA TypeNext ==
  ASSUME stagingReserved' \in Nat, snapshotReserved' \in Nat, snapshotUsed' \in Nat,
         refs' \in [Contents -> Nat],
         pc' \in [Loads -> {"idle", "manifest", "staging", "aborted", "committed",
                            "rejected", "released"}],
         reserved' \in [Loads -> Nat],
         TransactionsOK',
         lease' \in [Leases -> Contents \cup {None}],
         loadAll' \in {"loading", "failed", "returned"},
         records' \subseteq Batch
  PROVE  TypeOK'
BY DEF TypeOK, TransactionsOK, FilesOK

(* An empty store satisfies the invariant.                                  *)
LEMMA InitInv == Init => IInv
<1> SUFFICES ASSUME Init PROVE IInv
  OBVIOUS
<1> USE StoreAssumption
<1>1. TransactionsOK
  BY DEF Init, TransactionsOK, FilesOK, Staging
<1>2. TypeOK
  BY <1>1 DEF Init, TypeOK, TransactionsOK, FilesOK
<1>3. BatchOK
  BY DEF Init, BatchOK, InFlight, Staging
<1>4. ReservationsExact
  <2>1. {t \in Loads : Staging(t)} = {}
    BY DEF Init, Staging
  <2> QED
    BY <2>1, TotalEmpty DEF Init, ReservationsExact
<1>5. QuotasHold
  BY DEF Init, QuotasHold
<1>6. RefsExact
  <2> SUFFICES ASSUME NEW c \in Contents
               PROVE  refs[c] = Total(Shares(c), Held) + Cardinality(LeasesOn(c))
    BY DEF RefsExact, Shares, LeasesOn
  <2>1. Held = {} /\ LeasesOn(c) = {}
    BY DEF Init, Held, LeasesOn
  <2>2. Total(Shares(c), Held) = 0 /\ Cardinality(LeasesOn(c)) = 0
    BY <2>1, TotalEmpty, FS_EmptySet, Zenon
  <2> QED
    BY <2>2 DEF Init
<1>7. UsedExact
  <2>1. Live = {}
    BY DEF Init, Live
  <2> QED
    BY <2>1, TotalEmpty DEF Init, UsedExact
<1>8. ReservationHonoured
  BY DEF Init, ReservationHonoured
<1> QED
  BY <1>1, <1>2, <1>3, <1>4, <1>5, <1>6, <1>7, <1>8 DEF IInv

(* Abort returns the reservation, with what was staged and with nothing     *)
(* staged yet.                                                              *)
LEMMA AbortStep ==
  ASSUME IInv, NEW t \in Loads, Abort(t),
         Staging(t) \/ (pc[t] = "idle" /\ Called(t)),
         UNCHANGED <<reserved, declared, lease, loaderVars>>
  PROVE  IInv'
<1>1. /\ pc' = [pc EXCEPT ![t] = "aborted"]
      /\ stagingReserved' = stagingReserved - reserved[t]
      /\ snapshotReserved' = snapshotReserved - reserved[t]
      /\ artifacts' = [artifacts EXCEPT ![t] = <<>>]
      /\ snapshotUsed' = snapshotUsed /\ refs' = refs
      /\ reserved' = reserved /\ declared' = declared /\ lease' = lease
      /\ loadAll' = loadAll /\ records' = records
  BY DEF Abort, loaderVars
<1>t. TypeOK /\ TransactionsOK /\ BatchOK /\ QuotasHold /\ ReservationHonoured
  BY DEF IInv
<1>2. \A u \in Loads \ {t} : pc'[u] = pc[u] /\ artifacts'[u] = artifacts[u]
  BY <1>1, <1>t DEF TypeOK, TransactionsOK
<1>3. pc'[t] = "aborted" /\ artifacts'[t] = <<>>
  BY <1>1, <1>t DEF TypeOK, TransactionsOK
<1>4. pc[t] # "committed" /\ (Staging(t) \/ reserved[t] = 0)
  BY <1>t DEF Staging, TransactionsOK, FilesOK
<1>5. /\ stagingReserved' \in Nat /\ snapshotReserved' \in Nat
      /\ reserved' \in [Loads -> Nat]
      /\ ReservationsExact'
      /\ stagingReserved' <= StagingBytes
  BY <1>1, <1>2, <1>3, <1>4, GiveBackCounts DEF Staging
<1>6. TransactionsOK'
  <2> SUFFICES ASSUME NEW u \in Loads PROVE FilesOK(u)'
    BY <1>1, <1>t DEF TransactionsOK
  <2>1. FilesOK(u)
    BY <1>t DEF TransactionsOK
  <2>2. CASE u = t
    BY <1>1, <1>3, <2>1, <2>2 DEF FilesOK, Staging
  <2>3. CASE u # t
    BY <1>1, <1>2, <2>1, <2>3 DEF FilesOK, Staging
  <2> QED
    BY <2>2, <2>3
<1>7. TypeOK'
  BY <1>1, <1>5, <1>6, <1>t, TypeNext DEF TypeOK
<1>8. BatchOK'
  BY <1>1, <1>2, <1>3, <1>4, <1>t, StoreAssumption DEF BatchOK, InFlight, Staging, Called, TypeOK
<1>9. QuotasHold'
  BY <1>1, <1>5, <1>t, StoreAssumption DEF QuotasHold, TypeOK
<1>10. Held' = Held /\ t \notin Held
  BY <1>2, <1>3, <1>4 DEF Held
<1>11. RefsExact'
  BY <1>1, <1>2, <1>10, RefsFrame DEF Held
<1>12. UsedExact'
  BY <1>1 DEF IInv, UsedExact, Live
<1>13. ReservationHonoured'
  BY <1>2, <1>3, <1>t DEF ReservationHonoured
<1> QED
  BY <1>5, <1>6, <1>7, <1>8, <1>9, <1>11, <1>12, <1>13 DEF IInv

(* A transaction reserves the bytes of its manifest, or is refused.         *)
LEMMA OpenManifestStep ==
  ASSUME IInv, NEW t \in Loads, OpenManifest(t)
  PROVE  IInv'
<1>1. CASE Abort(t) /\ UNCHANGED <<reserved, declared>>
  BY <1>1, AbortStep DEF OpenManifest
<1>2. CASE \E size \in FileSizes :
             /\ Reserve(t, size)
             /\ declared' = [declared EXCEPT ![t] = [n \in {Manifest} |-> size]]
             /\ pc' = [pc EXCEPT ![t] = "manifest"]
             /\ UNCHANGED artifacts
  <2>1. PICK size \in FileSizes :
             /\ Reserve(t, size)
             /\ declared' = [declared EXCEPT ![t] = [n \in {Manifest} |-> size]]
             /\ pc' = [pc EXCEPT ![t] = "manifest"]
             /\ UNCHANGED artifacts
    BY <1>2
  <2>2. size \in Nat
    BY StoreAssumption DEF FileSizes
  <2>3. /\ pc[t] = "idle" /\ Called(t)
        /\ lease' = lease /\ loadAll' = loadAll /\ records' = records
        /\ reserved' = [reserved EXCEPT ![t] = @ + size]
        /\ snapshotUsed' = snapshotUsed /\ refs' = refs
        /\ artifacts' = artifacts
    BY <2>1 DEF OpenManifest, Reserve, loaderVars
  <2>t. TypeOK /\ TransactionsOK /\ BatchOK /\ QuotasHold /\ ReservationHonoured
    BY DEF IInv
  <2>4. /\ pc'[t] = "manifest" /\ declared'[t] = [n \in {Manifest} |-> size]
        /\ reserved[t] = 0 /\ reserved'[t] = size
        /\ \A u \in Loads \ {t} : /\ pc'[u] = pc[u] /\ declared'[u] = declared[u]
                                   /\ reserved'[u] = reserved[u]
    BY <2>1, <2>2, <2>3, <2>t DEF TypeOK, TransactionsOK, FilesOK
  <2>5. Total(reserved', Open') = Total(reserved, Open) + size
    <3>1. Open' = Open \cup {t} /\ t \notin Open
      BY <2>3, <2>4 DEF Open, Staging
    <3>2. \A u \in Open \cup {t} : reserved'[u] \in Nat
      BY <2>2, <2>4, OpenBytes
    <3>3. Total(reserved', Open \cup {t}) = Total(reserved', Open) + reserved'[t]
      BY <3>1, <3>2, OpenBytes, TotalAdd
    <3>4. Total(reserved', Open) = Total(reserved, Open)
      BY <3>1, <2>4, OpenBytes, TotalSame
    <3> QED
      BY <3>1, <3>3, <3>4, <2>4
  <2>6. /\ stagingReserved' \in Nat /\ snapshotReserved' \in Nat
        /\ snapshotUsed' \in Nat
        /\ reserved' \in [Loads -> Nat]
        /\ ReservationsExact'
        /\ QuotasHold'
    BY <2>1, <2>2, <2>5, ReserveCounts
  <2>7. TransactionsOK'
    <3> SUFFICES ASSUME NEW u \in Loads PROVE FilesOK(u)'
      BY <2>1, <2>3, <2>t DEF TransactionsOK
    <3>1. FilesOK(u)
      BY <2>t DEF TransactionsOK
    <3>2. CASE u = t
      <4>1. DOMAIN declared'[t] = {Manifest} /\ declared'[t][Manifest] = size
        BY <2>4
      <4>2. Total(declared'[t], {Manifest}) = size
        BY <4>1, <2>2, TotalSingleton
      <4>3. DOMAIN artifacts[t] = {}
        BY <3>1, <3>2, <2>3 DEF FilesOK
      <4> QED
        BY <4>1, <4>2, <4>3, <2>2, <2>3, <2>4, <3>2, StoreAssumption DEF FilesOK, Staging
    <3>3. CASE u # t
      BY <2>3, <2>4, <3>1, <3>3 DEF FilesOK, Staging
    <3> QED
      BY <3>2, <3>3
  <2>8. TypeOK'
    BY <2>1, <2>3, <2>6, <2>7, <2>t, TypeNext DEF TypeOK
  <2>9. BatchOK'
    BY <2>3, <2>4, <2>t, StoreAssumption DEF BatchOK, InFlight, Staging, Called, TypeOK
  <2>10. Held' = Held
    BY <2>3, <2>4 DEF Held
  <2>11. RefsExact'
    BY <2>3, <2>10, RefsFrame
  <2>12. UsedExact'
    BY <2>3 DEF IInv, UsedExact, Live
  <2>13. ReservationHonoured'
    BY <2>4, <2>t DEF ReservationHonoured
  <2> QED
    BY <2>6, <2>7, <2>8, <2>9, <2>11, <2>12, <2>13 DEF IInv
<1> QED
  BY <1>1, <1>2 DEF OpenManifest

(* Staging stays within the reservation, or aborts.                         *)
LEMMA StageReservedStep ==
  ASSUME IInv, NEW t \in Loads, StageReserved(t)
  PROVE  IInv'
<1>1. CASE Abort(t)
  BY <1>1, AbortStep DEF StageReserved
<1>2. CASE ~Abort(t)
  <2>1. PICK n \in DOMAIN declared[t] \ DOMAIN artifacts[t], c \in Contents :
          /\ Size[c] = declared[t][n]
          /\ artifacts' = [artifacts EXCEPT ![t] =
                             [m \in DOMAIN @ \cup {n} |-> IF m = n THEN c ELSE @[m]]]
          /\ UNCHANGED <<storeVars, pc>>
    BY <1>2 DEF StageReserved
  <2>2. /\ Staging(t)
        /\ UNCHANGED <<storeVars, pc, reserved, declared, lease, loaderVars>>
    BY <2>1 DEF StageReserved
  <2>t. TypeOK /\ TransactionsOK /\ BatchOK /\ QuotasHold /\ ReservationHonoured
    BY DEF IInv
  <2>3. /\ DOMAIN artifacts' = Loads
        /\ DOMAIN artifacts'[t] = DOMAIN artifacts[t] \cup {n}
        /\ \A m \in DOMAIN artifacts'[t] :
             artifacts'[t][m] = IF m = n THEN c ELSE artifacts[t][m]
        /\ \A u \in Loads \ {t} : artifacts'[u] = artifacts[u]
    BY <2>1, <2>t DEF TransactionsOK
  <2>4. TransactionsOK'
    <3> SUFFICES ASSUME NEW u \in Loads PROVE FilesOK(u)'
      BY <2>2, <2>3, <2>t DEF TransactionsOK
    <3>1. FilesOK(u)
      BY <2>t DEF TransactionsOK
    <3>2. CASE u = t
      BY <2>1, <2>2, <2>3, <3>1, <3>2 DEF FilesOK, Staging
    <3>3. CASE u # t
      BY <2>2, <2>3, <3>1, <3>3 DEF FilesOK, Staging
    <3> QED
      BY <3>2, <3>3
  <2>5. TypeOK'
    BY <2>2, <2>4, <2>t, TypeNext DEF TypeOK, storeVars, loaderVars
  <2>6. BatchOK' /\ ReservationsExact' /\ QuotasHold' /\ UsedExact' /\ ReservationHonoured'
    BY <2>2 DEF IInv, BatchOK, InFlight, ReservationsExact, QuotasHold, UsedExact, Live,
                ReservationHonoured, Staging, storeVars, loaderVars
  <2>7. Held' = Held /\ t \notin Held
    BY <2>2 DEF Held, Staging
  <2>8. RefsExact'
    BY <2>2, <2>3, <2>7, RefsFrame DEF Held, storeVars
  <2> QED
    BY <2>4, <2>5, <2>6, <2>8 DEF IInv
<1> QED
  BY <1>1, <1>2

(* The reservation is extended by the declared bytes of the artifacts, or   *)
(* the load is aborted.                                                     *)
LEMMA OpenArtifactsStep ==
  ASSUME IInv, NEW t \in Loads, OpenArtifacts(t)
  PROVE  IInv'
<1>0. Staging(t) /\ pc[t] = "manifest" /\ UNCHANGED <<lease, loaderVars>>
  BY DEF OpenArtifacts, Staging
<1>1. CASE Abort(t) /\ UNCHANGED <<reserved, declared>>
  BY <1>0, <1>1, AbortStep
<1>2. CASE \E S \in SUBSET (Names \ {Manifest}) : \E sizes \in [S -> FileSizes] :
             /\ Reserve(t, Total(sizes, S))
             /\ declared' = [declared EXCEPT ![t] =
                               [n \in S \cup {Manifest} |->
                                  IF n \in S THEN sizes[n] ELSE @[Manifest]]]
             /\ pc' = [pc EXCEPT ![t] = "staging"]
             /\ UNCHANGED artifacts
  <2>0. PICK S \in SUBSET (Names \ {Manifest}) : \E sizes \in [S -> FileSizes] :
             /\ Reserve(t, Total(sizes, S))
             /\ declared' = [declared EXCEPT ![t] =
                               [n \in S \cup {Manifest} |->
                                  IF n \in S THEN sizes[n] ELSE @[Manifest]]]
             /\ pc' = [pc EXCEPT ![t] = "staging"]
             /\ UNCHANGED artifacts
    BY <1>2
  <2>1. PICK sizes \in [S -> FileSizes] :
             /\ Reserve(t, Total(sizes, S))
             /\ declared' = [declared EXCEPT ![t] =
                               [n \in S \cup {Manifest} |->
                                  IF n \in S THEN sizes[n] ELSE @[Manifest]]]
             /\ pc' = [pc EXCEPT ![t] = "staging"]
             /\ UNCHANGED artifacts
    BY <2>0
  <2>2. /\ IsFiniteSet(S)
        /\ \A n \in S : sizes[n] \in Nat
    BY FiniteParts, StoreAssumption DEF FileSizes
  <2> DEFINE size == Total(sizes, S)
  <2>3. size \in Nat
    BY <2>2, TotalType
  <2>4. /\ lease' = lease /\ loadAll' = loadAll /\ records' = records
        /\ reserved' = [reserved EXCEPT ![t] = @ + size]
        /\ snapshotUsed' = snapshotUsed /\ refs' = refs
        /\ artifacts' = artifacts
    BY <2>1, <1>0 DEF Reserve, loaderVars
  <2>t. TypeOK /\ TransactionsOK /\ BatchOK /\ QuotasHold /\ ReservationHonoured
    BY DEF IInv
  <2>f. FilesOK(t)
    BY <2>t DEF TransactionsOK
  <2>5. /\ pc'[t] = "staging"
        /\ DOMAIN declared'[t] = S \cup {Manifest}
        /\ \A n \in S : declared'[t][n] = sizes[n]
        /\ declared'[t][Manifest] = declared[t][Manifest]
        /\ \A u \in Loads \ {t} : pc'[u] = pc[u] /\ declared'[u] = declared[u]
    BY <2>1, <2>t DEF TypeOK, TransactionsOK
  <2>r. /\ reserved[t] \in Nat
        /\ reserved'[t] = reserved[t] + size
        /\ \A u \in Loads \ {t} : reserved'[u] = reserved[u]
    BY <2>4, <2>t DEF TypeOK
  <2> HIDE DEF size
  <2>6. Total(reserved', Open') = Total(reserved, Open) + size
    <3>1. Open' = Open /\ t \in Open
      BY <1>0, <2>5 DEF Open, Staging
    <3>2. Total(reserved', Open) = Total(reserved, Open) - reserved[t] + reserved'[t]
      BY <3>1, <2>3, <2>r, OpenBytes, TotalChange
    <3>3. Total(reserved, Open) \in Nat
      BY OpenBytes
    <3> QED
      BY <3>1, <3>2, <3>3, <2>3, <2>r
  <2>7. Reserve(t, size)
    BY <2>1 DEF size
  <2>8. /\ stagingReserved' \in Nat /\ snapshotReserved' \in Nat
        /\ snapshotUsed' \in Nat
        /\ reserved' \in [Loads -> Nat]
        /\ ReservationsExact'
        /\ QuotasHold'
    BY <2>3, <2>6, <2>7, ReserveCounts
  <2>9. reserved'[t] = Total(declared'[t], S \cup {Manifest})
    <3>1. reserved[t] = declared[t][Manifest] /\ declared[t][Manifest] \in Nat
      <4>1. /\ DOMAIN declared[t] = {Manifest}
            /\ reserved[t] = Total(declared[t], DOMAIN declared[t])
            /\ declared[t][Manifest] \in Nat
        BY <1>0, <2>f DEF FilesOK
      <4> QED
        BY <4>1, TotalSingleton
    <3>2. Total(declared'[t], S) = size
      BY <2>5, TotalSame DEF size
    <3>3. \A n \in S \cup {Manifest} : declared'[t][n] \in Nat
      BY <2>2, <2>5, <3>1
    <3>4. Total(declared'[t], S \cup {Manifest})
            = Total(declared'[t], S) + declared'[t][Manifest]
      BY <2>2, <3>3, TotalAdd
    <3> QED
      BY <2>3, <2>5, <2>r, <3>1, <3>2, <3>4
  <2>10. FilesOK(t)'
    <3>1. /\ DOMAIN artifacts'[t] \subseteq {Manifest}
          /\ \A n \in DOMAIN artifacts'[t] : artifacts'[t][n] \in Contents
                                /\ Size[artifacts'[t][n]] = declared[t][n]
          /\ declared[t][Manifest] \in Nat
      BY <1>0, <2>4, <2>f DEF FilesOK
    <3> QED
      BY <2>2, <2>5, <2>9, <3>1, StoreAssumption DEF FilesOK, Staging
  <2>11. TransactionsOK'
    <3> SUFFICES ASSUME NEW u \in Loads, u # t PROVE FilesOK(u)'
      BY <2>1, <2>4, <2>10, <2>t DEF TransactionsOK
    <3> QED
      BY <2>4, <2>5, <2>r, <2>t DEF TransactionsOK, FilesOK, Staging
  <2>12. TypeOK'
    BY <2>1, <2>4, <2>8, <2>11, <2>t, TypeNext DEF TypeOK
  <2>13. BatchOK'
    BY <1>0, <2>4, <2>5, <2>t, StoreAssumption DEF BatchOK, InFlight, Staging, TypeOK
  <2>14. Held' = Held
    BY <1>0, <2>5 DEF Held
  <2>15. RefsExact'
    BY <2>4, <2>14, RefsFrame
  <2>16. UsedExact'
    BY <2>4 DEF IInv, UsedExact, Live
  <2>17. ReservationHonoured'
    BY <2>5, <2>t DEF ReservationHonoured
  <2> QED
    BY <2>8, <2>11, <2>12, <2>13, <2>15, <2>16, <2>17 DEF IInv
<1> QED
  BY <1>1, <1>2 DEF OpenArtifacts

(* Normalising rejects what is staged: another abort.                       *)
LEMMA NormalizeStep ==
  ASSUME IInv, NEW t \in Loads, Normalize(t)
  PROVE  IInv'
BY AbortStep DEF Normalize, Staged, Staging

(* Commit turns the reservation into stored objects and references.         *)
LEMMA CommitStep ==
  ASSUME IInv, NEW t \in Loads, Commit(t)
  PROVE  IInv'
<1>0. pc[t] = "staging" /\ Staging(t)
  BY DEF Commit, Staged, Staging
<1>t. TypeOK /\ TransactionsOK /\ BatchOK /\ QuotasHold /\ ReservationHonoured
  BY DEF IInv
<1>1. ~(snapshotUsed + CheckedBytes(t) > SnapshotBytes)
  <2>1. snapshotUsed \in Nat /\ CheckedBytes(t) \in Nat
    BY <1>0, <1>t, CommitFits DEF TypeOK
  <2> QED
    BY <1>0, <2>1, CommitAccepted, StoreAssumption
<1>2. /\ pc' = [pc EXCEPT ![t] = "committed"]
      /\ refs' = [c \in Contents |-> refs[c] + Uses(t, c)]
      /\ snapshotUsed' = snapshotUsed + StoredBytes(t)
      /\ stagingReserved' = stagingReserved - reserved[t]
      /\ snapshotReserved' = snapshotReserved - reserved[t]
      /\ reserved' = reserved /\ declared' = declared /\ artifacts' = artifacts
      /\ lease' = lease /\ loadAll' = loadAll /\ records' = records
  BY <1>1 DEF Commit, loaderVars
<1>3. /\ pc'[t] = "committed"
      /\ \A u \in Loads \ {t} : pc'[u] = pc[u]
  BY <1>2, <1>t DEF TypeOK
<1>4. /\ stagingReserved' \in Nat /\ snapshotReserved' \in Nat
      /\ reserved' \in [Loads -> Nat]
      /\ ReservationsExact'
      /\ stagingReserved' <= StagingBytes
  BY <1>0, <1>2, <1>3, GiveBackCounts DEF Staging
<1>5. /\ StoredBytes(t) \in Nat /\ StoredBytes(t) <= reserved[t] /\ reserved[t] \in Nat
  <2>1. /\ StoredBytes(t) \in Nat /\ CheckedBytes(t) \in Nat
        /\ StoredBytes(t) <= CheckedBytes(t) /\ CheckedBytes(t) <= reserved[t]
    BY <1>0, CommitFits
  <2> QED
    BY <2>1, <1>t DEF TypeOK
<1>6. snapshotUsed' \in Nat /\ QuotasHold'
  <2>1. /\ snapshotUsed \in Nat /\ snapshotReserved \in Nat
        /\ snapshotUsed + snapshotReserved <= SnapshotBytes
    BY <1>t DEF TypeOK, QuotasHold
  <2> QED
    BY <1>2, <1>4, <1>5, <2>1, StoreAssumption DEF QuotasHold
<1>7. TransactionsOK'
  <2> SUFFICES ASSUME NEW u \in Loads PROVE FilesOK(u)'
    BY <1>2, <1>t DEF TransactionsOK
  <2>1. FilesOK(u)
    BY <1>t DEF TransactionsOK
  <2> QED
    BY <1>2, <1>3, <2>1 DEF FilesOK, Staging
<1>8. refs' \in [Contents -> Nat]
  <2>1. \A c \in Contents : refs[c] \in Nat /\ Uses(t, c) \in Nat
    BY <1>t, UsesCount DEF TypeOK
  <2> QED
    BY <1>2, <2>1
<1>9. TypeOK'
  BY <1>2, <1>4, <1>6, <1>7, <1>8, <1>t, TypeNext DEF TypeOK
<1>10. BatchOK'
  BY <1>0, <1>2, <1>3, <1>t, StoreAssumption DEF BatchOK, InFlight, Staging, TypeOK
<1>11. Held' = Held \cup {t} /\ t \notin Held
  BY <1>0, <1>3 DEF Held
<1>12. RefsExact'
  BY <1>2, <1>11, RefsCommit
<1>13. UsedExact'
  BY <1>0, <1>2, UsedStored
<1>14. ReservationHonoured'
  BY <1>3, <1>t DEF ReservationHonoured
<1> QED
  BY <1>4, <1>6, <1>7, <1>9, <1>10, <1>12, <1>13, <1>14 DEF IInv

(* Release of a committed load by whoever owns it.                          *)
LEMMA ReleaseStep ==
  ASSUME IInv, NEW t \in Loads, pc[t] = "committed", Release(t),
         BatchOK', loadAll' \in {"loading", "failed", "returned"}, records' \subseteq Batch
  PROVE  IInv'
<1> DEFINE newRefs == [c \in Contents |-> Drop(refs[c], Uses(t, c))]
<1>t. TypeOK /\ TransactionsOK /\ BatchOK /\ QuotasHold /\ ReservationHonoured
  BY DEF IInv
<1>1. /\ pc' = [pc EXCEPT ![t] = "released"]
      /\ refs' = newRefs
      /\ snapshotUsed' = snapshotUsed - FreedBytes(newRefs)
      /\ stagingReserved' = stagingReserved /\ snapshotReserved' = snapshotReserved
      /\ reserved' = reserved /\ declared' = declared /\ artifacts' = artifacts
      /\ lease' = lease
  BY DEF Release
<1>2. /\ pc'[t] = "released"
      /\ \A u \in Loads \ {t} : pc'[u] = pc[u]
  BY <1>1, <1>t DEF TypeOK
<1>3. t \in Held /\ Held' = Held \ {t}
  BY <1>2 DEF Held
<1>4. /\ newRefs \in [Contents -> Nat]
      /\ \A c \in Contents : newRefs[c] <= refs[c]
  <2>1. \A c \in Contents : /\ refs[c] \in Nat /\ Uses(t, c) \in Nat
                             /\ Uses(t, c) <= refs[c]
    BY <1>3, <1>t, HeldCovers DEF TypeOK
  <2> QED
    BY <2>1 DEF Drop
<1>5. RefsExact'
  BY <1>1, <1>3, RefsRelease
<1> HIDE DEF newRefs
<1>6. UsedExact' /\ snapshotUsed' \in Nat /\ snapshotUsed' <= snapshotUsed
  BY <1>1, <1>4, UsedFreed
<1>7. TransactionsOK'
  <2> SUFFICES ASSUME NEW u \in Loads PROVE FilesOK(u)'
    BY <1>1, <1>t DEF TransactionsOK
  <2>1. FilesOK(u)
    BY <1>t DEF TransactionsOK
  <2> QED
    BY <1>1, <1>2, <2>1 DEF FilesOK, Staging
<1>8. TypeOK'
  BY <1>1, <1>4, <1>6, <1>7, <1>t, TypeNext DEF TypeOK
<1>9. Open' = Open
  BY <1>2 DEF Open, Staging
<1>10. ReservationsExact'
  BY <1>1, <1>9 DEF IInv, ReservationsExact, Open
<1>11. QuotasHold'
  BY <1>1, <1>6, <1>t, StoreAssumption DEF QuotasHold, TypeOK
<1>12. ReservationHonoured'
  BY <1>2, <1>t DEF ReservationHonoured
<1> QED
  BY <1>5, <1>6, <1>7, <1>8, <1>10, <1>11, <1>12 DEF IInv

(* A step of LoadAll alone.                                                 *)
LEMMA LoaderStep ==
  ASSUME IInv, UNCHANGED <<storeVars, pc, reserved, declared, artifacts, lease>>,
         BatchOK', loadAll' \in {"loading", "failed", "returned"}, records' \subseteq Batch
  PROVE  IInv'
<1>1. TransactionsOK'
  BY DEF IInv, TransactionsOK, FilesOK, Staging
<1>2. TypeOK'
  BY <1>1, TypeNext DEF IInv, TypeOK, storeVars
<1>3. RefsExact'
  BY RefsFrame DEF Held, storeVars
<1>4. ReservationsExact' /\ QuotasHold' /\ UsedExact' /\ ReservationHonoured'
  BY DEF IInv, ReservationsExact, QuotasHold, UsedExact, Live, ReservationHonoured,
         Staging, storeVars
<1> QED
  BY <1>1, <1>2, <1>3, <1>4 DEF IInv

(* LoadAll: a record is appended or released; on failure all that was       *)
(* loaded is released, one record at a time, and on success it is the       *)
(* caller's.                                                                *)
LEMMA LoadAllSteps ==
  ASSUME IInv,
         (\E t \in Loads : ReleaseSnapshot(t) \/ AppendRecord(t) \/ RollBack(t))
           \/ LoadAllFails \/ LoadAllReturns
  PROVE  IInv'
<1> USE StoreAssumption
<1>t. TypeOK /\ BatchOK /\ ReservationHonoured
  BY DEF IInv
<1>1. ASSUME NEW t \in Loads, ReleaseSnapshot(t) PROVE IInv'
  <2>1. /\ pc[t] = "committed" /\ Release(t) /\ loadAll' = loadAll /\ records' = records
        /\ pc' = [pc EXCEPT ![t] = "released"]
        /\ t \in Batch => loadAll = "returned"
    BY <1>1 DEF ReleaseSnapshot, Returned, Release, loaderVars
  <2>2. BatchOK'
    BY <1>t, <2>1 DEF BatchOK, InFlight, Staging, TypeOK
  <2> QED
    BY <1>t, <2>1, <2>2, ReleaseStep DEF TypeOK
<1>2. ASSUME NEW t \in Loads, AppendRecord(t) PROVE IInv'
  <2>0. t \in Batch /\ pc[t] = "committed" /\ t \notin records /\ loadAll = "loading"
    BY <1>2 DEF AppendRecord
  <2>1. CASE records' = records \cup {t} /\ UNCHANGED <<storeVars, pc, reserved, declared,
                                                        artifacts, lease, loadAll>>
    <3>1. BatchOK'
      BY <1>t, <2>0, <2>1 DEF BatchOK, InFlight, Staging, TypeOK
    <3> QED
      BY <1>t, <2>0, <2>1, <3>1, LoaderStep DEF TypeOK
  <2>2. CASE Release(t) /\ loadAll' = "failed" /\ UNCHANGED records
    <3>1. pc' = [pc EXCEPT ![t] = "released"]
      BY <2>2 DEF Release
    <3>2. \A u \in Batch \ {t} : ~InFlight(u)
      BY <1>t, <2>0 DEF BatchOK, InFlight
    <3>3. BatchOK'
      BY <1>t, <2>0, <2>2, <3>1, <3>2 DEF BatchOK, InFlight, Staging, TypeOK
    <3> QED
      BY <1>t, <2>0, <2>2, <3>3, ReleaseStep DEF TypeOK
  <2> QED
    BY <1>2, <2>1, <2>2 DEF AppendRecord
<1>3. ASSUME NEW t \in Loads, RollBack(t) PROVE IInv'
  <2>1. /\ loadAll = "failed" /\ t \in records /\ records' = records \ {t}
        /\ Release(t) /\ loadAll' = loadAll
        /\ pc' = [pc EXCEPT ![t] = "released"]
    BY <1>3 DEF RollBack, Release
  <2>2. pc[t] = "committed"
    BY <1>t, <2>1 DEF BatchOK
  <2>3. BatchOK'
    BY <1>t, <2>1, <2>2 DEF BatchOK, InFlight, Staging, TypeOK
  <2> QED
    BY <1>t, <2>1, <2>2, <2>3, ReleaseStep DEF TypeOK
<1>4. CASE LoadAllFails
  <2>1. /\ loadAll = "loading" /\ loadAll' = "failed" /\ UNCHANGED <<records, pc>>
        /\ UNCHANGED <<storeVars, pc, reserved, declared, artifacts, lease>>
    BY <1>4 DEF LoadAllFails
  <2>2. PICK t \in Batch : pc[t] \in {"aborted", "rejected"}
    BY <1>4 DEF LoadAllFails
  <2>3. \A u \in Batch \ {t} : ~InFlight(u)
    BY <1>t, <2>1, <2>2 DEF BatchOK, InFlight
  <2>4. BatchOK'
    BY <1>t, <2>1, <2>2, <2>3 DEF BatchOK, InFlight, Staging, TypeOK
  <2> QED
    BY <1>t, <2>1, <2>4, LoaderStep DEF TypeOK
<1>5. CASE LoadAllReturns
  <2>1. /\ loadAll = "loading" /\ loadAll' = "returned" /\ records = Batch /\ records' = {}
        /\ UNCHANGED <<storeVars, pc, reserved, declared, artifacts, lease>>
    BY <1>5 DEF LoadAllReturns
  <2>2. BatchOK'
    BY <1>t, <2>1 DEF BatchOK, InFlight, Staging, TypeOK
  <2> QED
    BY <2>1, <2>2, LoaderStep
<1> QED
  BY <1>1, <1>2, <1>3, <1>4, <1>5

(* A step that only takes or gives back an artifact lease.                  *)
LEMMA LeaseFrame ==
  ASSUME IInv,
         UNCHANGED <<stagingReserved, snapshotReserved, pc, reserved, declared, artifacts,
                     loaderVars>>,
         refs' \in [Contents -> Nat], lease' \in [Leases -> Contents \cup {None}],
         snapshotUsed' \in Nat, snapshotUsed' <= snapshotUsed,
         RefsExact', UsedExact'
  PROVE  IInv'
<1>1. TransactionsOK'
  BY DEF IInv, TransactionsOK, FilesOK, Staging
<1>2. TypeOK'
  BY <1>1, TypeNext DEF IInv, TypeOK, loaderVars
<1>3. QuotasHold'
  BY StoreAssumption DEF IInv, TypeOK, QuotasHold
<1>4. BatchOK' /\ ReservationsExact' /\ ReservationHonoured'
  BY DEF IInv, BatchOK, InFlight, ReservationsExact, ReservationHonoured, Staging, loaderVars
<1> QED
  BY <1>1, <1>2, <1>3, <1>4 DEF IInv

(* A lease on an artifact is one more reference to its object.              *)
LEMMA AcquireArtifactStep ==
  ASSUME IInv, NEW l \in Leases, AcquireArtifact(l)
  PROVE  IInv'
<1> USE StoreAssumption
<1>t. TypeOK /\ TransactionsOK
  BY DEF IInv
<1>0. PICK t \in Loads : \E n \in DOMAIN artifacts[t] :
        /\ refs[artifacts[t][n]] > 0
        /\ lease' = [lease EXCEPT ![l] = artifacts[t][n]]
        /\ refs' = [refs EXCEPT ![artifacts[t][n]] = @ + 1]
  BY DEF AcquireArtifact
<1>1. PICK n \in DOMAIN artifacts[t] :
        /\ refs[artifacts[t][n]] > 0
        /\ lease' = [lease EXCEPT ![l] = artifacts[t][n]]
        /\ refs' = [refs EXCEPT ![artifacts[t][n]] = @ + 1]
  BY <1>0
<1>2. /\ lease[l] = None
      /\ UNCHANGED <<stagingReserved, snapshotReserved, snapshotUsed, pc, reserved,
                     declared, artifacts, loaderVars>>
  BY DEF AcquireArtifact
<1>3. artifacts[t][n] \in Contents
  BY <1>t DEF TransactionsOK, FilesOK
<1>4. PICK d \in Contents : /\ d = artifacts[t][n] /\ refs[d] > 0
                            /\ lease' = [lease EXCEPT ![l] = d]
                            /\ refs' = [refs EXCEPT ![d] = @ + 1]
  BY <1>1, <1>3
<1>5. /\ refs' \in [Contents -> Nat]
      /\ refs'[d] = refs[d] + 1 /\ \A c \in Contents \ {d} : refs'[c] = refs[c]
      /\ lease' \in [Leases -> Contents \cup {None}]
  BY <1>4, <1>t DEF TypeOK
<1>6. RefsExact'
  <2> SUFFICES ASSUME NEW c \in Contents
               PROVE  refs'[c] = Total(Shares(c)', Held') + Cardinality(LeasesOn(c)')
    BY RefsNext
  <2>1. Shares(c)' = Shares(c) /\ Held' = Held
    BY <1>2 DEF Shares, Uses, Held
  <2>2. CASE c = d
    <3>1. LeasesOn(c)' = LeasesOn(c) \cup {l} /\ l \notin LeasesOn(c)
      BY <1>2, <1>4, <1>t, <2>2 DEF LeasesOn, TypeOK
    <3>2. Cardinality(LeasesOn(c) \cup {l}) = Cardinality(LeasesOn(c)) + 1
      BY <3>1, RefsParts, FS_AddElement
    <3> QED
      BY <1>5, <2>1, <2>2, <3>1, <3>2, RefsParts
  <2>3. CASE c # d
    <3>1. LeasesOn(c)' = LeasesOn(c)
      BY <1>2, <1>4, <1>t, <2>3 DEF LeasesOn, TypeOK
    <3> QED
      BY <1>5, <2>1, <2>3, <3>1, RefsParts
  <2> QED
    BY <2>2, <2>3
<1>7. UsedExact'
  <2>1. Live' = Live
    BY <1>4, <1>5, <1>t DEF Live, TypeOK
  <2> QED
    BY <1>2, <2>1 DEF IInv, UsedExact
<1>8. snapshotUsed' \in Nat /\ snapshotUsed' <= snapshotUsed
  BY <1>2, <1>t DEF TypeOK
<1> QED
  BY <1>2, <1>5, <1>6, <1>7, <1>8, LeaseFrame

(* Releasing a lease drops it, and the object with its last reference.      *)
LEMMA ReleaseLeaseStep ==
  ASSUME IInv, NEW l \in Leases, ReleaseLease(l)
  PROVE  IInv'
<1> USE StoreAssumption
<1>t. TypeOK
  BY DEF IInv
<1>1. PICK d \in Contents : d = lease[l]
  BY <1>t DEF ReleaseLease, TypeOK
<1> DEFINE newRefs == [refs EXCEPT ![d] = Drop(@, 1)]
<1>2. /\ lease' = [lease EXCEPT ![l] = None]
      /\ refs' = newRefs
      /\ snapshotUsed' = snapshotUsed - FreedBytes(newRefs)
      /\ UNCHANGED <<stagingReserved, snapshotReserved, pc, reserved, declared, artifacts,
                     loaderVars>>
  BY <1>1 DEF ReleaseLease
<1>3. l \in LeasesOn(d)
  BY <1>1 DEF LeasesOn
<1>4. /\ Cardinality(LeasesOn(d) \ {l}) \in Nat
      /\ Cardinality(LeasesOn(d)) = Cardinality(LeasesOn(d) \ {l}) + 1
  <2>1. /\ IsFiniteSet(LeasesOn(d) \ {l})
        /\ Cardinality(LeasesOn(d) \ {l}) = Cardinality(LeasesOn(d)) - 1
    BY <1>3, RefsParts, FS_RemoveElement
  <2>2. Cardinality(LeasesOn(d) \ {l}) \in Nat /\ Cardinality(LeasesOn(d)) \in Nat
    BY <2>1, RefsParts, FS_CardinalityType
  <2> QED
    BY <2>1, <2>2
<1>5. refs[d] \in Nat /\ refs[d] > 0
  BY <1>4, RefsParts
<1>6. /\ newRefs \in [Contents -> Nat]
      /\ newRefs[d] = refs[d] - 1
      /\ \A c \in Contents \ {d} : newRefs[c] = refs[c]
  BY <1>5, <1>t DEF Drop, TypeOK
<1>7. \A c \in Contents : newRefs[c] <= refs[c]
  BY <1>5, <1>6, <1>t DEF TypeOK
<1> HIDE DEF newRefs
<1>8. UsedExact' /\ snapshotUsed' \in Nat /\ snapshotUsed' <= snapshotUsed
  BY <1>2, <1>6, <1>7, UsedFreed
<1>9. lease' \in [Leases -> Contents \cup {None}]
  BY <1>2, <1>t DEF TypeOK
<1>10. RefsExact'
  <2> SUFFICES ASSUME NEW c \in Contents
               PROVE  refs'[c] = Total(Shares(c)', Held') + Cardinality(LeasesOn(c)')
    BY RefsNext
  <2>1. Shares(c)' = Shares(c) /\ Held' = Held
    BY <1>2 DEF Shares, Uses, Held
  <2>2. CASE c = d
    <3>1. LeasesOn(c)' = LeasesOn(c) \ {l}
      BY <1>2, <1>t, <2>2 DEF LeasesOn, TypeOK
    <3> QED
      BY <1>2, <1>4, <1>6, <2>1, <2>2, <3>1, RefsParts
  <2>3. CASE c # d
    <3>1. LeasesOn(c)' = LeasesOn(c)
      BY <1>1, <1>2, <1>t, <2>3 DEF LeasesOn, TypeOK
    <3> QED
      BY <1>2, <1>6, <2>1, <2>3, <3>1, RefsParts
  <2> QED
    BY <2>2, <2>3
<1> QED
  BY <1>2, <1>6, <1>8, <1>9, <1>10, LeaseFrame

(* A step that leaves the store alone.                                      *)
LEMMA StutterStep ==
  ASSUME IInv, UNCHANGED vars
  PROVE  IInv'
<1>1. BatchOK'
  BY DEF IInv, BatchOK, InFlight, Staging, vars, loaderVars
<1> QED
  BY <1>1, LoaderStep DEF vars, loaderVars, IInv, TypeOK

(* Every step of the store, the loads and the leases keeps the invariant.   *)
THEOREM InductiveInvariant == Spec => []IInv
<1>1. IInv /\ [Next]_vars => IInv'
  <2> SUFFICES ASSUME IInv, [Next]_vars PROVE IInv'
    OBVIOUS
  <2>1. ASSUME NEW t \in Loads,
               OpenManifest(t) \/ StageReserved(t) \/ OpenArtifacts(t)
                 \/ Normalize(t) \/ Commit(t)
        PROVE  IInv'
    BY <2>1, OpenManifestStep, StageReservedStep, OpenArtifactsStep, NormalizeStep, CommitStep
  <2>2. ASSUME NEW l \in Leases, AcquireArtifact(l) \/ ReleaseLease(l)
        PROVE  IInv'
    BY <2>2, AcquireArtifactStep, ReleaseLeaseStep
  <2> QED
    BY <2>1, <2>2, LoadAllSteps, StutterStep DEF Next
<1> QED
  BY <1>1, InitInv, PTL DEF Spec

(* The counters of SnapshotStore are never negative: no abort, release or   *)
(* roll-back gives back more than was taken.                                *)
THEOREM TypeCorrect == Spec => []TypeOK
BY InductiveInvariant, PTL DEF IInv

(* reserve's checks, made alone by each load, keep the sum of all retained  *)
(* and promised bytes within StoreLimits.                                   *)
THEOREM QuotasCorrect == Spec => []QuotasHold
BY InductiveInvariant, PTL DEF IInv

(* No path through loadFromRoot leaks a reservation or returns it twice.    *)
THEOREM ReservationsCorrect == Spec => []ReservationsExact
BY InductiveInvariant, PTL DEF IInv

(* Every object counts exactly its users, and snapshotUsed the bytes of the *)
(* objects there are: nothing is freed under a reader or kept for nobody.   *)
THEOREM ObjectsCorrect == Spec => []ObjectsExact
<1>1. IInv => ObjectsExact
  <2> SUFFICES ASSUME IInv PROVE ObjectsExact
    OBVIOUS
  <2>1. {t \in Loads : Owned(t)} = Held
    BY StoreAssumption DEF IInv, BatchOK, TypeOK, Owned, Returned, Held
  <2> QED
    BY <2>1 DEF IInv, RefsExact, UsedExact, Live, ObjectsExact
<1> QED
  BY <1>1, InductiveInvariant, PTL

(* Commit's "snapshot quota exhausted" branch is dead code.                 *)
THEOREM HonouredCorrect == Spec => []ReservationHonoured
BY InductiveInvariant, PTL DEF IInv

===================================================================================
