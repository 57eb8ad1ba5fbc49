----------------------------- MODULE SnapshotStore -----------------------------
(***************************************************************************)
(* Package staging and the content store behind it: internal/capability/    *)
(* snapshot.go (SnapshotStore, stagingTransaction, Snapshot, artifactLease) *)
(* driven by loader.go (LoadAll, Load, loadFromRoot).                       *)
(*                                                                         *)
(* A load opens its files, reserves their declared sizes, copies them into  *)
(* a private transaction and commits it; any error aborts the transaction.  *)
(* Files can change between being sized and being copied.  Loads run        *)
(* concurrently and share the store's quotas and, by digest, its objects.   *)
(* LoadAll loads the packages of a root one after another and rolls the     *)
(* loaded ones back when one fails.                                         *)
(* A load, the transaction it stages and the Snapshot it commits have one   *)
(* name; a content stands for the bytes and for their SHA-256 digest.       *)
(***************************************************************************)
EXTENDS Naturals, FiniteSets, Counting

CONSTANTS Loads,          (* package loads, each run once                  *)
          Batch,          (* those LoadAll makes; the others are Load's    *)
          Names,          (* artifact paths inside a package               *)
          Manifest,       (* the one that is read first                    *)
          Contents,       (* possible artifact contents                    *)
          Size,           (* content -> its length                         *)
          StagingBytes,   (* StoreLimits.StagingBytes                      *)
          SnapshotBytes,  (* StoreLimits.SnapshotBytes                     *)
          PackageMax,     (* PackageArtifactMax                            *)
          Leases,         (* artifact leases a reader may take             *)
          None            (* no content                                    *)

ASSUME StoreAssumption ==
         /\ Batch \subseteq Loads
         /\ Manifest \in Names
         /\ Size \in [Contents -> Nat]
         /\ StagingBytes \in Nat \ {0}
         /\ SnapshotBytes \in Nat \ {0}
         /\ PackageMax \in Nat
         /\ None \notin Contents
         /\ IsFiniteSet(Loads) /\ IsFiniteSet(Leases)
         /\ IsFiniteSet(Names) /\ IsFiniteSet(Contents)

VARIABLES
  stagingReserved,   (* SnapshotStore counters                             *)
  snapshotReserved,
  snapshotUsed,
  refs,              (* objects: content -> refs, 0 when there is none     *)
  pc,                (* where each load is                                 *)
  reserved,          (* stagingTransaction.reserved (and packageSize)      *)
  declared,          (* sizes read when the files were opened              *)
  artifacts,         (* stagingTransaction.artifacts, then Snapshot.digests *)
  lease,             (* the object each artifactLease retains              *)
  loadAll,           (* LoadAll is loading, rolls back or has returned     *)
  records            (* the records it has loaded, until they are returned *)

storeVars == <<stagingReserved, snapshotReserved, snapshotUsed, refs>>
loaderVars == <<loadAll, records>>
vars == <<storeVars, pc, reserved, declared, artifacts, lease, loaderVars>>

Staging(t) == pc[t] \in {"manifest", "staging"}
FileSizes == {Size[c] : c \in Contents}

(* How many names of load t hold content c: each is a reference of its own. *)
Uses(t, c) == Cardinality({n \in DOMAIN artifacts[t] : artifacts[t][n] = c})
Drop(count, k) == IF count > k THEN count - k ELSE 0

(* Faulty variant: only the staging quota is looked at.                     *)
FitsStaging(t, size) ==
  /\ reserved[t] + size <= PackageMax
  /\ stagingReserved + size <= StagingBytes

(* reserve's three checks.                                                  *)
Fits(t, size) ==
  /\ reserved[t] + size <= PackageMax
  /\ stagingReserved + size <= StagingBytes
  /\ snapshotUsed + snapshotReserved + size <= SnapshotBytes

Reserve(t, size) ==
  /\ Fits(t, size)
  /\ stagingReserved' = stagingReserved + size
  /\ snapshotReserved' = snapshotReserved + size
  /\ reserved' = [reserved EXCEPT ![t] = @ + size]
  /\ UNCHANGED <<snapshotUsed, refs>>

(* Faulty variant: an abort forgets the snapshot reservation.               *)
AbortHalf(t) ==
  /\ pc' = [pc EXCEPT ![t] = "aborted"]
  /\ stagingReserved' = stagingReserved - reserved[t]
  /\ artifacts' = [artifacts EXCEPT ![t] = <<>>]
  /\ UNCHANGED <<snapshotReserved, snapshotUsed, refs>>

(* loadFromRoot returns an error: the deferred abort gives the reservation  *)
(* back and wipes the staged bytes.                                         *)
Abort(t) ==
  /\ pc' = [pc EXCEPT ![t] = "aborted"]
  /\ stagingReserved' = stagingReserved - reserved[t]
  /\ snapshotReserved' = snapshotReserved - reserved[t]
  /\ artifacts' = [artifacts EXCEPT ![t] = <<>>]
  /\ UNCHANGED <<snapshotUsed, refs>>

-----------------------------------------------------------------------------
Init ==
  /\ stagingReserved = 0
  /\ snapshotReserved = 0
  /\ snapshotUsed = 0
  /\ refs = [c \in Contents |-> 0]
  /\ pc = [t \in Loads |-> "idle"]
  /\ reserved = [t \in Loads |-> 0]
  /\ declared = [t \in Loads |-> <<>>]
  /\ artifacts = [t \in Loads |-> <<>>]
  /\ lease = [l \in Leases |-> None]
  /\ loadAll = "loading"
  /\ records = {}

(* loadFromRoot is called: by Load, or by LoadAll for its next package.     *)
Called(t) ==
  t \in Batch => /\ loadAll = "loading"
                 /\ \A u \in Batch : ~Staging(u) /\ (pc[u] = "committed" => u \in records)
                                      /\ pc[u] \notin {"aborted", "rejected"}

(* The manifest is opened and its size reserved, or it cannot be opened, is *)
(* too long or does not fit.                                                *)
OpenManifest(t) ==
  /\ pc[t] = "idle"
  /\ Called(t)
  /\ \/ \E size \in FileSizes :
          /\ Reserve(t, size)
          /\ declared' = [declared EXCEPT ![t] = [n \in {Manifest} |-> size]]
          /\ pc' = [pc EXCEPT ![t] = "manifest"]
          /\ UNCHANGED artifacts
     \/ /\ Abort(t)
        /\ UNCHANGED <<reserved, declared>>
  /\ UNCHANGED <<lease, loaderVars>>

(* Faulty variant: the copy is not compared with the declared size.         *)
StageUnchecked(t) ==
  /\ Staging(t)
  /\ \E n \in DOMAIN declared[t] \ DOMAIN artifacts[t], c \in Contents :
       artifacts' = [artifacts EXCEPT ![t] =
                       [m \in DOMAIN @ \cup {n} |-> IF m = n THEN c ELSE @[m]]]
  /\ UNCHANGED <<storeVars, pc, reserved, declared, lease, loaderVars>>

(* stageReserved: copy what the file holds by now.  A failed read, and a    *)
(* size other than the declared one, are errors.                            *)
StageReserved(t) ==
  /\ Staging(t)
  /\ \/ \E n \in DOMAIN declared[t] \ DOMAIN artifacts[t], c \in Contents :
          /\ Size[c] = declared[t][n]
          /\ artifacts' = [artifacts EXCEPT ![t] =
                             [m \in DOMAIN @ \cup {n} |-> IF m = n THEN c ELSE @[m]]]
          /\ UNCHANGED <<storeVars, pc>>
     \/ /\ DOMAIN declared[t] # DOMAIN artifacts[t]
        /\ Abort(t)
  /\ UNCHANGED <<reserved, declared, lease, loaderVars>>

(* The staged manifest is parsed and names the other artifacts; their sizes *)
(* are reserved in one piece.                                               *)
OpenArtifacts(t) ==
  /\ pc[t] = "manifest"
  /\ Manifest \in DOMAIN artifacts[t]
  /\ \/ /\ Abort(t)
        /\ UNCHANGED <<reserved, declared>>
     \/ \E S \in SUBSET (Names \ {Manifest}) : \E sizes \in [S -> FileSizes] :
          /\ Reserve(t, Total(sizes, S))
          /\ declared' = [declared EXCEPT ![t] =
                            [n \in S \cup {Manifest} |->
                               IF n \in S THEN sizes[n] ELSE @[Manifest]]]
          /\ pc' = [pc EXCEPT ![t] = "staging"]
          /\ UNCHANGED artifacts
  /\ UNCHANGED <<lease, loaderVars>>

Staged(t) == pc[t] = "staging" /\ DOMAIN artifacts[t] = DOMAIN declared[t]

(* normalizeStagedPackage rejects what was staged.                          *)
Normalize(t) ==
  /\ Staged(t)
  /\ Abort(t)
  /\ UNCHANGED <<reserved, declared, lease, loaderVars>>

(* What commit would add: it counts a new content once per name in its      *)
(* check and once in all when it stores it.                                 *)
NewNames(t) == {n \in DOMAIN artifacts[t] : refs[artifacts[t][n]] = 0}
CheckedBytes(t) == Total([n \in NewNames(t) |-> Size[artifacts[t][n]]], NewNames(t))
StoredBytes(t) == Total(Size, {artifacts[t][n] : n \in NewNames(t)})

Commit(t) ==
  /\ Staged(t)
  /\ IF snapshotUsed + CheckedBytes(t) > SnapshotBytes
     THEN /\ pc' = [pc EXCEPT ![t] = "rejected"]
          /\ UNCHANGED <<snapshotUsed, refs>>
     ELSE /\ pc' = [pc EXCEPT ![t] = "committed"]
          /\ refs' = [c \in Contents |-> refs[c] + Uses(t, c)]
          /\ snapshotUsed' = snapshotUsed + StoredBytes(t)
  /\ stagingReserved' = stagingReserved - reserved[t]
  /\ snapshotReserved' = snapshotReserved - reserved[t]
  /\ UNCHANGED <<reserved, declared, artifacts, lease, loaderVars>>

(* Bytes of the objects whose last reference goes.                          *)
FreedBytes(newRefs) == Total(Size, {c \in Contents : refs[c] > 0 /\ newRefs[c] = 0})

(* Snapshot.release of a record.                                            *)
Release(t) ==
  /\ pc' = [pc EXCEPT ![t] = "released"]
  /\ LET newRefs == [c \in Contents |-> Drop(refs[c], Uses(t, c))]
     IN  /\ refs' = newRefs
         /\ snapshotUsed' = snapshotUsed - FreedBytes(newRefs)
  /\ UNCHANGED <<stagingReserved, snapshotReserved, reserved, declared, artifacts,
                 lease>>

(* Faulty variant: the roll-back forgets the record that is the duplicate.  *)
AppendKeepsDuplicate(t) ==
  /\ t \in Batch /\ pc[t] = "committed" /\ t \notin records
  /\ loadAll = "loading"
  /\ \/ /\ records' = records \cup {t}
        /\ UNCHANGED loadAll
     \/ /\ records # {}
        /\ loadAll' = "failed"
        /\ UNCHANGED records
  /\ UNCHANGED <<storeVars, pc, reserved, declared, artifacts, lease>>

(* LoadAll appends the record, or releases it because one of the loaded     *)
(* records has its capability ID.                                           *)
AppendRecord(t) ==
  /\ t \in Batch /\ pc[t] = "committed" /\ t \notin records
  /\ loadAll = "loading"
  /\ \/ /\ records' = records \cup {t}
        /\ UNCHANGED <<storeVars, pc, reserved, declared, artifacts, lease, loadAll>>
     \/ /\ records # {}
        /\ Release(t)
        /\ loadAll' = "failed"
        /\ UNCHANGED records

(* loadFromRoot returned an error to LoadAll.                               *)
LoadAllFails ==
  /\ loadAll = "loading"
  /\ \E t \in Batch : pc[t] \in {"aborted", "rejected"}
  /\ loadAll' = "failed"
  /\ UNCHANGED <<storeVars, pc, reserved, declared, artifacts, lease, records>>

(* A failed LoadAll releases what it has loaded, one record at a time.      *)
RollBack(t) ==
  /\ loadAll = "failed"
  /\ t \in records
  /\ records' = records \ {t}
  /\ Release(t)
  /\ UNCHANGED loadAll

(* All packages are loaded: the caller has the records now.                 *)
LoadAllReturns ==
  /\ loadAll = "loading"
  /\ records = Batch
  /\ loadAll' = "returned"
  /\ records' = {}
  /\ UNCHANGED <<storeVars, pc, reserved, declared, artifacts, lease>>

(* Load's caller, or LoadAll's once it has returned, has the record.        *)
Returned(t) == pc[t] = "committed" /\ (t \in Batch => loadAll = "returned")

(* The registry reclaims the record's generation.                           *)
ReleaseSnapshot(t) ==
  /\ Returned(t)
  /\ Release(t)
  /\ UNCHANGED loaderVars

(* Snapshot.acquireArtifact by a reader that holds the generation.          *)
AcquireArtifact(l) ==
  /\ lease[l] = None
  /\ \E t \in Loads :
       /\ Returned(t)
       /\ \E n \in DOMAIN artifacts[t] :
            LET c == artifacts[t][n]
            IN  /\ refs[c] > 0
                /\ lease' = [lease EXCEPT ![l] = c]
                /\ refs' = [refs EXCEPT ![c] = @ + 1]
  /\ UNCHANGED <<stagingReserved, snapshotReserved, snapshotUsed, pc, reserved,
                 declared, artifacts, loaderVars>>

(* artifactLease.release.                                                   *)
ReleaseLease(l) ==
  /\ lease[l] # None
  /\ lease' = [lease EXCEPT ![l] = None]
  /\ LET newRefs == [refs EXCEPT ![lease[l]] = Drop(@, 1)]
     IN  /\ refs' = newRefs
         /\ snapshotUsed' = snapshotUsed - FreedBytes(newRefs)
  /\ UNCHANGED <<stagingReserved, snapshotReserved, pc, reserved, declared, artifacts,
                 loaderVars>>

Next ==
  \/ \E t \in Loads :
       \/ OpenManifest(t) \/ StageReserved(t) \/ OpenArtifacts(t)
       \/ Normalize(t) \/ Commit(t) \/ ReleaseSnapshot(t)
       \/ AppendRecord(t) \/ RollBack(t)
  \/ LoadAllFails \/ LoadAllReturns
  \/ \E l \in Leases : AcquireArtifact(l) \/ ReleaseLease(l)

Spec == Init /\ [][Next]_vars
-----------------------------------------------------------------------------
(* The counters never go below zero and the transactions hold artifacts     *)
(* that were declared: what stagingTransaction and SnapshotStore rely on.   *)
TypeOK ==
  /\ stagingReserved \in Nat
  /\ snapshotReserved \in Nat
  /\ snapshotUsed \in Nat
  /\ refs \in [Contents -> Nat]
  /\ pc \in [Loads -> {"idle", "manifest", "staging", "aborted", "committed",
                       "rejected", "released"}]
  /\ reserved \in [Loads -> Nat]
  /\ \A t \in Loads : DOMAIN artifacts[t] \subseteq DOMAIN declared[t]
  /\ lease \in [Leases -> Contents \cup {None}]
  /\ loadAll \in {"loading", "failed", "returned"}
  /\ records \subseteq Batch

(* Retained plus promised bytes stay within StoreLimits, although each load *)
(* checks them alone and holds no lock while it copies its files.           *)
QuotasHold ==
  /\ stagingReserved <= StagingBytes
  /\ snapshotUsed + snapshotReserved <= SnapshotBytes

(* The store's reservations are those of the loads under way: no error path *)
(* of loadFromRoot leaks one or returns one twice.                          *)
ReservationsExact ==
  LET open == Total(reserved, {t \in Loads : Staging(t)})
  IN  stagingReserved = open /\ snapshotReserved = open

(* Who will release a committed load: the caller it was returned to, or     *)
(* LoadAll, which is about to check its ID or has it among its records.     *)
Owned(t) ==
  /\ pc[t] = "committed"
  /\ Returned(t) \/ loadAll = "loading" \/ t \in records

(* An object counts one reference per name of each snapshot that somebody   *)
(* owns and one per artifact lease, so it outlives its package while a      *)
(* reader holds it and disappears with its last user; nothing is left of a  *)
(* LoadAll that failed; and snapshotUsed is the size of the distinct        *)
(* objects the store holds.                                                 *)
ObjectsExact ==
  /\ \A c \in Contents :
       refs[c] = Total([t \in Loads |-> Uses(t, c)], {t \in Loads : Owned(t)})
                 + Cardinality({l \in Leases : lease[l] = c})
  /\ snapshotUsed = Total(Size, {c \in Contents : refs[c] > 0})

(* A load that got its reservations and staged its files is never turned    *)
(* away by commit: the error "snapshot quota exhausted at commit" cannot    *)
(* occur, even when contents that were shared disappear before the commit.  *)
ReservationHonoured == \A t \in Loads : pc[t] # "rejected"
===============================================================================
