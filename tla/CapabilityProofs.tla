--------------------------- MODULE CapabilityProofs ---------------------------
(***************************************************************************)
(* The capability registry and its readers, proved for any number of        *)
(* capabilities, records, callers and readers, in four parts:               *)
(*                                                                         *)
(*   - reference counting and reclamation of generations: the count of      *)
(*     leases is the cardinality of the set of callers that hold one;       *)
(*   - ResolveToolPath, whose two locked sections packages can change       *)
(*     between;                                                             *)
(*   - Catalog: paging through child cursors, and browsing a path in        *)
(*     several lookups;                                                     *)
(*   - search: the results are those the search contract describes.         *)
(***************************************************************************)
EXTENDS Catalog, CountingProofs, SequenceTheorems

(* The leases on a generation can be counted, and none means zero.          *)
LEMMA HoldersCount ==
  ASSUME NEW r
  PROVE  /\ IsFiniteSet(Holders(r))
         /\ Cardinality(Holders(r)) \in Nat
         /\ Cardinality(Holders(r)) = 0 <=> Holders(r) = {}
<1>1. IsFiniteSet(Holders(r))
  BY RegistryAssumption, FS_Subset DEF Holders
<1> QED
  BY <1>1, FS_CardinalityType, FS_EmptySet

(* A retired generation is reclaimed at once exactly if nobody leases it.   *)
LEMMA LastReference ==
  ASSUME TypeOK, RefsExact, NEW r \in Records
  PROVE  /\ r \in Installed => refs[r] >= 1 /\ (refs[r] = 1 <=> Holders(r) = {})
         /\ r \notin Installed => (refs[r] = 0 <=> Holders(r) = {})
  BY HoldersCount DEF TypeOK, RefsExact

(* A granted lease: one more holder, one more reference.                    *)
LEMMA TakeStep ==
  ASSUME Inductive, NEW k \in Callers, NEW r \in Installed,
         pc[k] # "holding", Take(k, r), UNCHANGED registryVars
  PROVE  Inductive'
<1> USE DEF Inductive, TypeOK, Take, registryVars
<1>1. r \in Records /\ Published(r) /\ Installed' = Installed
  BY DEF Installed, Numbered
<1>2. /\ Holders(r)' = Holders(r) \cup {k}
      /\ k \notin Holders(r)
      /\ \A s \in Records \ {r} : Holders(s)' = Holders(s)
  BY <1>1 DEF Holders
<1>3. Cardinality(Holders(r)') = Cardinality(Holders(r)) + 1
  BY <1>2, HoldersCount, FS_AddElement
<1>4. TypeOK'
  BY <1>1
<1>5. RefsExact'
  <2> SUFFICES ASSUME NEW s \in Records
               PROVE  refs'[s] = Cardinality(Holders(s)') + IF s \in Installed THEN 1 ELSE 0
    BY <1>1 DEF RefsExact
  <2>1. CASE s = r
    BY <1>1, <1>3, <2>1, HoldersCount DEF RefsExact
  <2>2. CASE s # r
    BY <1>1, <1>2, <2>2, HoldersCount DEF RefsExact
  <2> QED BY <2>1, <2>2
<1>6. ReclaimedExactlyWhenUnused'
  BY <1>1, <1>2 DEF ReclaimedExactlyWhenUnused, Published
<1>7. RetiredExactly'
  BY <1>1 DEF RetiredExactly, Published
<1>8. NewestIsCurrent'
  BY <1>1 DEF NewestIsCurrent, Published
<1>9. Numbered'
  BY <1>1 DEF Numbered, Published
<1> QED
  BY <1>4, <1>5, <1>6, <1>7, <1>8, <1>9

(* Failing, and waiting between the two locked sections, touches no count.  *)
LEMMA NoLeaseStep ==
  ASSUME Inductive, NEW k \in Callers, pc[k] # "holding",
         NEW l \in {"resolving", "failed"}, pc' = [pc EXCEPT ![k] = l],
         seen' \in [Callers -> Nat],
         UNCHANGED <<registryVars, generationVars, lease>>
  PROVE  Inductive'
<1> USE DEF Inductive, TypeOK, registryVars, generationVars
<1>1. Installed' = Installed
  BY DEF Installed
<1>2. \A s \in Records : Holders(s)' = Holders(s)
  BY DEF Holders
<1>3. TypeOK'
  OBVIOUS
<1>4. RefsExact'
  BY <1>1, <1>2 DEF RefsExact
<1>5. ReclaimedExactlyWhenUnused'
  BY <1>1, <1>2 DEF ReclaimedExactlyWhenUnused, Published
<1>6. RetiredExactly' /\ NewestIsCurrent' /\ Numbered'
  BY <1>1 DEF RetiredExactly, NewestIsCurrent, Numbered, Published
<1> QED
  BY <1>3, <1>4, <1>5, <1>6

(* A released lease: one holder less, one reference less, and the snapshot  *)
(* goes if that was the last one of a retired generation.                   *)
LEMMA ReleaseStep ==
  ASSUME Inductive, NEW k \in Callers, Release(k)
  PROVE  Inductive'
<1>0. PICK r \in Records : r = lease[k]
  BY DEF Inductive, TypeOK, Release
<1> USE DEF Inductive, TypeOK, Release, registryVars
<1>1. r \in Records /\ Published(r) /\ Installed' = Installed
  BY <1>0 DEF Installed, Numbered
<1>2. /\ Holders(r)' = Holders(r) \ {k}
      /\ k \in Holders(r)
      /\ \A s \in Records \ {r} : Holders(s)' = Holders(s)
  BY <1>0, <1>1 DEF Holders
<1>3. Cardinality(Holders(r)') = Cardinality(Holders(r)) - 1
  BY <1>2, HoldersCount, FS_RemoveElement
<1>4. /\ refs[r] >= 1
      /\ r \in Installed => refs[r] >= 2
      /\ r \notin Installed => (refs[r] = 1 <=> Holders(r)' = {})
  <2>1. Cardinality(Holders(r)) >= 1
    BY <1>2, HoldersCount
  <2>2. IsFiniteSet(Holders(r)')
    BY <1>2, HoldersCount, FS_RemoveElement
  <2>3. Holders(r)' = {} <=> Cardinality(Holders(r)') = 0
    BY <2>2, FS_EmptySet
  <2> QED
    BY <1>1, <1>3, <2>1, <2>3, HoldersCount DEF RefsExact
<1>5. /\ refs' = [refs EXCEPT ![r] = @ - 1]
      /\ reclaimed' = [reclaimed EXCEPT ![r] = IF refs[r] = 1 /\ retired[r] THEN @ + 1 ELSE @]
  BY <1>0, <1>1, <1>4
<1>6. TypeOK'
  BY <1>1, <1>4, <1>5
<1>7. RefsExact'
  <2> SUFFICES ASSUME NEW s \in Records
               PROVE  refs'[s] = Cardinality(Holders(s)') + IF s \in Installed THEN 1 ELSE 0
    BY <1>1 DEF RefsExact
  <2>1. CASE s = r
    BY <1>1, <1>3, <1>5, <2>1, HoldersCount DEF RefsExact
  <2>2. CASE s # r
    BY <1>1, <1>2, <1>5, <2>2, HoldersCount DEF RefsExact
  <2> QED BY <2>1, <2>2
<1>8. ReclaimedExactlyWhenUnused'
  <2> SUFFICES ASSUME NEW s \in Records
               PROVE  reclaimed'[s] = IF Published(s) /\ s \notin Installed /\ Holders(s)' = {}
                                      THEN 1 ELSE 0
    BY <1>1 DEF ReclaimedExactlyWhenUnused, Published
  <2>1. CASE s # r
    BY <1>1, <1>2, <1>5, <2>1 DEF ReclaimedExactlyWhenUnused
  <2>2. CASE s = r
    <3>1. reclaimed[r] = 0
      BY <1>1, <1>2 DEF ReclaimedExactlyWhenUnused
    <3>2. retired[r] <=> r \notin Installed
      BY <1>1 DEF RetiredExactly
    <3> QED
      BY <1>1, <1>4, <1>5, <2>2, <3>1, <3>2
  <2> QED BY <2>1, <2>2
<1>9. RetiredExactly' /\ NewestIsCurrent' /\ Numbered'
  BY <1>1 DEF RetiredExactly, NewestIsCurrent, Numbered, Published
<1> QED
  BY <1>6, <1>7, <1>8, <1>9

(* Retiring installed generations S: their own references go, and with them *)
(* the snapshots nobody leases.                                             *)
LEMMA RetireStep ==
  ASSUME Inductive, NEW S \in SUBSET Installed, RetireAll(S),
         Installed' = Installed \ S,
         entries' \in [Capabilities -> Records \cup {None}],
         \A c \in Capabilities : entries'[c] # None => IdOf[entries'[c]] = c,
         closed' \in BOOLEAN, revision' \in Nat,
         UNCHANGED <<next, id, callerVars>>
  PROVE  Inductive'
<1> USE DEF Inductive, TypeOK, RetireAll, callerVars
<1>1. S \subseteq Records /\ \A s \in S : Published(s)
  BY DEF Installed, Numbered
<1>2. \A s \in Records : Holders(s)' = Holders(s)
  BY DEF Holders
<1>3. \A s \in S : refs[s] >= 1 /\ (refs[s] = 1 <=> Holders(s) = {})
  BY <1>1, LastReference
<1>4. TypeOK'
  BY <1>1, <1>3
<1>5. RefsExact'
  BY <1>1, <1>2, <1>3, HoldersCount DEF RefsExact
<1>6. ReclaimedExactlyWhenUnused'
  BY <1>1, <1>2, <1>3 DEF ReclaimedExactlyWhenUnused, Published
<1>7. RetiredExactly'
  BY <1>1 DEF RetiredExactly, Published
<1>8. NewestIsCurrent' /\ Numbered'
  BY DEF NewestIsCurrent, Numbered, Published
<1> QED
  BY <1>4, <1>5, <1>6, <1>7, <1>8


(* A generation that was never published has no lease, was not reclaimed    *)
(* and has no reference.                                                    *)
LEMMA UnpublishedIsFresh ==
  ASSUME Inductive, NEW r \in Records, ~Published(r)
  PROVE  /\ Holders(r) = {}
         /\ Cardinality(Holders(r)) = 0
         /\ r \notin Installed
         /\ reclaimed[r] = 0
         /\ retired[r] = FALSE
<1> USE DEF Inductive
<1>1. r \notin Installed /\ Holders(r) = {}
  BY DEF Numbered, Holders
<1>2. reclaimed[r] = 0
  BY <1>1 DEF ReclaimedExactlyWhenUnused
<1>3. retired[r] = FALSE
  BY DEF RetiredExactly, TypeOK
<1> QED
  BY <1>1, <1>2, <1>3, HoldersCount

(* What Publish does to the set of installed generations.                   *)
LEMMA PublishInstalls ==
  ASSUME TypeOK, NEW r \in Records, Publish(r)
  PROVE  /\ Installed' = (Installed \ {entries[IdOf[r]]}) \cup {r}
         /\ entries' \in [Capabilities -> Records \cup {None}]
         /\ \A c \in Capabilities : entries'[c] # None => IdOf[entries'[c]] = c
<1> USE RegistryAssumption DEF TypeOK, Publish
<1>1. IdOf[r] \in Capabilities
  OBVIOUS
<1>2. entries' = [entries EXCEPT ![IdOf[r]] = r]
  OBVIOUS
<1>3. /\ entries' \in [Capabilities -> Records \cup {None}]
      /\ \A c \in Capabilities : entries'[c] # None => IdOf[entries'[c]] = c
  BY <1>1, <1>2
<1>4. Installed' = (Installed \ {entries[IdOf[r]]}) \cup {r}
  <2>1. ASSUME NEW s \in Records, s \in Installed', s # r
        PROVE  s \in Installed /\ s # entries[IdOf[r]]
    <3>1. PICK c \in Capabilities : entries'[c] = s
      BY <2>1 DEF Installed
    <3>2. c # IdOf[r] /\ entries[c] = s
      BY <1>1, <1>2, <2>1, <3>1
    <3> QED
      BY <1>1, <3>2 DEF Installed
  <2>2. ASSUME NEW s \in Installed, s # entries[IdOf[r]]
        PROVE  s \in Installed'
    <3>1. PICK c \in Capabilities : entries[c] = s
      BY <2>2 DEF Installed
    <3>2. entries'[c] = s
      BY <1>1, <1>2, <2>2, <3>1
    <3> QED
      BY <3>2 DEF Installed
  <2>3. r \in Installed'
    BY <1>1, <1>2 DEF Installed
  <2>4. Installed \subseteq Records /\ Installed' \subseteq Records
    BY DEF Installed
  <2> QED
    BY <2>1, <2>2, <2>3, <2>4
<1> QED
  BY <1>3, <1>4

(* Numbers stay distinct and ordered when the next one is given to r.       *)
LEMMA PublishNumbers ==
  ASSUME Inductive, NEW r \in Records, ~Published(r), Publish(r), UNCHANGED callerVars
  PROVE  NewestIsCurrent' /\ Numbered'
<1> USE DEF Inductive
<1>1. Installed' \subseteq Installed \cup {r}
  BY PublishInstalls
<1>2. /\ next \in Nat /\ next' = next + 1 /\ id \in [Records -> Nat]
      /\ id' = [id EXCEPT ![r] = next + 1]
      /\ id[r] = 0
  BY DEF TypeOK, Publish, Published
<1>3. \A s \in Records : id[s] <= next
  BY DEF Numbered
<1>4. Numbered'
  <2>1. \A s \in Records : id'[s] <= next'
    BY <1>2, <1>3
  <2>2. \A s \in Installed' : id'[s] # 0
    BY <1>1, <1>2 DEF Numbered, Published, Installed
  <2>3. \A k \in Callers : pc'[k] = "holding" => id'[lease'[k]] # 0
    BY <1>2 DEF Numbered, Published, callerVars, TypeOK
  <2> QED
    BY <2>1, <2>2, <2>3 DEF Numbered, Published
<1>5. NewestIsCurrent'
  <2> SUFFICES ASSUME NEW s \in Records, NEW t \in Records
               PROVE  /\ id'[s] # 0 /\ id'[s] = id'[t] => s = t
                      /\ s \in Installed' /\ IdOf[t] = IdOf[s] => id'[t] <= id'[s]
    BY DEF NewestIsCurrent, Published
  <2>1. id'[s] # 0 /\ id'[s] = id'[t] => s = t
    BY <1>2, <1>3 DEF NewestIsCurrent, Published
  <2>2. ASSUME s \in Installed', IdOf[t] = IdOf[s]
        PROVE  id'[t] <= id'[s]
    <3>1. CASE s = r
      BY <1>2, <1>3, <3>1
    <3>2. CASE s # r
      <4>1. s \in Installed /\ s # entries[IdOf[r]]
        BY <2>2, <3>2, PublishInstalls
      <4>2. PICK c \in Capabilities : entries[c] = s
        BY <4>1 DEF Installed
      <4>3. IdOf[s] = c
        BY <4>2, RegistryAssumption DEF TypeOK
      <4>4. t # r
        BY <2>2, <4>1, <4>2, <4>3
      <4> QED
        BY <1>2, <2>2, <3>2, <4>1, <4>4 DEF NewestIsCurrent
    <3> QED BY <3>1, <3>2
  <2> QED BY <2>1, <2>2
<1> QED
  BY <1>4, <1>5

(* Add: a fresh generation with the registry's reference and no lease.      *)
LEMMA AddStep ==
  ASSUME Inductive, NEW r \in Records, Add(r)
  PROVE  Inductive'
<1> USE DEF Inductive
<1>1. ~Published(r) /\ Publish(r) /\ entries[IdOf[r]] = None
  BY DEF Add
<1>2. /\ Installed' = Installed \cup {r}
      /\ entries' \in [Capabilities -> Records \cup {None}]
      /\ \A c \in Capabilities : entries'[c] # None => IdOf[entries'[c]] = c
  BY <1>1, PublishInstalls, RegistryAssumption DEF Installed
<1>3. NewestIsCurrent' /\ Numbered'
  BY <1>1, PublishNumbers DEF Add
<1>4. /\ refs' = [refs EXCEPT ![r] = 1]
      /\ id' = [id EXCEPT ![r] = next + 1]
      /\ next \in Nat /\ id \in [Records -> Nat]
      /\ UNCHANGED <<retired, reclaimed>>
  BY DEF Add, Publish, TypeOK
<1>5. \A s \in Records : Holders(s)' = Holders(s)
  BY DEF Add, callerVars, Holders
<1>6. /\ Holders(r) = {} /\ Cardinality(Holders(r)) = 0 /\ r \notin Installed
      /\ reclaimed[r] = 0 /\ retired[r] = FALSE
  BY <1>1, UnpublishedIsFresh
<1>7. TypeOK'
  BY <1>2 DEF TypeOK, Add, Publish, callerVars
<1>8. RefsExact'
  <2> SUFFICES ASSUME NEW s \in Records
               PROVE  (refs[s] = Cardinality(Holders(s)) + IF s \in Installed THEN 1 ELSE 0)'
    BY DEF RefsExact
  <2>1. CASE s = r
    <3>1. Holders(r)' = {} /\ r \in Installed' /\ refs'[r] = 1
      BY <1>2, <1>4, <1>5, <1>6 DEF TypeOK
    <3>2. Cardinality(Holders(r)') = 0
      BY <3>1, FS_EmptySet
    <3> QED BY <2>1, <3>1, <3>2
  <2>2. CASE s # r
    BY <1>2, <1>4, <1>5, <2>2 DEF RefsExact, TypeOK
  <2> QED BY <2>1, <2>2
<1>9. ReclaimedExactlyWhenUnused'
  BY <1>2, <1>4, <1>5, <1>6 DEF ReclaimedExactlyWhenUnused, Published
<1>10. RetiredExactly'
  BY <1>2, <1>4, <1>6 DEF RetiredExactly, Published
<1> QED
  BY <1>3, <1>7, <1>8, <1>9, <1>10

(* Reinstall: the fresh generation comes in as the old one is retired.      *)
LEMMA ReinstallStep ==
  ASSUME Inductive, NEW r \in Records, Reinstall(r)
  PROVE  Inductive'
<1> USE DEF Inductive
<1>1. ~Published(r) /\ Publish(r) /\ entries[IdOf[r]] # None
  BY DEF Reinstall
<1>2. PICK old \in Installed : old = entries[IdOf[r]]
  BY <1>1, RegistryAssumption DEF TypeOK, Installed
<1>3. /\ Installed' = (Installed \ {old}) \cup {r}
      /\ entries' \in [Capabilities -> Records \cup {None}]
      /\ \A c \in Capabilities : entries'[c] # None => IdOf[entries'[c]] = c
  BY <1>1, <1>2, PublishInstalls
<1>4. NewestIsCurrent' /\ Numbered'
  BY <1>1, PublishNumbers DEF Reinstall
<1>5. /\ refs' = [refs EXCEPT ![r] = 1, ![old] = @ - 1]
      /\ retired' = [retired EXCEPT ![old] = TRUE]
      /\ reclaimed' = [reclaimed EXCEPT ![old] = IF refs[old] = 1 THEN @ + 1 ELSE @]
      /\ id' = [id EXCEPT ![r] = next + 1]
      /\ next \in Nat /\ id \in [Records -> Nat]
  BY <1>2 DEF Reinstall, Publish, TypeOK
<1>6. \A s \in Records : Holders(s)' = Holders(s)
  BY DEF Reinstall, callerVars, Holders
<1>7. /\ Holders(r) = {} /\ Cardinality(Holders(r)) = 0 /\ r \notin Installed
      /\ reclaimed[r] = 0 /\ retired[r] = FALSE
  BY <1>1, UnpublishedIsFresh
<1>8. /\ old \in Records /\ old # r /\ Published(old)
      /\ refs[old] >= 1 /\ (refs[old] = 1 <=> Holders(old) = {})
  <2>1. old \in Records
    BY DEF Installed
  <2> QED
    BY <1>7, <2>1, LastReference DEF Numbered
<1>9. TypeOK'
  BY <1>3, <1>5, <1>8 DEF TypeOK, Reinstall, Publish, callerVars
<1>10. RefsExact'
  BY <1>3, <1>5, <1>6, <1>7, <1>8, HoldersCount DEF RefsExact, TypeOK
<1>11. ReclaimedExactlyWhenUnused'
  BY <1>3, <1>5, <1>6, <1>7, <1>8 DEF ReclaimedExactlyWhenUnused, Published, TypeOK
<1>12. RetiredExactly'
  BY <1>3, <1>5, <1>7, <1>8 DEF RetiredExactly, Published, TypeOK
<1> QED
  BY <1>4, <1>9, <1>10, <1>11, <1>12

(* Uninstall retires the one generation of c, whose ID tells it apart.      *)
LEMMA UninstallStep ==
  ASSUME Inductive, NEW c \in Capabilities, Uninstall(c)
  PROVE  Inductive'
<1> USE DEF Inductive, TypeOK
<1>1. PICK S \in SUBSET Installed : S = {entries[c]}
  BY DEF Uninstall, Installed
<1>2. /\ entries' = [entries EXCEPT ![c] = None]
      /\ entries' \in [Capabilities -> Records \cup {None}]
      /\ \A d \in Capabilities : entries'[d] # None => IdOf[entries'[d]] = d
  BY DEF Uninstall
<1>3. Installed' = Installed \ S
  <2>1. \A d \in Capabilities : entries[d] = entries[c] => d = c
    BY DEF Uninstall
  <2> QED
    BY <1>1, <1>2, <2>1, RegistryAssumption DEF Installed
<1>4. closed' \in BOOLEAN /\ revision' \in Nat /\ RetireAll(S)
  BY <1>1 DEF Uninstall
<1> QED
  BY <1>1, <1>2, <1>3, <1>4, RetireStep DEF Uninstall

(* Close retires everything that is installed.                              *)
LEMMA CloseStep ==
  ASSUME Inductive, Close
  PROVE  Inductive'
<1> USE DEF Inductive, TypeOK
<1>1. PICK S \in SUBSET Installed : S = Installed
  OBVIOUS
<1>2. Installed' = Installed \ S
  BY <1>1, RegistryAssumption DEF Close, Installed
<1>3. /\ entries' \in [Capabilities -> Records \cup {None}]
      /\ \A c \in Capabilities : entries'[c] # None => IdOf[entries'[c]] = c
      /\ closed' \in BOOLEAN /\ revision' \in Nat /\ RetireAll(S)
  BY <1>1 DEF Close
<1> QED
  BY <1>1, <1>2, <1>3, RetireStep DEF Close

(* The records NewRegistry starts with can be counted: each is the entry of *)
(* a capability.                                                            *)
LEMMA InstalledCount ==
  ASSUME entries \in [Capabilities -> Records \cup {None}]
  PROVE  Cardinality(Installed) \in Nat
<1> DEFINE D == {c \in Capabilities : entries[c] \in Records}
           f == [c \in D |-> entries[c]]
<1>1. IsFiniteSet(D)
  BY RegistryAssumption, FS_Subset
<1>2. f \in Surjection(D, Installed)
  BY DEF Surjection, Installed
<1> QED
  BY <1>1, <1>2, FS_Surjection, FS_CardinalityType

(* NewRegistry: the records it publishes are numbered and held by the       *)
(* registry alone.                                                          *)
LEMMA InductiveInit == Init => Inductive
<1> SUFFICES ASSUME Init PROVE Inductive
  OBVIOUS
<1>1. /\ entries \in [Capabilities -> Records \cup {None}]
      /\ \A c \in Capabilities : entries[c] # None => IdOf[entries[c]] = c
      /\ next \in Nat
  BY InstalledCount DEF Init
<1>2. \A r \in Records : Holders(r) = {} /\ Cardinality(Holders(r)) = 0
  BY HoldersCount DEF Holders, Init
<1>3. TypeOK
  <2>1. id \in [Records -> Nat]
    BY <1>1 DEF Init
  <2>2. refs \in [Records -> Nat]
    BY DEF Init
  <2>3. /\ retired \in [Records -> BOOLEAN]
        /\ reclaimed \in [Records -> Nat]
        /\ pc \in [Callers -> {"idle"}]
        /\ seen \in [Callers -> Nat]
        /\ lease \in [Callers -> Records \cup {None}]
        /\ revision \in Nat
        /\ closed \in BOOLEAN
    BY DEF Init
  <2> QED
    BY <1>1, <2>1, <2>2, <2>3 DEF TypeOK
<1>4. RefsExact /\ ReclaimedExactlyWhenUnused /\ RetiredExactly
  BY <1>2 DEF RefsExact, ReclaimedExactlyWhenUnused, RetiredExactly, Published, Init
<1>5. Numbered
  BY <1>1 DEF Numbered, Published, Init, Installed
<1>6. NewestIsCurrent
  <2> SUFFICES ASSUME NEW r \in Records, NEW s \in Records
               PROVE  /\ Published(r) /\ id[r] = id[s] => r = s
                      /\ r \in Installed /\ IdOf[s] = IdOf[r] => id[s] <= id[r]
    BY DEF NewestIsCurrent
  <2>1. Published(r) /\ id[r] = id[s] => r = s
    BY DEF Published, Init
  <2>2. ASSUME r \in Installed, IdOf[s] = IdOf[r] PROVE id[s] <= id[r]
    <3>1. CASE s \in Installed
      BY <1>1, <2>2, <3>1, RegistryAssumption DEF Installed, Init
    <3>2. CASE s \notin Installed
      BY <1>1, <3>2 DEF Init
    <3> QED BY <3>1, <3>2
  <2> QED BY <2>1, <2>2
<1> QED
  BY <1>3, <1>4, <1>5, <1>6 DEF Inductive

(* Every step of the registry and of its callers keeps the invariant.       *)
LEMMA InductiveStep == Inductive /\ [Next]_vars => Inductive'
<1> SUFFICES ASSUME Inductive, [Next]_vars PROVE Inductive'
  OBVIOUS
<1>1. CASE UNCHANGED vars
  BY <1>1 DEF vars, registryVars, generationVars, callerVars, Inductive, TypeOK, RefsExact,
     ReclaimedExactlyWhenUnused, RetiredExactly, NewestIsCurrent, Numbered, Installed,
     Holders, Published
<1>2. ASSUME NEW r \in Records, Add(r) \/ Reinstall(r) PROVE Inductive'
  BY <1>2, AddStep, ReinstallStep
<1>3. ASSUME NEW c \in Capabilities, Uninstall(c) PROVE Inductive'
  BY <1>3, UninstallStep
<1>4. CASE Close
  BY <1>4, CloseStep
<1>5. ASSUME NEW k \in Callers, pc[k] # "holding", Fail(k),
             UNCHANGED <<registryVars, generationVars>>
      PROVE  Inductive'
  BY <1>5, NoLeaseStep DEF Fail, Inductive, TypeOK
<1>6. ASSUME NEW k \in Callers, NEW c \in Capabilities, entries[c] # None,
             pc[k] # "holding", Take(k, entries[c]), UNCHANGED registryVars
      PROVE  Inductive'
  <2>1. entries[c] \in Installed
    BY <1>6 DEF Inductive, TypeOK, Installed
  <2> QED BY <1>6, <2>1, TakeStep
<1>7. ASSUME NEW k \in Callers, NEW c \in Capabilities, Lookup(k, c) PROVE Inductive'
  BY <1>5, <1>6, <1>7 DEF Lookup
<1>8. ASSUME NEW k \in Callers, NEW q \in Paths, ResolveToolPath(k, q) PROVE Inductive'
  <2>1. CASE Fail(k)
    BY <1>5, <1>8, <2>1 DEF ResolveToolPath
  <2>2. CASE ~Fail(k)
    <3>1. /\ pc[k] # "holding" /\ pc' = [pc EXCEPT ![k] = "resolving"]
          /\ seen' = [seen EXCEPT ![k] = next]
          /\ UNCHANGED <<registryVars, generationVars, lease>>
      BY <1>8, <2>2 DEF ResolveToolPath
    <3>2. seen' \in [Callers -> Nat]
      BY <3>1 DEF Inductive, TypeOK
    <3> QED BY <3>1, <3>2, NoLeaseStep
  <2> QED BY <2>1, <2>2
<1>9. ASSUME NEW k \in Callers, ResolveOperation(k) PROVE Inductive'
  BY <1>5, <1>6, <1>9 DEF ResolveOperation
<1>10. ASSUME NEW k \in Callers, Release(k) PROVE Inductive'
  BY <1>10, ReleaseStep
<1> QED
  BY <1>1, <1>2, <1>3, <1>4, <1>7, <1>8, <1>9, <1>10 DEF Next

(* The registry's inductive invariant: reference counts, reclamation,       *)
(* retirement and generation numbers fit together after any history.        *)
THEOREM InductiveInvariant == Spec => []Inductive
  BY InductiveInit, InductiveStep, PTL DEF Spec

(* Tables, generations and callers always hold values of their types.       *)
THEOREM TypeCorrect == Spec => []TypeOK
<1>1. Inductive => TypeOK
  BY DEF Inductive
<1> QED
  BY <1>1, InductiveInvariant, PTL

(* registryGeneration.refs is exact whatever the callers do.                *)
THEOREM RefsExactHolds == Spec => []RefsExact
<1>1. Inductive => RefsExact
  BY DEF Inductive
<1> QED
  BY <1>1, InductiveInvariant, PTL

(* A package snapshot is released exactly once, when its generation is      *)
(* retired and unleased, never under a caller that still uses it.           *)
THEOREM ReclaimedExactlyWhenUnusedHolds == Spec => []ReclaimedExactlyWhenUnused
<1>1. Inductive => ReclaimedExactlyWhenUnused
  BY DEF Inductive
<1> QED
  BY <1>1, InductiveInvariant, PTL

(* Only generations that were replaced or removed are marked retired, so    *)
(* Lookup and ResolveOperation never find one in the table.                 *)
THEOREM RetiredExactlyHolds == Spec => []RetiredExactly
<1>1. Inductive => RetiredExactly
  BY DEF Inductive
<1> QED
  BY <1>1, InductiveInvariant, PTL

(* The current generation of a capability is the newest it ever had.        *)
THEOREM NewestIsCurrentHolds == Spec => []NewestIsCurrent
<1>1. Inductive => NewestIsCurrent
  BY DEF Inductive
<1> QED
  BY <1>1, InductiveInvariant, PTL

(* Every visible change of the installed set moves the registry revision.   *)
THEOREM RevisionTracksEntriesHolds == Spec => RevisionTracksEntries
<1>1. [Next]_vars => [entries' # entries => revision' = revision + 1 \/ closed']_vars
  <2> SUFFICES ASSUME Next PROVE entries' # entries => revision' = revision + 1 \/ closed'
    OBVIOUS
  <2>1. ASSUME NEW k \in Callers,
               \/ \E c \in Capabilities : Lookup(k, c)
               \/ \E q \in Paths : ResolveToolPath(k, q)
               \/ ResolveOperation(k)
               \/ Release(k)
        PROVE  entries' = entries
    BY <2>1 DEF Lookup, ResolveToolPath, ResolveOperation, Release, registryVars
  <2> QED
    BY <2>1 DEF Next, Add, Reinstall, Publish, Uninstall, Close
<1> QED
  BY <1>1, PTL DEF Spec, RevisionTracksEntries
-----------------------------------------------------------------------------
(* What a caller between the two locked sections of ResolveToolPath may     *)
(* rely on: every installed generation that answers to what it wants, and   *)
(* was there when it matched the path, gives the path that meaning.         *)
Matched(k) ==
  /\ seen[k] <= next
  /\ \A r \in Installed :
       /\ IdOf[r] = want[k][1]
       /\ want[k][2] \in Operations[r]
       /\ id[r] <= seen[k]
       => Denotes(path[k], r, want[k][2])

ExactOrNewer(k) ==
  /\ want[k][2] \in Operations[lease[k]]
  /\ Denotes(path[k], lease[k], want[k][2]) \/ id[lease[k]] > seen[k]

Resolutions ==
  /\ DOMAIN want = Callers /\ DOMAIN path = Callers
  /\ \A k \in Callers :
       /\ pc[k] = "idle" => path[k] = None
       /\ pc[k] = "resolving" => Matched(k)
       /\ pc[k] = "holding" /\ path[k] # None => ExactOrNewer(k)

(* An installed record is the entry of its own capability.                  *)
LEMMA InstalledEntry ==
  ASSUME TypeOK, NEW r \in Installed
  PROVE  r \in Records /\ IdOf[r] \in Capabilities /\ entries[IdOf[r]] = r
BY RegistryAssumption DEF TypeOK, Installed

(* A record with one operation has no other.                                *)
LEMMA OnlyOperation ==
  ASSUME NEW r \in Records, Cardinality(Operations[r]) = 1, NEW o \in Operations[r]
  PROVE  Operations[r] = {o}
<1>1. IsFiniteSet(Operations[r]) /\ 1 \in Nat
  BY RegistryAssumption
<1>2. PICK x : Operations[r] = {x}
  BY <1>1, FS_Singleton
<1> QED
  BY <1>2

(* ResolveToolPath decides for a meaning that the installed records share.  *)
LEMMA MeaningDenotes ==
  ASSUME TypeOK, NEW q, NEW m \in Meanings(q), NEW r \in Installed,
         IdOf[r] = m[1], m[2] \in Operations[r]
  PROVE  Denotes(q, r, m[2])
<1>0. r \in Records /\ entries[IdOf[r]] = r
  BY InstalledEntry
<1>1. CASE \E s \in LegacyMatches(q) : \E o \in Operations[s] : m = <<IdOf[s], o>>
  <2>1. PICK s \in LegacyMatches(q) : \E o \in Operations[s] : m = <<IdOf[s], o>>
    BY <1>1
  <2>2. PICK o \in Operations[s] : m = <<IdOf[s], o>>
    BY <2>1
  <2>3. s \in Installed /\ Cardinality(Operations[s]) = 1 /\ q \in LegacyPaths[s]
    BY DEF LegacyMatches
  <2>4. s = r
    BY <1>0, <2>2, <2>3, InstalledEntry
  <2>5. Operations[r] = {o}
    BY <1>0, <2>3, <2>4, OnlyOperation
  <2> QED
    BY <2>2, <2>3, <2>4, <2>5 DEF Denotes
<1>2. CASE m = <<q, PathOperation[q]>> /\ Operations[entries[q]] = {PathOperation[q]}
  BY <1>0, <1>2 DEF Denotes
<1>3. CASE m = <<PathCapability[q], PathOperation[q]>>
  BY <1>3 DEF Denotes
<1> QED
  BY <1>1, <1>2, <1>3 DEF Meanings

(* A generation published after the match is newer than what was seen.      *)
LEMMA ResolutionsPublish ==
  ASSUME Inductive, Resolutions, NEW r \in Records, ~Published(r), Publish(r),
         UNCHANGED callerVars
  PROVE  Resolutions'
<1>1. /\ UNCHANGED <<pc, want, path, seen, lease>>
      /\ next' = next + 1 /\ next \in Nat
      /\ id'[r] = next + 1 /\ \A s \in Records \ {r} : id'[s] = id[s]
      /\ Installed' \subseteq Installed \cup {r}
      /\ Installed' \subseteq Records
  <2>1. entries' = [entries EXCEPT ![IdOf[r]] = r]
    BY DEF Publish
  <2>2. Installed' \subseteq Installed \cup {r} /\ Installed' \subseteq Records
    BY <2>1, RegistryAssumption DEF Installed, Inductive, TypeOK
  <2> QED
    BY <2>2 DEF Publish, callerVars, Inductive, TypeOK
<1>2. ASSUME NEW k \in Callers, pc[k] = "resolving" PROVE Matched(k)'
  <2>1. Matched(k) /\ seen[k] \in Nat
    BY <1>2 DEF Resolutions, Inductive, TypeOK
  <2>2. ASSUME NEW s \in Installed', IdOf[s] = want[k][1], want[k][2] \in Operations[s],
               id'[s] <= seen[k]
        PROVE  Denotes(path[k], s, want[k][2])
    BY <1>1, <2>1, <2>2 DEF Matched
  <2>3. seen[k] <= next'
    BY <1>1, <2>1 DEF Matched
  <2> QED
    BY <1>1, <2>2, <2>3 DEF Matched, Denotes
<1>3. ASSUME NEW k \in Callers, pc[k] = "holding", path[k] # None PROVE ExactOrNewer(k)'
  <2>1. ExactOrNewer(k) /\ lease[k] \in Records /\ lease[k] # r
    BY <1>3 DEF Resolutions, Inductive, TypeOK, Numbered
  <2> QED
    BY <1>1, <2>1 DEF ExactOrNewer, Denotes
<1> QED
  BY <1>1, <1>2, <1>3 DEF Resolutions

(* Retiring generations takes nothing from those who resolved one.          *)
LEMMA ResolutionsRetire ==
  ASSUME Inductive, Resolutions, Installed' \subseteq Installed,
         UNCHANGED <<next, id, callerVars>>
  PROVE  Resolutions'
BY DEF Resolutions, Matched, ExactOrNewer, Denotes, callerVars

(* A caller moves, the registry does not.                                   *)
LEMMA ResolutionsCaller ==
  ASSUME Inductive, Resolutions, NEW k \in Callers,
         UNCHANGED <<entries, next, id>>,
         pc'[k] \in {"failed", "released"} \/ ((path'[k] = None \/ ExactOrNewer(k)')
                                                 /\ pc'[k] = "holding")
           \/ (pc'[k] = "resolving" /\ Matched(k)'),
         DOMAIN want' = Callers, DOMAIN path' = Callers,
         \A j \in Callers \ {k} : /\ pc'[j] = pc[j] /\ want'[j] = want[j]
                                  /\ path'[j] = path[j] /\ seen'[j] = seen[j]
                                  /\ lease'[j] = lease[j]
  PROVE  Resolutions'
<1>1. Installed' = Installed
  BY DEF Installed
<1>2. \A j \in Callers \ {k} : /\ Matched(j) => Matched(j)'
                               /\ ExactOrNewer(j) => ExactOrNewer(j)'
  BY <1>1 DEF Matched, ExactOrNewer, Denotes
<1> QED
  BY <1>2 DEF Resolutions

(* No step of the registry or of another caller spoils a resolution in      *)
(* flight, and ResolveOperation leases what the match allows.               *)
LEMMA ResolutionsStep == Inductive /\ Resolutions /\ [Next]_vars => Resolutions'
<1> SUFFICES ASSUME Inductive, Resolutions, [Next]_vars PROVE Resolutions'
  OBVIOUS
<1>0. /\ DOMAIN pc = Callers /\ DOMAIN seen = Callers /\ DOMAIN lease = Callers
      /\ DOMAIN want = Callers /\ DOMAIN path = Callers
  BY DEF Inductive, TypeOK, Resolutions
<1>1. CASE UNCHANGED vars
  <2>1. Installed' = Installed
    BY <1>1 DEF Installed, vars, registryVars
  <2> QED
    BY <1>1, <2>1, ResolutionsRetire DEF vars, registryVars
<1>2. ASSUME NEW r \in Records, Add(r) \/ Reinstall(r) PROVE Resolutions'
  BY <1>2, ResolutionsPublish DEF Add, Reinstall
<1>3. ASSUME NEW c \in Capabilities, Uninstall(c) PROVE Resolutions'
  <2>1. Installed' \subseteq Installed
    BY <1>3, RegistryAssumption DEF Uninstall, Installed, Inductive, TypeOK
  <2> QED
    BY <1>3, <2>1, ResolutionsRetire DEF Uninstall
<1>4. CASE Close
  <2>1. Installed' \subseteq Installed
    BY <1>4, RegistryAssumption DEF Close, Installed
  <2> QED
    BY <1>4, <2>1, ResolutionsRetire DEF Close
<1>5. ASSUME NEW k \in Callers, Fail(k), UNCHANGED registryVars PROVE Resolutions'
  BY <1>0, <1>5, ResolutionsCaller DEF Fail, registryVars
<1>6. ASSUME NEW k \in Callers, NEW c \in Capabilities, Lookup(k, c) PROVE Resolutions'
  <2>1. CASE Fail(k)
    BY <1>5, <1>6, <2>1 DEF Lookup
  <2>2. CASE Take(k, entries[c])
    <3>1. path'[k] = None /\ pc'[k] = "holding"
      BY <1>0, <1>6, <2>2 DEF Lookup, Take, Resolutions
    <3> QED
      BY <1>0, <1>6, <2>2, <3>1, ResolutionsCaller DEF Lookup, Take, registryVars
  <2> QED
    BY <1>6, <2>1, <2>2 DEF Lookup
<1>7. ASSUME NEW k \in Callers, NEW q \in Paths, ResolveToolPath(k, q) PROVE Resolutions'
  <2>1. CASE Fail(k)
    BY <1>5, <1>7, <2>1 DEF ResolveToolPath
  <2>2. CASE ~Fail(k)
    <3>1. PICK m \in Meanings(q) :
            /\ pc' = [pc EXCEPT ![k] = "resolving"]
            /\ want' = [want EXCEPT ![k] = m]
            /\ path' = [path EXCEPT ![k] = q]
            /\ seen' = [seen EXCEPT ![k] = next]
            /\ UNCHANGED lease
      BY <1>7, <2>2 DEF ResolveToolPath
    <3>2. UNCHANGED <<entries, next, id>> /\ Installed' = Installed
      BY <1>7 DEF ResolveToolPath, registryVars, Installed
    <3>3. want'[k] = m /\ path'[k] = q /\ seen'[k] = next /\ pc'[k] = "resolving"
      BY <1>0, <3>1
    <3>4. \A r \in Installed : IdOf[r] = m[1] /\ m[2] \in Operations[r] => Denotes(q, r, m[2])
      BY MeaningDenotes DEF Inductive
    <3>5. Matched(k)'
      BY <3>2, <3>3, <3>4 DEF Matched, Denotes, Inductive, TypeOK
    <3> QED
      BY <1>0, <3>1, <3>2, <3>3, <3>5, ResolutionsCaller
  <2> QED BY <2>1, <2>2
<1>8. ASSUME NEW k \in Callers, ResolveOperation(k) PROVE Resolutions'
  <2>1. CASE Fail(k)
    BY <1>5, <1>8, <2>1 DEF ResolveOperation
  <2>2. CASE ~Fail(k)
    <3> DEFINE c == want[k][1]
               r == entries[c]
    <3>1. /\ pc[k] = "resolving" /\ c \in Capabilities /\ r # None
          /\ want[k][2] \in Operations[r]
          /\ Take(k, r) /\ UNCHANGED registryVars
      BY <1>8, <2>2 DEF ResolveOperation
    <3>2. r \in Installed /\ r \in Records /\ IdOf[r] = c
      BY <3>1 DEF Inductive, TypeOK, Installed
    <3>3. Matched(k)
      BY <3>1 DEF Resolutions
    <3>4. Denotes(path[k], r, want[k][2]) \/ id[r] > seen[k]
      BY <3>1, <3>2, <3>3 DEF Matched, Inductive, TypeOK
    <3>5. /\ lease'[k] = r /\ want' = want /\ path' = path /\ seen' = seen /\ id' = id
          /\ pc'[k] = "holding"
      BY <1>0, <3>1 DEF Take, registryVars
    <3>6. ExactOrNewer(k)'
      BY <3>1, <3>4, <3>5 DEF ExactOrNewer, Denotes
    <3> QED
      BY <1>0, <3>1, <3>5, <3>6, ResolutionsCaller DEF Take, registryVars
  <2> QED BY <2>1, <2>2
<1>9. ASSUME NEW k \in Callers, Release(k) PROVE Resolutions'
  BY <1>0, <1>9, ResolutionsCaller DEF Release, registryVars
<1> QED
  BY <1>1, <1>2, <1>3, <1>4, <1>6, <1>7, <1>8, <1>9 DEF Next

(* A lease taken through a tool path disagrees with the path only if its    *)
(* generation was published between the two locked sections of              *)
(* ResolveToolPath, however packages come and go.                           *)
THEOREM PathLeaseExactOrNewerHolds == Spec => []PathLeaseExactOrNewer
<1>1. Init => Resolutions
  BY DEF Init, Resolutions
<1>2. Resolutions => PathLeaseExactOrNewer
  BY DEF Resolutions, ExactOrNewer, PathLeaseExactOrNewer
<1> QED
  BY <1>1, <1>2, InductiveInvariant, ResolutionsStep, PTL DEF Spec
-----------------------------------------------------------------------------
(* The hierarchy is the one of the installed records.                       *)
NodesTrue == ~closed => nodes = Hierarchy(entries)

(* What browseLocked says of a child.                                       *)
ChildRecords == [path : DOMAIN Parent, record : Records \cup {None}]

Views == [path : DOMAIN Parent \cup {Root}, capability : Capabilities \cup {None},
          children : Seq(ChildRecords), revision : Nat]

(* The state of the readers has its types.                                  *)
ReaderTypes ==
  /\ answer = [b \in Readers |-> answer[b]]
  /\ cursor \in [Readers -> Cursors \cup {None}]
  /\ gathered \in [Readers -> Seq(ChildRecords)]
  /\ listing \in [Readers -> Seq(ChildRecords)]
  /\ bpc \in [Readers -> {"idle", "children", "own", "done", "failed"}]
  /\ view \in [Readers -> Views]
  /\ lookups \in [Readers -> Nat]
  /\ names = [b \in Readers |-> names[b]]
  /\ leaves \in [Readers -> BOOLEAN]
  /\ tools = [b \in Readers |-> tools[b]]

(* Nothing was changed since reader b began to browse.                      *)
Fresh(b) == ~closed /\ view[b].revision = revision

(* The pages of reader p: a prefix of the list its first page was cut from, *)
(* which is still the list of the path while the cursor is good.            *)
PagerTrue(p) ==
  /\ Len(gathered[p]) <= Len(listing[p])
  /\ gathered[p] = SubSeq(listing[p], 1, Len(gathered[p]))
  /\ answer[p].kind = "page" /\ cursor[p] = None =>
       answer[p].of.childLimit = 0 \/ gathered[p] = listing[p]
  /\ cursor[p] # None =>
       /\ cursor[p].revision <= revision
       /\ Len(gathered[p]) = cursor[p].offset /\ cursor[p].offset < Len(listing[p])
       /\ ~closed /\ cursor[p].revision = revision =>
            /\ cursor[p].path \in DOMAIN nodes
            /\ listing[p] = BrowseLocked(cursor[p].path)

(* What a reader that browses remembers of the moment it began.             *)
ViewTrue(b) ==
  /\ view[b].revision <= revision
  /\ bpc[b] = "own" => view[b].capability # None
  /\ LET children == view[b].children
     IN  /\ \A i \in 1 .. Len(children) : children[i].record # None => children[i].path \in Capabilities
         /\ \A i, j \in 1 .. Len(children) : children[i].path = children[j].path => i = j

(* Of its lookups only the last one can hold a lease, and only while it is  *)
(* browsing; it leases what comes next.                                     *)
LookupsTrue(b) ==
  /\ lookups[b] <= Len(Lookups[b])
  /\ \A i \in 1 .. Len(Lookups[b]) :
       pc[Lookups[b][i]] = "holding" => i = lookups[b] /\ bpc[b] \in {"children", "own"}
  /\ Reading(b) =>
       /\ bpc[b] = "children" => /\ view[b].children # <<>> /\ Child(b).record # None
                                 /\ IdOf[lease[Slot(b)]] = Child(b).path
       /\ bpc[b] = "own" => IdOf[lease[Slot(b)]] = view[b].capability
       /\ Fresh(b) => lease[Slot(b)] \in Installed

(* The tools it has collected: for each capability those of one generation, *)
(* no target twice, none of a capability that is still to come.             *)
ToolsTrue(b) ==
  /\ \A t \in tools[b] :
       \E r \in Records : Published(r) /\ {u \in tools[b] : u.capability = t.capability} = OwnTools(r)
  /\ \A t, u \in tools[b] : t.target = u.target => t = u
  /\ bpc[b] = "idle" => tools[b] = {}
  /\ bpc[b] = "children" =>
       \A t \in tools[b] : \A i \in 1 .. Len(view[b].children) : view[b].children[i].path # t.capability

(* Which children it has still to come to.                                  *)
Left(b) == {view[b].children[i].path : i \in 1 .. Len(view[b].children)}
Passed(b) == nodes[view[b].path].children \ Left(b)

(* While nothing has changed they are those of the registry.                *)
AnswerTrue(b) ==
  Fresh(b) =>
    /\ bpc[b] \in {"children", "own", "done"} =>
         view[b].path \in DOMAIN nodes /\ view[b].capability = nodes[view[b].path].capability
    /\ bpc[b] = "children" =>
         /\ Left(b) \subseteq nodes[view[b].path].children
         /\ \A i \in 1 .. Len(view[b].children) :
              view[b].children[i].record # None <=> nodes[view[b].children[i].path].capability # None
         /\ tools[b] = UNION {ToolsOf(entries[c]) : c \in {c \in Passed(b) : nodes[c].capability # None}}
         /\ leaves[b] <=> /\ nodes[view[b].path].children # {}
                          /\ \A c \in Passed(b) : nodes[c].capability # None
    /\ bpc[b] = "done" =>
         /\ tools[b] \subseteq ToolsBelow(view[b].path)
         /\ \A t \in ToolsBelow(view[b].path) : \E u \in tools[b] : u.target = t.target

BrowserTrue(b) == ViewTrue(b) /\ LookupsTrue(b) /\ ToolsTrue(b) /\ AnswerTrue(b)

CatalogInv ==
  /\ Inductive /\ Resolutions
  /\ NodesTrue
  /\ ReaderTypes
  /\ \A b \in Readers : PagerTrue(b) /\ BrowserTrue(b)
-----------------------------------------------------------------------------
(* The nodes of the hierarchy: a node stands for the installed capability   *)
(* of its path or for none, and its children are nodes.                     *)
LEMMA NodeFacts ==
  ASSUME TypeOK, NodesTrue, ~closed, NEW n \in DOMAIN nodes
  PROVE  /\ n \in DOMAIN Parent \cup {Root}
         /\ nodes[n].capability \in {n, None}
         /\ nodes[n].capability # None => n \in Capabilities /\ entries[n] \in Records
         /\ nodes[n].children \subseteq DOMAIN nodes \cap DOMAIN Parent
<1> DEFINE present == {Root} \cup UNION {Places[r] : r \in {entries[c] : c \in Capabilities} \ {None}}
<1>1. /\ DOMAIN nodes = present
      /\ nodes[n].capability = IF n \in {c \in Capabilities : entries[c] # None} THEN n ELSE None
      /\ nodes[n].children = {m \in present \ {Root} : Parent[m] = n}
  BY DEF NodesTrue, Hierarchy
<1>2. present \subseteq DOMAIN Parent \cup {Root}
  <2>1. \A r \in {entries[c] : c \in Capabilities} \ {None} : Places[r] \subseteq DOMAIN Parent
    BY SearchAssumption DEF TypeOK
  <2> QED
    BY <2>1
<1> HIDE DEF present
<1> QED
  BY <1>1, <1>2 DEF TypeOK

(* The list of a node's children, sorted: each child once.                  *)
LEMMA BrowseFacts ==
  ASSUME TypeOK, NodesTrue, ~closed, NEW n \in DOMAIN nodes
  PROVE  LET list == BrowseLocked(n)
         IN  /\ list \in Seq(ChildRecords)
             /\ {list[i].path : i \in 1 .. Len(list)} = nodes[n].children
             /\ \A i, j \in 1 .. Len(list) : list[i].path = list[j].path => i = j
             /\ \A i \in 1 .. Len(list) :
                  /\ list[i].record # None <=> nodes[list[i].path].capability # None
                  /\ list[i].record # None => list[i].path \in Capabilities
<1> DEFINE list == BrowseLocked(n)
           places == {i \in DOMAIN PathOrder : PathOrder[i] \in nodes[n].children}
           at == Sorted(places)
           len == Cardinality(places)
           child(m) == [path |-> m, record |-> IF nodes[m].capability = None THEN None
                                               ELSE entries[nodes[m].capability]]
<1>1. /\ PathOrder \in Seq(DOMAIN Parent) /\ Len(PathOrder) \in Nat
      /\ DOMAIN PathOrder = 1 .. Len(PathOrder)
      /\ DOMAIN Parent = {PathOrder[i] : i \in DOMAIN PathOrder}
      /\ \A i, j \in DOMAIN PathOrder : PathOrder[i] = PathOrder[j] => i = j
  BY SearchAssumption DEF IsInjective
<1>2. places \subseteq Nat /\ IsFiniteSet(places) /\ len \in Nat
  <2>1. IsFiniteSet(1 .. Len(PathOrder))
    BY <1>1, FS_Interval
  <2>2. places \subseteq 1 .. Len(PathOrder)
    BY <1>1
  <2> HIDE DEF places
  <2>3. IsFiniteSet(places)
    BY <2>1, <2>2, FS_Subset
  <2> QED
    BY <1>1, <2>2, <2>3, FS_CardinalityType
<1>3. /\ \A i \in 1 .. len : at[i] \in places
      /\ \A i, j \in 1 .. len : i < j => at[i] < at[j]
      /\ \A x \in places : \E i \in 1 .. len : at[i] = x
  <2> HIDE DEF places
  <2> QED
    BY <1>2, SortedSet, Zenon
<1>4. list = [i \in 1 .. len |-> child(PathOrder[at[i]])]
  BY DEF BrowseLocked
<1>5. \A m \in nodes[n].children :
        /\ m \in DOMAIN nodes /\ m \in DOMAIN Parent
        /\ child(m) \in ChildRecords
        /\ child(m).path = m
        /\ child(m).record # None <=> nodes[m].capability # None
        /\ child(m).record # None => m \in Capabilities
  <2> TAKE m \in nodes[n].children
  <2>1. m \in DOMAIN nodes /\ m \in DOMAIN Parent
    BY NodeFacts
  <2>2. /\ nodes[m].capability \in {m, None}
        /\ nodes[m].capability # None => m \in Capabilities /\ entries[m] \in Records
    BY <2>1, NodeFacts
  <2> QED
    BY <2>1, <2>2, RegistryAssumption DEF ChildRecords
<1>6. \A i \in 1 .. len : PathOrder[at[i]] \in nodes[n].children
  BY <1>3
<1>7. \A m \in nodes[n].children : \E i \in 1 .. len : PathOrder[at[i]] = m
  <2> TAKE m \in nodes[n].children
  <2>1. PICK x \in DOMAIN PathOrder : PathOrder[x] = m
    BY <1>1, <1>5
  <2>2. PICK i \in 1 .. len : at[i] = x
    BY <1>3, <2>1
  <2> QED
    BY <2>1, <2>2
<1>8. \A i, j \in 1 .. len : PathOrder[at[i]] = PathOrder[at[j]] => i = j
  <2> SUFFICES ASSUME NEW i \in 1 .. len, NEW j \in 1 .. len, PathOrder[at[i]] = PathOrder[at[j]]
               PROVE  i = j
    OBVIOUS
  <2>1. at[i] \in places /\ at[j] \in places
    BY <1>3
  <2>2. at[i] = at[j]
    BY <1>1, <2>1
  <2>3. at[i] \in Nat /\ i \in Nat /\ j \in Nat
    BY <1>2, <2>1
  <2>4. ~(i < j) /\ ~(j < i)
    BY <1>3, <2>2, <2>3
  <2> QED
    BY <2>3, <2>4
<1> HIDE DEF places, at, len, list, child
<1>9. list \in Seq(ChildRecords) /\ Len(list) = len
  <2>1. list \in [1 .. len -> ChildRecords]
    BY <1>4, <1>5, <1>6
  <2> QED
    BY <1>2, <2>1
<1>10. \A i \in 1 .. len : list[i] = child(PathOrder[at[i]]) /\ list[i].path = PathOrder[at[i]]
  BY <1>4, <1>5, <1>6
<1>11. {list[i].path : i \in 1 .. Len(list)} = nodes[n].children
  BY <1>6, <1>7, <1>9, <1>10
<1>12. \A i, j \in 1 .. Len(list) : list[i].path = list[j].path => i = j
  BY <1>8, <1>9, <1>10
<1>13. \A i \in 1 .. Len(list) :
         /\ list[i].record # None <=> nodes[list[i].path].capability # None
         /\ list[i].record # None => list[i].path \in Capabilities
  BY <1>5, <1>6, <1>9, <1>10
<1> QED
  BY <1>9, <1>11, <1>12, <1>13 DEF list
-----------------------------------------------------------------------------
(* The lookups of a reader are callers of the registry, no two the same.    *)
LEMMA SlotFacts ==
  ASSUME NEW b \in Readers
  PROVE  /\ Lookups[b] \in Seq(Callers) /\ Len(Lookups[b]) \in Nat
         /\ DOMAIN Lookups[b] = 1 .. Len(Lookups[b])
         /\ \A i \in 1 .. Len(Lookups[b]) : Lookups[b][i] \in Callers /\ Lookups[b][i] \notin Clients
         /\ \A i, j \in 1 .. Len(Lookups[b]) : Lookups[b][i] = Lookups[b][j] => i = j
         /\ \A d \in Readers : d # b =>
              \A i \in 1 .. Len(Lookups[b]), j \in 1 .. Len(Lookups[d]) : Lookups[b][i] # Lookups[d][j]
<1>1. \A d \in Readers : /\ Lookups[d] \in Seq(Callers) /\ Len(Lookups[d]) \in Nat
                         /\ DOMAIN Lookups[d] = 1 .. Len(Lookups[d])
  BY CatalogAssumption
<1>2. \A i, j \in 1 .. Len(Lookups[b]) : Lookups[b][i] = Lookups[b][j] => i = j
  BY <1>1, CatalogAssumption DEF IsInjective
<1>3. \A d \in Readers : \A i \in 1 .. Len(Lookups[d]) : Lookups[d][i] \in Range(Lookups[d])
  BY <1>1, Zenon DEF Range
<1>4. \A i \in 1 .. Len(Lookups[b]) : Lookups[b][i] \in Slots
  BY <1>3 DEF Slots
<1>5. \A d \in Readers : d # b => Range(Lookups[b]) \cap Range(Lookups[d]) = {}
  BY CatalogAssumption
<1>6. \A i \in 1 .. Len(Lookups[b]) : Lookups[b][i] \in Callers
  BY <1>1
<1> QED
  BY <1>1, <1>2, <1>3, <1>4, <1>5, <1>6 DEF Clients

(* Readers use the registry as any other caller does.                       *)
LEMMA UsesRegistry ==
  ASSUME CatalogInv, [CatalogNext]_catalogVars
  PROVE  [Next]_vars
<1>1. CASE RegistryStep
  BY <1>1 DEF RegistryStep, Next, Execute, Clients
<1>2. ASSUME NEW b \in Readers, PagerStep(b) PROVE UNCHANGED vars
  BY <1>2 DEF PagerStep, CatalogSearch, DropCursor
<1>3. ASSUME NEW b \in Readers, BrowserStep(b) PROVE [Next]_vars
  <2>1. CASE (\E a \in AskedPaths : Browse(b, a)) \/ BrowseCategory(b) \/ BrowseChildrenDone(b)
    BY <2>1 DEF Browse, BrowseCategory, BrowseChildrenDone
  <2>2. CASE BrowseLookup(b)
    <3> DEFINE c == IF bpc[b] = "own" THEN view[b].capability ELSE Child(b).path
               k == Lookups[b][lookups[b] + 1]
    <3>1. Lookup(k, c)
      BY <2>2 DEF BrowseLookup
    <3>2. lookups[b] \in Nat /\ lookups[b] < Len(Lookups[b])
      BY <2>2 DEF BrowseLookup, CatalogInv, ReaderTypes
    <3>3. k \in Callers
      BY <3>2, SlotFacts
    <3>4. c \in Capabilities
      <4>1. ViewTrue(b) /\ view[b] \in Views
        BY DEF CatalogInv, BrowserTrue, ReaderTypes
      <4>2. CASE bpc[b] = "own"
        BY <4>1, <4>2 DEF ViewTrue, Views
      <4>3. CASE bpc[b] # "own"
        <5>1. /\ bpc[b] = "children" /\ view[b].children # <<>> /\ Child(b).record # None
              /\ c = Child(b).path
          BY <2>2, <4>3 DEF BrowseLookup
        <5>2. view[b].children \in Seq(ChildRecords)
          BY <4>1 DEF Views
        <5>3. Child(b) = view[b].children[1] /\ 1 \in 1 .. Len(view[b].children)
          BY <5>1, <5>2 DEF Child
        <5> QED
          BY <4>1, <5>1, <5>3 DEF ViewTrue
      <4> QED
        BY <4>2, <4>3
    <3> HIDE DEF c, k
    <3> QED
      BY <3>1, <3>3, <3>4 DEF Next
  <2>3. ASSUME Release(Slot(b)), Reading(b) PROVE Next
    <3>1. lookups[b] \in Nat /\ lookups[b] > 0 /\ lookups[b] <= Len(Lookups[b])
      BY <2>3 DEF Reading, CatalogInv, ReaderTypes, BrowserTrue, LookupsTrue
    <3>2. Slot(b) \in Callers
      BY <3>1, SlotFacts DEF Slot
    <3> QED
      BY <2>3, <3>2 DEF Next
  <2>4. CASE BrowseRead(b) \/ BrowseOwn(b)
    BY <2>3, <2>4 DEF BrowseRead, BrowseOwn
  <2> QED
    BY <1>3, <2>1, <2>2, <2>4 DEF BrowserStep
<1>4. CASE UNCHANGED catalogVars
  BY <1>4 DEF catalogVars
<1> QED
  BY <1>1, <1>2, <1>3, <1>4 DEF CatalogNext

(* The registry keeps its own promises; its tables are the hierarchy's.     *)
LEMMA RegistryKept ==
  ASSUME CatalogInv, [Next]_vars
  PROVE  Inductive' /\ Resolutions' /\ NodesTrue'
<1>1. Inductive' /\ Resolutions'
  BY InductiveStep, ResolutionsStep DEF CatalogInv
<1>2. NodesTrue'
  <2>1. CASE UNCHANGED <<entries, nodes, closed>>
    BY <2>1 DEF CatalogInv, NodesTrue, Hierarchy
  <2>2. CASE closed'
    BY <2>2 DEF NodesTrue
  <2>3. CASE nodes' = Hierarchy(entries')
    BY <2>3 DEF NodesTrue, Hierarchy
  <2> QED
    BY <2>1, <2>2, <2>3
    DEF Next, vars, registryVars, Add, Reinstall, Uninstall, Close, Publish, Lookup,
        ResolveToolPath, ResolveOperation, Release
<1> QED
  BY <1>1, <1>2

(* What a step of the registry never does: go back to an earlier revision,  *)
(* change its tables and not its revision, or forget a generation.          *)
LEMMA RegistryMoves ==
  ASSUME TypeOK, [Next]_vars
  PROVE  /\ revision' \in Nat /\ revision <= revision'
         /\ closed => closed'
         /\ ~closed' /\ revision' = revision => UNCHANGED <<entries, nodes>>
         /\ \A r \in Records : Published(r) => Published(r)'
<1>1. CASE \E r \in Records : Add(r) \/ Reinstall(r)
  BY <1>1 DEF Add, Reinstall, Publish, TypeOK, Published
<1>2. CASE UNCHANGED registryVars
  BY <1>2 DEF registryVars, TypeOK, Published
<1>3. CASE \E c \in Capabilities : Uninstall(c)
  <2>1. revision' = revision + 1 /\ UNCHANGED <<closed, id>>
    BY <1>3 DEF Uninstall
  <2> QED
    BY <2>1 DEF TypeOK, Published
<1>4. CASE Close
  <2>1. closed' /\ UNCHANGED <<revision, id>>
    BY <1>4 DEF Close
  <2> QED
    BY <2>1 DEF TypeOK, Published
<1> QED
  BY <1>1, <1>2, <1>3, <1>4 DEF Next, vars, Lookup, ResolveToolPath, ResolveOperation, Release
-----------------------------------------------------------------------------
(* A step leaves what reader b has, and the leases of its lookups, alone.   *)
KeepsPager(b) ==
  /\ answer'[b] = answer[b] /\ cursor'[b] = cursor[b]
  /\ gathered'[b] = gathered[b] /\ listing'[b] = listing[b]
KeepsBrowser(b) ==
  /\ bpc'[b] = bpc[b] /\ view'[b] = view[b] /\ lookups'[b] = lookups[b]
  /\ leaves'[b] = leaves[b] /\ tools'[b] = tools[b]
KeepsSlots(b) ==
  \A i \in 1 .. Len(Lookups[b]) :
    pc'[Lookups[b][i]] = pc[Lookups[b][i]] /\ lease'[Lookups[b][i]] = lease[Lookups[b][i]]

(* A cursor stays true whatever the registry does: it goes stale with the   *)
(* first change.                                                            *)
LEMMA PagerStays ==
  ASSUME CatalogInv, [Next]_vars, NEW p \in Readers, KeepsPager(p)
  PROVE  PagerTrue(p)'
<1>1. PagerTrue(p)
  BY DEF CatalogInv
<1>2. /\ revision' \in Nat /\ revision <= revision' /\ revision \in Nat
      /\ ~closed' /\ revision' = revision => ~closed /\ UNCHANGED <<entries, nodes>>
  BY RegistryMoves DEF CatalogInv, Inductive, TypeOK
<1>3. cursor[p] # None => cursor[p].revision \in Nat
  BY DEF CatalogInv, ReaderTypes, Cursors
<1>4. ASSUME cursor[p] # None, ~closed', cursor[p].revision = revision'
      PROVE  /\ cursor[p].path \in DOMAIN nodes'
             /\ listing[p] = BrowseLocked(cursor[p].path)'
  <2>1. ~closed /\ cursor[p].revision = revision /\ UNCHANGED <<entries, nodes>>
    BY <1>1, <1>2, <1>3, <1>4 DEF PagerTrue
  <2>2. cursor[p].path \in DOMAIN nodes /\ listing[p] = BrowseLocked(cursor[p].path)
    BY <1>1, <1>4, <2>1 DEF PagerTrue
  <2>3. BrowseLocked(cursor[p].path)' = BrowseLocked(cursor[p].path)
    <3>1. cursor[p]' = cursor[p]
      BY DEF KeepsPager
    <3> QED
      BY <2>1, <3>1 DEF BrowseLocked
  <2> QED
    BY <2>1, <2>2, <2>3
<1> QED
  BY <1>1, <1>2, <1>3, <1>4 DEF KeepsPager, PagerTrue

(* So does what a browse has collected, as long as its lookups stay.        *)
LEMMA BrowserStays ==
  ASSUME CatalogInv, [Next]_vars, NEW b \in Readers, KeepsBrowser(b), KeepsSlots(b)
  PROVE  BrowserTrue(b)'
<1>1. ViewTrue(b) /\ LookupsTrue(b) /\ ToolsTrue(b) /\ AnswerTrue(b)
  BY DEF CatalogInv, BrowserTrue
<1>2. /\ revision' \in Nat /\ revision <= revision' /\ revision \in Nat
      /\ ~closed' /\ revision' = revision => ~closed /\ UNCHANGED <<entries, nodes>>
      /\ \A r \in Records : Published(r) => Published(r)'
  BY RegistryMoves DEF CatalogInv, Inductive, TypeOK
<1>0. view[b].revision \in Nat
  BY DEF CatalogInv, ReaderTypes, Views
<1>3. Fresh(b)' => Fresh(b) /\ UNCHANGED <<entries, nodes>>
  BY <1>0, <1>1, <1>2 DEF Fresh, KeepsBrowser, ViewTrue
<1>4. ViewTrue(b)'
  BY <1>0, <1>1, <1>2 DEF KeepsBrowser, ViewTrue
<1>5. LookupsTrue(b)'
  <2>1. /\ lookups[b] \in Nat /\ lookups[b] <= Len(Lookups[b]) /\ Len(Lookups[b]) \in Nat
        /\ lookups'[b] = lookups[b]
    BY <1>1, SlotFacts DEF LookupsTrue, CatalogInv, ReaderTypes, KeepsBrowser
  <2>2. Reading(b)' => Reading(b)
    BY <2>1 DEF Reading, Slot, KeepsSlots
  <2>3. Reading(b) => lease'[Slot(b)] = lease[Slot(b)]
    BY <2>1 DEF Reading, Slot, KeepsSlots
  <2>4. Slot(b)' = Slot(b) /\ Child(b)' = Child(b)
    BY DEF Slot, Child, KeepsBrowser
  <2>5. Fresh(b)' => Installed' = Installed
    BY <1>3 DEF Installed
  <2>6. lease[Slot(b)]' = lease'[Slot(b)]
    BY <2>4
  <2> QED
    BY <1>1, <1>3, <2>2, <2>3, <2>4, <2>5, <2>6 DEF LookupsTrue, KeepsBrowser, KeepsSlots
<1>6. ToolsTrue(b)'
  BY <1>1, <1>2 DEF KeepsBrowser, ToolsTrue
<1>7. AnswerTrue(b)'
  <2>1. Left(b)' = Left(b)
    BY DEF Left, KeepsBrowser
  <2>2. Fresh(b)' => Passed(b)' = Passed(b)
    BY <1>3, <2>1 DEF Passed, KeepsBrowser
  <2>3. Fresh(b)' => ToolsBelow(view[b].path)' = ToolsBelow(view[b].path)
    BY <1>3 DEF ToolsBelow, KeepsBrowser
  <2> QED
    BY <1>1, <1>3, <2>1, <2>2, <2>3 DEF AnswerTrue, KeepsBrowser
<1> QED
  BY <1>4, <1>5, <1>6, <1>7 DEF BrowserTrue

(* A caller's step leaves the other callers alone.                          *)
LEMMA OtherCallers ==
  ASSUME TypeOK, NEW k \in Callers, NEW j \in Callers, j # k,
         \/ \E c : Lookup(k, c)
         \/ \E q : ResolveToolPath(k, q)
         \/ ResolveOperation(k)
         \/ Release(k)
  PROVE  pc'[j] = pc[j] /\ lease'[j] = lease[j]
<1>1. ASSUME NEW c, Lookup(k, c) PROVE pc'[j] = pc[j] /\ lease'[j] = lease[j]
  BY <1>1 DEF Lookup, Fail, Take, TypeOK
<1>2. ASSUME NEW q, ResolveToolPath(k, q) PROVE pc'[j] = pc[j] /\ lease'[j] = lease[j]
  BY <1>2 DEF ResolveToolPath, Fail, TypeOK
<1>3. CASE ResolveOperation(k)
  BY <1>3 DEF ResolveOperation, Fail, Take, TypeOK
<1>4. CASE Release(k)
  BY <1>4 DEF Release, TypeOK
<1> QED
  BY <1>1, <1>2, <1>3, <1>4

(* The steps of the registry's other callers.                               *)
LEMMA RegistryStepKeeps ==
  ASSUME CatalogInv, RegistryStep
  PROVE  CatalogInv'
<1>1. [Next]_vars
  BY UsesRegistry DEF CatalogNext
<1>2. UNCHANGED <<pagerVars, browserVars>>
  BY DEF RegistryStep
<1>3. ASSUME NEW b \in Readers PROVE KeepsSlots(b)
  <2>1. CASE UNCHANGED callerVars
    BY <2>1 DEF callerVars, KeepsSlots
  <2>2. ASSUME NEW k \in Clients, Execute(k) \/ \E c \in Capabilities : Lookup(k, c)
        PROVE  KeepsSlots(b)
    <3>1. k \in Callers /\ TypeOK
      BY DEF Clients, CatalogInv, Inductive
    <3>2. \A i \in 1 .. Len(Lookups[b]) : Lookups[b][i] \in Callers /\ Lookups[b][i] # k
      BY SlotFacts
    <3>3. \/ \E c : Lookup(k, c)
          \/ \E q : ResolveToolPath(k, q)
          \/ ResolveOperation(k)
          \/ Release(k)
      BY <2>2 DEF Execute
    <3> QED
      BY <3>1, <3>2, <3>3, OtherCallers DEF KeepsSlots
  <2> QED
    BY <2>1, <2>2 DEF RegistryStep, Add, Reinstall, Uninstall, Close
<1>4. \A b \in Readers : KeepsPager(b) /\ KeepsBrowser(b)
  BY <1>2 DEF pagerVars, browserVars, KeepsPager, KeepsBrowser
<1>5. \A b \in Readers : PagerTrue(b)' /\ BrowserTrue(b)'
  BY <1>1, <1>3, <1>4, PagerStays, BrowserStays
<1>6. ReaderTypes'
  BY <1>2 DEF pagerVars, browserVars, ReaderTypes, CatalogInv
<1> QED
  BY <1>1, <1>5, <1>6, RegistryKept DEF CatalogInv
-----------------------------------------------------------------------------
(* The smaller of two numbers.                                              *)
LEMMA MinOfTwo ==
  ASSUME NEW m \in Nat, NEW n \in Nat
  PROVE  Min({m, n}) = IF m <= n THEN m ELSE n
<1> DEFINE least == IF m <= n THEN m ELSE n
<1>1. least \in {m, n} /\ \A y \in {m, n} : least <= y
  OBVIOUS
<1>2. \A x \in {m, n} : (\A y \in {m, n} : x <= y) => x = least
  OBVIOUS
<1> HIDE DEF least
<1>3. Min({m, n}) \in {m, n} /\ \A y \in {m, n} : Min({m, n}) <= y
  BY <1>1 DEF Min
<1>4. Min({m, n}) = least
  BY <1>2, <1>3
<1> QED
  BY <1>4 DEF least

(* What a request that is not refused can rely on.                          *)
LEMMA NotRefused ==
  ASSUME NEW p \in Readers, NEW n, Refusal(p, n) = "none"
  PROVE  /\ ~closed /\ n \in DOMAIN nodes
         /\ cursor[p] # None =>
              /\ cursor[p].path = n /\ cursor[p].revision = revision
              /\ ~(cursor[p].offset > Len(BrowseLocked(n)))
BY DEF Refusal

(* The reasons for which a request is refused; a page is none of them.      *)
LEMMA RefusalKinds ==
  ASSUME NEW p, NEW n
  PROVE  Refusal(p, n) \in {"none", "cursor_invalid", "closed", "stale", "path_not_found"}
BY DEF Refusal

(* A refused request leaves the pages as they are or forgets them all.      *)
LEMMA RefuseKeeps ==
  ASSUME CatalogInv, NEW p \in Readers, NEW why, why # "page", Refuse(p, why), UNCHANGED vars
  PROVE  /\ PagerTrue(p)'
         /\ \A q \in Readers : q # p => KeepsPager(q)
         /\ answer' = [q \in Readers |-> answer'[q]]
         /\ cursor' \in [Readers -> Cursors \cup {None}]
         /\ gathered' \in [Readers -> Seq(ChildRecords)]
         /\ listing' \in [Readers -> Seq(ChildRecords)]
<1> USE DEF Refuse
<1>1. ReaderTypes /\ PagerTrue(p)
  BY DEF CatalogInv
<1>2. /\ answer'[p].kind # "page" /\ \A q \in Readers : q # p => answer'[q] = answer[q]
      /\ answer' = [q \in Readers |-> answer'[q]]
  BY <1>1 DEF ReaderTypes
<1>3. CASE why \in {"stale", "closed"}
  <2>0. /\ cursor' = [cursor EXCEPT ![p] = None]
        /\ gathered' = [gathered EXCEPT ![p] = <<>>]
        /\ listing' = [listing EXCEPT ![p] = <<>>]
    BY <1>3
  <2>1. /\ cursor'[p] = None /\ gathered'[p] = <<>> /\ listing'[p] = <<>>
        /\ \A q \in Readers : q # p =>
             cursor'[q] = cursor[q] /\ gathered'[q] = gathered[q] /\ listing'[q] = listing[q]
    BY <1>1, <2>0 DEF ReaderTypes
  <2>4. cursor' \in [Readers -> Cursors \cup {None}]
    BY <1>1, <2>0 DEF ReaderTypes
  <2>5. /\ gathered' \in [Readers -> Seq(ChildRecords)]
        /\ listing' \in [Readers -> Seq(ChildRecords)]
    BY <1>1, <2>0 DEF ReaderTypes
  <2>2. Len(<<>>) = 0 /\ SubSeq(<<>>, 1, 0) = <<>>
    BY SubSeqEmpty
  <2>3. PagerTrue(p)'
    BY <1>2, <2>1, <2>2 DEF PagerTrue
  <2> QED
    BY <1>2, <2>1, <2>3, <2>4, <2>5 DEF KeepsPager
<1>4. CASE why \notin {"stale", "closed"}
  <2>1. UNCHANGED <<cursor, gathered, listing>>
    BY <1>4
  <2>2. BrowseLocked(cursor[p].path)' = BrowseLocked(cursor[p].path)
    BY <2>1 DEF BrowseLocked, vars, registryVars
  <2>3. PagerTrue(p)'
    BY <1>1, <1>2, <2>1, <2>2 DEF PagerTrue, vars, registryVars
  <2> QED
    BY <1>1, <1>2, <2>1, <2>3 DEF KeepsPager, ReaderTypes
<1> QED
  BY <1>3, <1>4

(* The state after a page of reader p, seen from the other parts.           *)
PagerMoved(p) ==
  /\ PagerTrue(p)'
  /\ \A q \in Readers : q # p => KeepsPager(q)
  /\ answer' = [q \in Readers |-> answer'[q]]
  /\ cursor' \in [Readers -> Cursors \cup {None}]
  /\ gathered' \in [Readers -> Seq(ChildRecords)]
  /\ listing' \in [Readers -> Seq(ChildRecords)]

(* A page: it begins where the last one ended, in the same list.            *)
LEMMA PageServed ==
  ASSUME CatalogInv, NEW p \in Readers, NEW x \in Requests, NEW n, NEW results, UNCHANGED vars,
         Refusal(p, n) = "none",
         LET offset == IF cursor[p] = None THEN 0 ELSE cursor[p].offset
             list == BrowseLocked(n)
             end == Min({offset + x.childLimit, Len(list)})
         IN  /\ answer' = [answer EXCEPT ![p] =
                   [kind |-> "page", of |-> x, results |-> results, total |-> Len(list)]]
             /\ cursor' = [cursor EXCEPT ![p] =
                   IF x.childLimit > 0 /\ end < Len(list)
                   THEN [path |-> n, revision |-> revision, offset |-> end] ELSE None]
             /\ gathered' = [gathered EXCEPT ![p] =
                   (IF offset = 0 THEN <<>> ELSE @) \o SubSeq(list, offset + 1, end)]
             /\ listing' = [listing EXCEPT ![p] = IF offset = 0 THEN list ELSE @]
  PROVE  PagerMoved(p)
<1> DEFINE offset == IF cursor[p] = None THEN 0 ELSE cursor[p].offset
           list == BrowseLocked(n)
           end == Min({offset + x.childLimit, Len(list)})
           base == IF offset = 0 THEN <<>> ELSE gathered[p]
           more == x.childLimit > 0 /\ end < Len(list)
           mark == [path |-> n, revision |-> revision, offset |-> end]
<1>1. ReaderTypes /\ PagerTrue(p) /\ TypeOK /\ NodesTrue
  BY DEF CatalogInv, Inductive
<1>2. /\ ~closed /\ n \in DOMAIN nodes
      /\ cursor[p] # None =>
           cursor[p].path = n /\ cursor[p].revision = revision /\ ~(cursor[p].offset > Len(list))
  BY NotRefused
<1>3. list \in Seq(ChildRecords) /\ Len(list) \in Nat
  BY <1>1, <1>2, BrowseFacts
<1>4. n \in DOMAIN Parent \cup {Root} /\ revision \in Nat /\ x.childLimit \in Nat
  BY <1>1, <1>2, NodeFacts, CatalogAssumption DEF TypeOK
<1>5. offset \in Nat /\ offset <= Len(list)
  <2>1. cursor[p] # None => cursor[p].offset \in Nat
    BY <1>1 DEF ReaderTypes, Cursors
  <2> HIDE DEF list
  <2> QED
    BY <1>2, <1>3, <2>1
<1>6. /\ end \in Nat /\ offset <= end /\ end <= Len(list)
      /\ x.childLimit = 0 \/ more \/ end = Len(list)
  <2> HIDE DEF list, offset
  <2>1. end = IF offset + x.childLimit <= Len(list) THEN offset + x.childLimit ELSE Len(list)
    <3>1. offset + x.childLimit \in Nat /\ Len(list) \in Nat
      BY <1>3, <1>4, <1>5
    <3> QED
      BY <3>1, MinOfTwo, Zenon
  <2> QED
    BY <1>3, <1>4, <1>5, <2>1
<1>7. base = SubSeq(list, 1, offset) /\ base \in Seq(ChildRecords)
  <2>1. CASE offset = 0
    <3>1. SubSeq(list, 1, 0) = <<>>
      BY SubSeqEmpty
    <3> QED
      BY <2>1, <3>1
  <2>2. CASE offset # 0
    <3>1. cursor[p] # None
      BY <2>2
    <3>2. listing[p] = list /\ Len(gathered[p]) = offset
      BY <1>1, <1>2, <3>1 DEF PagerTrue
    <3>3. gathered[p] = SubSeq(listing[p], 1, Len(gathered[p]))
      BY <1>1 DEF PagerTrue
    <3> QED
      BY <1>1, <2>2, <3>2, <3>3 DEF ReaderTypes
  <2> QED
    BY <2>1, <2>2
<1>8. (IF offset = 0 THEN list ELSE listing[p]) = list
  BY <1>1, <1>2 DEF PagerTrue
<1>9. /\ cursor' = [cursor EXCEPT ![p] = IF more THEN mark ELSE None]
      /\ gathered' = [gathered EXCEPT ![p] = base \o SubSeq(list, offset + 1, end)]
      /\ listing' = [listing EXCEPT ![p] = list]
  BY <1>1, <1>8 DEF ReaderTypes
<1>10. answer'[p].kind = "page" /\ answer'[p].of = x
  BY <1>1 DEF ReaderTypes
<1>11. /\ answer' = [q \in Readers |-> answer'[q]]
       /\ \A q \in Readers : q # p => answer'[q] = answer[q]
  BY <1>1 DEF ReaderTypes
<1> HIDE DEF list, offset, end, base, more
<1>12. base \o SubSeq(list, offset + 1, end) = SubSeq(list, 1, end)
  <2>1. 1 \in 1 .. Len(list) + 1 /\ offset \in 1 - 1 .. Len(list) /\ end \in offset .. Len(list)
    BY <1>3, <1>5, <1>6
  <2>2. SubSeq(list, 1, offset) \o SubSeq(list, offset + 1, end) = SubSeq(list, 1, end)
    BY <1>3, <2>1, ConcatAdjacentSubSeq, Zenon
  <2> QED
    BY <1>7, <2>2, Zenon
<1>13. SubSeq(list, 1, end) \in Seq(ChildRecords) /\ Len(SubSeq(list, 1, end)) = end
  <2>1. \A i \in 1 .. end : list[i] \in ChildRecords
    BY <1>3, <1>6
  <2>2. 1 \in Int /\ end \in Int
    BY <1>6
  <2>3. SubSeq(list, 1, end) \in Seq(ChildRecords)
    BY <2>1, <2>2, SubSeqProperties
  <2>4. Len(SubSeq(list, 1, end)) = IF 1 <= end THEN end - 1 + 1 ELSE 0
    BY <2>1, <2>2, SubSeqProperties
  <2> QED
    BY <1>6, <2>3, <2>4
<1>14. mark \in Cursors /\ mark # None
  BY <1>4, <1>6, CatalogAssumption DEF Cursors
<1>15. /\ gathered'[p] = SubSeq(list, 1, end) /\ listing'[p] = list
       /\ cursor'[p] = IF more THEN mark ELSE None
       /\ \A q \in Readers : q # p =>
            cursor'[q] = cursor[q] /\ gathered'[q] = gathered[q] /\ listing'[q] = listing[q]
  BY <1>1, <1>9, <1>12 DEF ReaderTypes
<1>16. cursor' \in [Readers -> Cursors \cup {None}]
  BY <1>1, <1>9, <1>14 DEF ReaderTypes
<1>17. gathered' \in [Readers -> Seq(ChildRecords)] /\ listing' \in [Readers -> Seq(ChildRecords)]
  <2>1. gathered \in [Readers -> Seq(ChildRecords)] /\ listing \in [Readers -> Seq(ChildRecords)]
    BY <1>1 DEF ReaderTypes
  <2>2. gathered' = [gathered EXCEPT ![p] = SubSeq(list, 1, end)]
    BY <1>9, <1>12
  <2>3. gathered' \in [Readers -> Seq(ChildRecords)]
    BY <1>13, <2>1, <2>2
  <2>4. listing' \in [Readers -> Seq(ChildRecords)]
    BY <1>3, <1>9, <2>1
  <2> QED
    BY <2>3, <2>4
<1>18. BrowseLocked(n)' = list
  BY DEF list, BrowseLocked, vars, registryVars
<1>19. end = Len(list) => SubSeq(list, 1, end) = list
  BY <1>3, SubSeqFull
<1>20. PagerTrue(p)'
  <2>1. Len(gathered'[p]) = end /\ Len(listing'[p]) = Len(list)
    BY <1>13, <1>15
  <2>2. gathered'[p] = SubSeq(listing'[p], 1, Len(gathered'[p]))
    BY <1>15, <2>1
  <2>3. cursor'[p] = None => answer'[p].of.childLimit = 0 \/ gathered'[p] = listing'[p]
    BY <1>6, <1>10, <1>14, <1>15, <1>19
  <2>4. ASSUME cursor'[p] # None
        PROVE  /\ cursor'[p].revision <= revision'
               /\ end = cursor'[p].offset /\ cursor'[p].offset < Len(list)
               /\ cursor'[p].path \in DOMAIN nodes'
               /\ list = BrowseLocked(cursor[p].path)'
    <3>1. cursor'[p] = mark /\ more
      BY <1>15, <2>4
    <3>2. cursor'[p].path = n
      BY <3>1
    <3>3. BrowseLocked(cursor[p].path)' = BrowseLocked(n)'
      BY <3>2
    <3>4. end < Len(list)
      BY <3>1 DEF more
    <3>5. revision' = revision /\ nodes' = nodes
      BY DEF vars, registryVars
    <3>6. cursor'[p].offset = end /\ cursor'[p].revision = revision
      <4>1. mark.offset = end /\ mark.revision = revision
        BY Zenon
      <4> HIDE DEF mark
      <4> QED
        BY <3>1, <4>1, Zenon
    <3> HIDE DEF mark
    <3> QED
      BY <1>2, <1>4, <1>6, <1>18, <3>2, <3>3, <3>4, <3>5, <3>6
  <2> QED
    BY <1>6, <1>15, <2>1, <2>2, <2>3, <2>4 DEF PagerTrue
<1> QED
  BY <1>11, <1>15, <1>16, <1>17, <1>20 DEF PagerMoved, KeepsPager

(* The steps of a reader that pages.                                        *)
LEMMA PagerStepKeeps ==
  ASSUME CatalogInv, NEW p \in Readers, PagerStep(p)
  PROVE  CatalogInv'
<1>1. UNCHANGED vars /\ UNCHANGED browserVars
  BY DEF PagerStep, CatalogSearch, DropCursor
<1>2. [Next]_vars
  BY <1>1
<1>3. ASSUME NEW why, why # "page", Refuse(p, why) PROVE PagerMoved(p)
  BY <1>1, <1>3, RefuseKeeps DEF PagerMoved
<1>4. PagerMoved(p)
  <2>1. ASSUME NEW x \in Requests, CatalogSearch(p, x) PROVE PagerMoved(p)
    <3> DEFINE n == Normal(x.path)
               offset == IF cursor[p] = None THEN 0 ELSE cursor[p].offset
               results == SearchResults(x.query, n, x.limit)
               end == Min({offset + x.childLimit, Len(BrowseLocked(n))})
    <3>1. IF Refusal(p, n) # "none" THEN Refuse(p, Refusal(p, n))
          ELSE SearchPage(p, x, n, BrowseLocked(n), results, offset, end)
      BY <2>1 DEF CatalogSearch
    <3>2. CASE Refusal(p, n) # "none"
      BY <1>3, <3>1, <3>2, RefusalKinds
    <3>3. CASE Refusal(p, n) = "none" /\ Len(results) + end - offset > ResponseMax
      <4>1. Refuse(p, "quota")
        BY <3>1, <3>3 DEF SearchPage
      <4> QED
        BY <1>3, <4>1
    <3>4. CASE Refusal(p, n) = "none" /\ ~(Len(results) + end - offset > ResponseMax)
      <4> HIDE DEF n, results
      <4>1. SearchPage(p, x, n, BrowseLocked(n), results, offset, end)
        BY <3>1, <3>4
      <4>2. /\ answer' = [answer EXCEPT ![p] =
                   [kind |-> "page", of |-> x, results |-> results, total |-> Len(BrowseLocked(n))]]
            /\ cursor' = [cursor EXCEPT ![p] =
                   IF x.childLimit > 0 /\ end < Len(BrowseLocked(n))
                   THEN [path |-> n, revision |-> revision, offset |-> end] ELSE None]
            /\ gathered' = [gathered EXCEPT ![p] =
                   (IF offset = 0 THEN <<>> ELSE @) \o SubSeq(BrowseLocked(n), offset + 1, end)]
            /\ listing' = [listing EXCEPT ![p] = IF offset = 0 THEN BrowseLocked(n) ELSE @]
        BY <3>4, <4>1 DEF SearchPage
      <4> QED
        BY <1>1, <3>4, <4>2, PageServed
    <3> QED
      BY <3>2, <3>3, <3>4
  <2>2. ASSUME DropCursor(p) PROVE PagerMoved(p)
    <3>1. /\ cursor' = [cursor EXCEPT ![p] = None]
          /\ gathered' = [gathered EXCEPT ![p] = <<>>]
          /\ listing' = [listing EXCEPT ![p] = <<>>]
          /\ answer' = [answer EXCEPT ![p] = [kind |-> "none"]]
      BY <2>2 DEF DropCursor
    <3>2. ReaderTypes
      BY DEF CatalogInv
    <3>3. /\ cursor'[p] = None /\ gathered'[p] = <<>> /\ listing'[p] = <<>>
          /\ answer'[p].kind # "page"
      BY <3>1, <3>2 DEF ReaderTypes
    <3>4. \A q \in Readers : q # p => KeepsPager(q)
      BY <3>1, <3>2 DEF ReaderTypes, KeepsPager
    <3>5. answer' = [q \in Readers |-> answer'[q]] /\ cursor' \in [Readers -> Cursors \cup {None}]
      BY <3>1, <3>2 DEF ReaderTypes
    <3>6. gathered' \in [Readers -> Seq(ChildRecords)] /\ listing' \in [Readers -> Seq(ChildRecords)]
      BY <3>1, <3>2 DEF ReaderTypes
    <3>7. Len(<<>>) = 0 /\ SubSeq(<<>>, 1, 0) = <<>>
      BY SubSeqEmpty
    <3>8. PagerTrue(p)'
      BY <3>3, <3>7 DEF PagerTrue
    <3> QED
      BY <3>4, <3>5, <3>6, <3>8 DEF PagerMoved
  <2> QED
    BY <2>1, <2>2 DEF PagerStep
<1>5. \A q \in Readers : PagerTrue(q)'
  BY <1>2, <1>4, PagerStays DEF PagerMoved
<1>6. \A b \in Readers : KeepsBrowser(b) /\ KeepsSlots(b)
  BY <1>1 DEF browserVars, vars, callerVars, KeepsBrowser, KeepsSlots
<1>7. \A b \in Readers : BrowserTrue(b)'
  BY <1>2, <1>6, BrowserStays
<1>8. ReaderTypes'
  BY <1>1, <1>4 DEF PagerMoved, browserVars, ReaderTypes, CatalogInv
<1> QED
  BY <1>2, <1>5, <1>7, <1>8, RegistryKept DEF CatalogInv
-----------------------------------------------------------------------------
(* The largest of finitely many numbers.                                    *)
LEMMA Largest ==
  ASSUME NEW S, S \subseteq Nat, IsFiniteSet(S), S # {}
  PROVE  \E m \in S : \A x \in S : x <= m
<1> DEFINE n == Cardinality(S)
<1>1. n \in Nat /\ n # 0
  BY FS_CardinalityType, FS_EmptySet
<1>2. /\ \A i \in 1 .. n : Sorted(S)[i] \in S
      /\ \A i, j \in 1 .. n : i < j => Sorted(S)[i] < Sorted(S)[j]
      /\ \A x \in S : \E i \in 1 .. n : Sorted(S)[i] = x
  BY SortedSet, Zenon
<1> HIDE DEF n
<1>3. n \in 1 .. n /\ Sorted(S)[n] \in S
  BY <1>1, <1>2
<1>4. ASSUME NEW x \in S PROVE x <= Sorted(S)[n]
  <2>1. PICK i \in 1 .. n : Sorted(S)[i] = x
    BY <1>2
  <2>2. i = n \/ i < n
    BY <1>1
  <2>3. Sorted(S)[n] \in Nat /\ x \in Nat
    BY <1>3
  <2> QED
    BY <1>2, <1>3, <2>1, <2>2, <2>3
<1> QED
  BY <1>3, <1>4

(* The tool of an operation.                                                *)
ToolOf(r, o) ==
  [target |-> Target[r][o], path |-> ToolPath[r][o], capability |-> IdOf[r], operation |-> o]

(* A record's tools, and the map by target: it has each target once.        *)
LEMMA ToolFacts ==
  ASSUME NEW r \in Records
  PROVE  /\ ToolsOf(r) = {ToolOf(r, o) : o \in Operations[r]}
         /\ \A t \in ToolsOf(r) :
              /\ t.operation \in Operations[r] /\ t = ToolOf(r, t.operation)
              /\ t.target = Target[r][t.operation] /\ t.path = ToolPath[r][t.operation]
              /\ t.capability = IdOf[r]
         /\ \A o \in Operations[r] : ToolOf(r, o) \in ToolsOf(r)
         /\ OwnTools(r) \subseteq ToolsOf(r)
BY DEF ToolsOf, ToolOf, OwnTools

(* The map by target: each target once, none is lost, and without           *)
(* duplicates it holds all the tools.                                       *)
LEMMA OwnToolsFacts ==
  ASSUME NEW r \in Records
  PROVE  /\ \A t, u \in OwnTools(r) : t.target = u.target => t = u
         /\ \A t \in ToolsOf(r) : \E u \in OwnTools(r) : u.target = t.target
         /\ (\A o, u \in Operations[r] : Target[r][o] = Target[r][u] => o = u) =>
              OwnTools(r) = ToolsOf(r)
<1> DEFINE list == OperationList[r]
           target(i) == Target[r][list[i].id]
<1>1. /\ Len(list) \in Nat /\ DOMAIN list = 1 .. Len(list)
      /\ {list[i].id : i \in DOMAIN list} = Operations[r]
      /\ \A i, j \in DOMAIN list : list[i].id = list[j].id => i = j
  BY SearchAssumption
<1>2. OwnTools(r) = {t \in ToolsOf(r) : \A i, j \in DOMAIN list :
                       i < j /\ target(i) = target(j) => t.operation # list[i].id}
  BY DEF OwnTools
<1> HIDE DEF list
<1>3. \A t \in ToolsOf(r) : \E i \in DOMAIN list : t.operation = list[i].id /\ t.target = target(i)
  BY <1>1, ToolFacts
<1>4. ASSUME NEW t \in OwnTools(r), NEW u \in OwnTools(r), t.target = u.target
      PROVE  t = u
  <2>1. t \in ToolsOf(r) /\ u \in ToolsOf(r)
    BY ToolFacts
  <2>2. PICK i \in DOMAIN list : t.operation = list[i].id /\ t.target = target(i)
    BY <1>3, <2>1
  <2>3. PICK j \in DOMAIN list : u.operation = list[j].id /\ u.target = target(j)
    BY <1>3, <2>1
  <2>4. i \in Nat /\ j \in Nat
    BY <1>1
  <2>5. ~(i < j) /\ ~(j < i)
    BY <1>2, <1>4, <2>2, <2>3
  <2>6. i = j
    BY <2>4, <2>5
  <2> QED
    BY <2>1, <2>2, <2>3, <2>6, ToolFacts
<1>5. ASSUME NEW t \in ToolsOf(r)
      PROVE  \E u \in OwnTools(r) : u.target = t.target
  <2> DEFINE S == {i \in DOMAIN list : target(i) = t.target}
  <2>1. S \subseteq Nat /\ S \subseteq 1 .. Len(list) /\ S # {}
    BY <1>1, <1>3
  <2>2. IsFiniteSet(S)
    <3>1. IsFiniteSet(1 .. Len(list))
      BY <1>1, FS_Interval
    <3> HIDE DEF S
    <3> QED
      BY <2>1, <3>1, FS_Subset
  <2>3. PICK m \in S : \A x \in S : x <= m
    BY <2>1, <2>2, Largest, Zenon
  <2>4. m \in DOMAIN list /\ target(m) = t.target
    OBVIOUS
  <2> DEFINE u == ToolOf(r, list[m].id)
  <2>5. list[m].id \in Operations[r]
    BY <1>1, <2>4
  <2>6. u \in ToolsOf(r) /\ u.operation = list[m].id /\ u.target = t.target
    BY <2>4, <2>5, ToolFacts DEF ToolOf
  <2>7. ASSUME NEW i \in DOMAIN list, NEW j \in DOMAIN list, i < j, target(i) = target(j)
        PROVE  u.operation # list[i].id
    <3>1. SUFFICES ASSUME i = m PROVE FALSE
      BY <1>1, <2>4, <2>6
    <3>2. j \in S
      BY <2>4, <2>7, <3>1
    <3> QED
      BY <1>1, <2>3, <2>7, <3>1, <3>2
  <2> HIDE DEF u
  <2>8. u \in OwnTools(r)
    BY <1>2, <2>6, <2>7
  <2> QED
    BY <2>6, <2>8
<1>6. ASSUME \A o, u \in Operations[r] : Target[r][o] = Target[r][u] => o = u
      PROVE  OwnTools(r) = ToolsOf(r)
  <2>1. \A i, j \in DOMAIN list : target(i) = target(j) => i = j
    BY <1>1, <1>6
  <2>2. \A i, j \in DOMAIN list : ~(i < j /\ target(i) = target(j))
    BY <1>1, <2>1
  <2> QED
    BY <1>2, <2>2
<1> QED
  BY <1>4, <1>5, <1>6
-----------------------------------------------------------------------------
(* A step of reader b, seen from the other parts.                           *)
BrowserMoved(b) ==
  /\ BrowserTrue(b)'
  /\ \A d \in Readers : d # b => KeepsBrowser(d) /\ KeepsSlots(d)
  /\ UNCHANGED pagerVars
  /\ ReaderTypes'

(* The other readers, the pages and the registry stay true while one reader *)
(* browses.                                                                 *)
LEMMA BrowserMovedKeeps ==
  ASSUME CatalogInv, [Next]_vars, NEW b \in Readers, BrowserMoved(b)
  PROVE  CatalogInv'
<1>1. \A d \in Readers : BrowserTrue(d)'
  BY BrowserStays DEF BrowserMoved
<1>2. \A d \in Readers : PagerTrue(d)'
  BY PagerStays DEF BrowserMoved, KeepsPager, pagerVars
<1> QED
  BY <1>1, <1>2, RegistryKept DEF CatalogInv, BrowserMoved

(* No lookup of reader b holds a lease.                                     *)
NoneHeld(b) == \A i \in 1 .. Len(Lookups[b]) : pc[Lookups[b][i]] # "holding"

(* Only the last lookup of a reader can hold a lease.                       *)
LEMMA NoneHeldUnlessReading ==
  ASSUME CatalogInv, NEW b \in Readers, ~Reading(b)
  PROVE  NoneHeld(b)
<1>1. LookupsTrue(b) /\ lookups[b] \in Nat
  BY DEF CatalogInv, BrowserTrue, ReaderTypes
<1>2. ASSUME NEW i \in 1 .. Len(Lookups[b]), pc[Lookups[b][i]] = "holding" PROVE FALSE
  <2>1. i = lookups[b]
    BY <1>1, <1>2 DEF LookupsTrue
  <2> QED
    BY <1>2, <2>1, SlotFacts DEF Reading, Slot
<1> QED
  BY <1>2 DEF NoneHeld

(* An idle reader holds none.                                               *)
LEMMA IdleHoldsNone ==
  ASSUME CatalogInv, NEW b \in Readers, bpc[b] = "idle"
  PROVE  ~Reading(b)
<1>1. LookupsTrue(b) /\ lookups[b] \in Nat
  BY DEF CatalogInv, BrowserTrue, ReaderTypes
<1>2. lookups[b] > 0 => lookups[b] \in 1 .. Len(Lookups[b])
  BY <1>1, SlotFacts DEF LookupsTrue
<1> QED
  BY <1>1, <1>2 DEF LookupsTrue, Reading, Slot

(* While nothing is held, what is said of the lookups holds.                *)
LEMMA NoneHeldNext ==
  ASSUME NEW b \in Readers, NoneHeld(b)', lookups'[b] \in Nat, lookups'[b] <= Len(Lookups[b])
  PROVE  LookupsTrue(b)'
<1>1. lookups'[b] > 0 => lookups'[b] \in 1 .. Len(Lookups[b])
  BY SlotFacts
<1>2. ~Reading(b)'
  BY <1>1 DEF Reading, Slot, NoneHeld
<1> QED
  BY <1>2 DEF LookupsTrue, NoneHeld

(* A browse that ends with an error.                                        *)
LEMMA FailedTrue ==
  ASSUME CatalogInv, NEW b \in Readers, [Next]_vars,
         bpc'[b] = "failed", view'[b] = view[b], tools'[b] = tools[b],
         NoneHeld(b)', lookups'[b] \in Nat, lookups'[b] <= Len(Lookups[b])
  PROVE  BrowserTrue(b)'
<1>1. ViewTrue(b) /\ ToolsTrue(b) /\ view[b].revision \in Nat
  BY DEF CatalogInv, BrowserTrue, ReaderTypes, Views
<1>2. /\ revision' \in Nat /\ revision <= revision' /\ revision \in Nat
      /\ \A r \in Records : Published(r) => Published(r)'
  BY RegistryMoves DEF CatalogInv, Inductive, TypeOK
<1>3. ViewTrue(b)'
  BY <1>1, <1>2 DEF ViewTrue
<1>4. ToolsTrue(b)'
  BY <1>1, <1>2 DEF ToolsTrue
<1>5. AnswerTrue(b)'
  BY DEF AnswerTrue
<1>6. LookupsTrue(b)'
  BY NoneHeldNext
<1> QED
  BY <1>3, <1>4, <1>5, <1>6 DEF BrowserTrue

(* Steps that leave the registry alone leave the lookups alone.             *)
LEMMA QuietSlots ==
  ASSUME UNCHANGED vars
  PROVE  \A d \in Readers : KeepsSlots(d)
BY DEF vars, callerVars, KeepsSlots

(* capabilityBackend.Browse begins with an empty answer.                    *)
LEMMA BrowseStep ==
  ASSUME CatalogInv, NEW b \in Readers, NEW a, Browse(b, a)
  PROVE  BrowserMoved(b)
<1> DEFINE n == Normal(a)
<1>1. /\ bpc[b] = "idle"
      /\ UNCHANGED <<pagerVars, lookups, names, tools>> /\ UNCHANGED vars
  BY DEF Browse
<1>2. ReaderTypes /\ TypeOK /\ NodesTrue
  BY DEF CatalogInv, Inductive
<1>3. \A d \in Readers : KeepsSlots(d)
  BY <1>1, QuietSlots
<1>4. NoneHeld(b)' /\ lookups'[b] \in Nat /\ lookups'[b] <= Len(Lookups[b])
  <2>1. NoneHeld(b) /\ lookups[b] \in Nat /\ lookups[b] <= Len(Lookups[b])
    BY <1>1, IdleHoldsNone, NoneHeldUnlessReading
    DEF CatalogInv, ReaderTypes, BrowserTrue, LookupsTrue
  <2> QED
    BY <1>1, <2>1 DEF NoneHeld, vars, callerVars
<1>5. tools[b] = {} /\ tools'[b] = {}
  BY <1>1 DEF CatalogInv, BrowserTrue, ToolsTrue
<1>6. CASE closed \/ n \notin DOMAIN nodes
  <2>1. bpc' = [bpc EXCEPT ![b] = "failed"] /\ UNCHANGED <<view, leaves>>
    BY <1>6 DEF Browse, BrowseFails
  <2>2. BrowserTrue(b)'
    BY <1>1, <1>2, <1>4, <2>1, FailedTrue DEF ReaderTypes
  <2>3. \A d \in Readers : d # b => KeepsBrowser(d)
    BY <1>1, <1>2, <2>1 DEF KeepsBrowser, ReaderTypes
  <2>4. ReaderTypes'
    BY <1>1, <1>2, <2>1 DEF ReaderTypes, pagerVars
  <2> QED
    BY <1>1, <1>3, <2>2, <2>3, <2>4 DEF BrowserMoved
<1>7. CASE ~closed /\ n \in DOMAIN nodes
  <2> DEFINE list == BrowseLocked(n)
             v == [path |-> n, capability |-> nodes[n].capability,
                   children |-> list, revision |-> revision]
  <2>1. /\ bpc' = [bpc EXCEPT ![b] = "children"]
        /\ view' = [view EXCEPT ![b] = v]
        /\ leaves' = [leaves EXCEPT ![b] = (list # <<>>)]
    BY <1>7 DEF Browse
  <2>2. /\ list \in Seq(ChildRecords)
        /\ {list[i].path : i \in 1 .. Len(list)} = nodes[n].children
        /\ \A i, j \in 1 .. Len(list) : list[i].path = list[j].path => i = j
        /\ \A i \in 1 .. Len(list) :
             /\ list[i].record # None <=> nodes[list[i].path].capability # None
             /\ list[i].record # None => list[i].path \in Capabilities
    BY <1>2, <1>7, BrowseFacts
  <2>3. v \in Views
    <3>1. /\ n \in DOMAIN Parent \cup {Root} /\ nodes[n].capability \in Capabilities \cup {None}
          /\ revision \in Nat
      BY <1>2, <1>7, NodeFacts DEF TypeOK
    <3> QED
      BY <2>2, <3>1 DEF Views
  <2> HIDE DEF n, list
  <2>4. /\ bpc'[b] = "children" /\ view'[b] = v /\ leaves'[b] = (list # <<>>)
        /\ \A d \in Readers : d # b => KeepsBrowser(d)
    BY <1>1, <1>2, <2>1 DEF ReaderTypes, KeepsBrowser
  <2>5. /\ view'[b].path = n /\ view'[b].capability = nodes[n].capability
        /\ view'[b].children = list /\ view'[b].revision = revision
    BY <2>4
  <2>6. ReaderTypes'
    <3>1. bpc' \in [Readers -> {"idle", "children", "own", "done", "failed"}]
      BY <1>2, <2>1 DEF ReaderTypes
    <3>2. view' \in [Readers -> Views]
      BY <1>2, <2>1, <2>3 DEF ReaderTypes
    <3>3. leaves' \in [Readers -> BOOLEAN]
      BY <1>2, <2>1 DEF ReaderTypes
    <3> QED
      BY <1>1, <1>2, <3>1, <3>2, <3>3 DEF ReaderTypes, pagerVars
  <2>7. /\ revision' = revision /\ closed' = closed /\ nodes' = nodes /\ entries' = entries
        /\ revision \in Nat
    BY <1>1, <1>2 DEF vars, registryVars, TypeOK
  <2>8. ViewTrue(b)'
    BY <2>2, <2>4, <2>5, <2>7 DEF ViewTrue
  <2>9. ToolsTrue(b)'
    BY <1>5, <2>4 DEF ToolsTrue
  <2>10. LookupsTrue(b)'
    BY <1>4, NoneHeldNext
  <2>11. AnswerTrue(b)'
    <3>1. Left(b)' = nodes[n].children
      BY <2>2, <2>5 DEF Left
    <3>2. Passed(b)' = {}
      BY <2>5, <2>7, <3>1 DEF Passed
    <3>3. UNION {ToolsOf(entries'[c]) : c \in {c \in Passed(b)' : nodes'[c].capability # None}} = {}
      BY <3>2
    <3>4. list # <<>> <=> nodes[n].children # {}
      <4>1. list # <<>> <=> 1 .. Len(list) # {}
        BY <2>2
      <4> QED
        BY <2>2, <4>1
    <3>5. leaves'[b] <=> /\ nodes'[view'[b].path].children # {}
                         /\ \A c \in Passed(b)' : nodes'[c].capability # None
      BY <2>4, <2>5, <2>7, <3>2, <3>4
    <3>6. \A i \in 1 .. Len(view'[b].children) :
            view'[b].children[i].record # None <=> nodes'[view'[b].children[i].path].capability # None
      BY <2>2, <2>5, <2>7
    <3> QED
      BY <1>5, <1>7, <2>4, <2>5, <2>7, <3>1, <3>3, <3>5, <3>6 DEF AnswerTrue, n
  <2> QED
    BY <1>1, <1>3, <2>4, <2>6, <2>8, <2>9, <2>10, <2>11 DEF BrowserMoved, BrowserTrue
<1> QED
  BY <1>6, <1>7

(* Going on to the next child: the one that was first is passed.            *)
LEMMA AdvanceFacts ==
  ASSUME CatalogInv, NEW b \in Readers, view[b].children # <<>>, Advance(b)
  PROVE  /\ view' \in [Readers -> Views]
         /\ \A d \in Readers : d # b => view'[d] = view[d]
         /\ view'[b].path = view[b].path /\ view'[b].capability = view[b].capability
         /\ view'[b].revision = view[b].revision
         /\ 1 \in 1 .. Len(view[b].children) /\ Child(b) = view[b].children[1]
         /\ \A i \in 1 .. Len(view'[b].children) :
              i + 1 \in 1 .. Len(view[b].children) /\ view'[b].children[i] = view[b].children[i + 1]
         /\ \A i, j \in 1 .. Len(view'[b].children) :
              view'[b].children[i].path = view'[b].children[j].path => i = j
         /\ \A i \in 1 .. Len(view'[b].children) : view'[b].children[i].path # Child(b).path
         /\ Left(b)' = Left(b) \ {Child(b).path} /\ Child(b).path \in Left(b)
<1> DEFINE list == view[b].children
           w == [view[b] EXCEPT !.children = Tail(list)]
<1>1. view \in [Readers -> Views] /\ view[b] \in Views /\ list \in Seq(ChildRecords) /\ ViewTrue(b)
  BY DEF CatalogInv, ReaderTypes, Views, BrowserTrue
<1>2. Tail(list) \in Seq(ChildRecords) /\ Len(Tail(list)) = Len(list) - 1 /\ Len(list) \in Nat \ {0}
  BY <1>1
<1>3. \A i \in 1 .. Len(Tail(list)) : i + 1 \in 1 .. Len(list) /\ Tail(list)[i] = list[i + 1]
  BY <1>1, <1>2
<1>4. view' = [view EXCEPT ![b] = w]
  BY DEF Advance
<1>5. w \in Views /\ w.children = Tail(list)
  BY <1>1, <1>2 DEF Views
<1>6. w.path = view[b].path /\ w.capability = view[b].capability /\ w.revision = view[b].revision
  BY <1>1 DEF Views
<1>7. 1 \in 1 .. Len(list) /\ Child(b) = list[1]
  BY <1>1, <1>2 DEF Child
<1>8. \A i, j \in 1 .. Len(list) : list[i].path = list[j].path => i = j
  BY <1>1 DEF ViewTrue
<1> HIDE DEF list, w
<1>9. /\ view'[b] = w /\ view' \in [Readers -> Views]
      /\ \A d \in Readers : d # b => view'[d] = view[d]
  BY <1>1, <1>4, <1>5
<1> DEFINE rest == Tail(list)
<1> HIDE DEF rest
<1>10. /\ Len(rest) \in Nat
       /\ \A i \in 1 .. Len(rest) : i + 1 \in 1 .. Len(list) /\ rest[i] = list[i + 1]
       /\ \A i \in 1 .. Len(list) : i = 1 \/ (i - 1 \in 1 .. Len(rest) /\ list[i] = rest[i - 1])
  BY <1>2, <1>3 DEF rest
<1>11. \A i, j \in 1 .. Len(rest) : rest[i].path = rest[j].path => i = j
  BY <1>8, <1>10
<1>12. \A i \in 1 .. Len(rest) : rest[i].path # Child(b).path
  BY <1>7, <1>8, <1>10
<1>13. view'[b].children = rest
  BY <1>5, <1>9 DEF rest
<1>14. Left(b)' = Left(b) \ {Child(b).path} /\ Child(b).path \in Left(b)
  <2>1. Left(b)' = {rest[i].path : i \in 1 .. Len(rest)} /\ Left(b) = {list[i].path : i \in 1 .. Len(list)}
    BY <1>13 DEF Left, list
  <2>2. \A x \in Left(b)' : x \in Left(b) /\ x # Child(b).path
    BY <1>10, <1>12, <2>1
  <2>3. \A x \in Left(b) : x = Child(b).path \/ x \in Left(b)'
    BY <1>7, <1>10, <2>1
  <2>4. Child(b).path \in Left(b)
    BY <1>7, <2>1
  <2> QED
    BY <2>2, <2>3, <2>4
<1> QED
  BY <1>6, <1>7, <1>9, <1>10, <1>11, <1>12, <1>13, <1>14 DEF list

(* The view stays true when its first child is passed.                      *)
LEMMA AdvanceView ==
  ASSUME CatalogInv, NEW b \in Readers, view[b].children # <<>>, Advance(b),
         bpc'[b] = "children", revision' = revision
  PROVE  ViewTrue(b)'
<1>1. ViewTrue(b)
  BY DEF CatalogInv, BrowserTrue
<1>2. /\ view'[b].revision = view[b].revision
      /\ \A i \in 1 .. Len(view'[b].children) :
           i + 1 \in 1 .. Len(view[b].children) /\ view'[b].children[i] = view[b].children[i + 1]
      /\ \A i, j \in 1 .. Len(view'[b].children) :
           view'[b].children[i].path = view'[b].children[j].path => i = j
  BY AdvanceFacts
<1> QED
  BY <1>1, <1>2 DEF ViewTrue

(* A child that is no capability is passed.                                 *)
LEMMA BrowseCategoryStep ==
  ASSUME CatalogInv, NEW b \in Readers, BrowseCategory(b)
  PROVE  BrowserMoved(b)
<1>1. /\ bpc[b] = "children" /\ view[b].children # <<>> /\ Child(b).record = None
      /\ names' = [names EXCEPT ![b] = @ \cup {Segment[Child(b).path]}]
      /\ leaves' = [leaves EXCEPT ![b] = FALSE] /\ Advance(b)
      /\ UNCHANGED <<pagerVars, bpc, lookups, tools>> /\ UNCHANGED vars
  BY DEF BrowseCategory
<1>2. /\ ReaderTypes /\ TypeOK /\ LookupsTrue(b) /\ ToolsTrue(b) /\ AnswerTrue(b)
  BY DEF CatalogInv, Inductive, BrowserTrue
<1>3. \A d \in Readers : KeepsSlots(d)
  BY <1>1, QuietSlots
<1>4. ~Reading(b)
  BY <1>1, <1>2 DEF LookupsTrue
<1>5. LookupsTrue(b)'
  <2>1. NoneHeld(b)'
    BY <1>1, <1>4, NoneHeldUnlessReading DEF NoneHeld, vars, callerVars
  <2>2. lookups'[b] \in Nat /\ lookups'[b] <= Len(Lookups[b])
    BY <1>1, <1>2 DEF ReaderTypes, LookupsTrue
  <2> QED
    BY <2>1, <2>2, NoneHeldNext
<1>6. /\ view' \in [Readers -> Views]
      /\ \A d \in Readers : d # b => view'[d] = view[d]
      /\ view'[b].path = view[b].path /\ view'[b].capability = view[b].capability
      /\ view'[b].revision = view[b].revision
      /\ 1 \in 1 .. Len(view[b].children) /\ Child(b) = view[b].children[1]
      /\ \A i \in 1 .. Len(view'[b].children) :
           i + 1 \in 1 .. Len(view[b].children) /\ view'[b].children[i] = view[b].children[i + 1]
      /\ Left(b)' = Left(b) \ {Child(b).path} /\ Child(b).path \in Left(b)
  BY <1>1, AdvanceFacts
<1>7. /\ revision' = revision /\ closed' = closed /\ nodes' = nodes /\ entries' = entries
      /\ \A r \in Records : Published(r)' = Published(r)
  BY <1>1 DEF vars, registryVars, Published
<1>8. ViewTrue(b)'
  BY <1>1, <1>7, AdvanceView
<1>9. ToolsTrue(b)'
  BY <1>1, <1>2, <1>6, <1>7 DEF ToolsTrue
<1>10. leaves'[b] = FALSE /\ \A d \in Readers : d # b => leaves'[d] = leaves[d]
  BY <1>1, <1>2 DEF ReaderTypes
<1>11. AnswerTrue(b)'
  <2> SUFFICES ASSUME Fresh(b)' PROVE AnswerTrue(b)'
    BY DEF AnswerTrue
  <2>1. Fresh(b)
    BY <1>6, <1>7 DEF Fresh
  <2> DEFINE all == nodes[view[b].path].children
  <2>2. /\ view[b].path \in DOMAIN nodes /\ view[b].capability = nodes[view[b].path].capability
        /\ Left(b) \subseteq all
        /\ \A i \in 1 .. Len(view[b].children) :
             view[b].children[i].record # None <=> nodes[view[b].children[i].path].capability # None
        /\ tools[b] = UNION {ToolsOf(entries[c]) : c \in {c \in Passed(b) : nodes[c].capability # None}}
    BY <1>1, <1>2, <2>1 DEF AnswerTrue
  <2>3. nodes[Child(b).path].capability = None
    BY <1>1, <1>6, <2>2
  <2>4. Passed(b)' = Passed(b) \cup {Child(b).path}
    BY <1>6, <1>7, <2>2 DEF Passed
  <2>5. {c \in Passed(b)' : nodes'[c].capability # None} = {c \in Passed(b) : nodes[c].capability # None}
    BY <1>7, <2>3, <2>4
  <2>6. tools'[b] = UNION {ToolsOf(entries'[c]) : c \in {c \in Passed(b)' : nodes'[c].capability # None}}
    BY <1>1, <1>7, <2>2, <2>5
  <2>7. ~(\A c \in Passed(b)' : nodes'[c].capability # None)
    BY <1>7, <2>3, <2>4
  <2>8. Left(b)' \subseteq nodes'[view'[b].path].children
    BY <1>6, <1>7, <2>2
  <2>9. \A i \in 1 .. Len(view'[b].children) :
          view'[b].children[i].record # None <=> nodes'[view'[b].children[i].path].capability # None
    <3> TAKE i \in 1 .. Len(view'[b].children)
    <3>1. i + 1 \in 1 .. Len(view[b].children) /\ view'[b].children[i] = view[b].children[i + 1]
      BY <1>6
    <3>2. view[b].children[i + 1].record # None <=>
            nodes[view[b].children[i + 1].path].capability # None
      BY <2>2, <3>1
    <3> QED
      BY <1>7, <3>1, <3>2
  <2> QED
    BY <1>1, <1>6, <1>7, <1>10, <2>2, <2>6, <2>7, <2>8, <2>9 DEF AnswerTrue
<1>12. \A d \in Readers : d # b => KeepsBrowser(d)
  BY <1>1, <1>6, <1>10 DEF KeepsBrowser
<1>13. ReaderTypes'
  BY <1>1, <1>2, <1>6 DEF ReaderTypes, pagerVars
<1> QED
  BY <1>1, <1>3, <1>5, <1>8, <1>9, <1>11, <1>12, <1>13 DEF BrowserMoved, BrowserTrue

(* What a Lookup does to the caller and to everybody else.                  *)
LEMMA LookupFacts ==
  ASSUME TypeOK, NEW k \in Callers, NEW c \in Capabilities, Lookup(k, c)
  PROVE  /\ UNCHANGED registryVars
         /\ pc'[k] \in {"failed", "holding"}
         /\ pc'[k] = "holding" =>
              lease'[k] = entries[c] /\ IdOf[entries[c]] = c /\ entries[c] \in Installed
<1>1. UNCHANGED registryVars
  BY DEF Lookup
<1>2. CASE closed \/ entries[c] = None
  BY <1>1, <1>2 DEF Lookup, Fail, TypeOK
<1>3. CASE ~(closed \/ entries[c] = None)
  <2>1. pc'[k] = "holding" /\ lease'[k] = entries[c]
    BY <1>3 DEF Lookup, Take, TypeOK
  <2>2. entries[c] \in Records /\ IdOf[entries[c]] = c
    BY <1>3 DEF TypeOK
  <2> QED
    BY <1>1, <2>1, <2>2 DEF Installed
<1> QED
  BY <1>2, <1>3

(* Other readers' lookups are other callers.                                *)
LEMMA OtherReaders ==
  ASSUME CatalogInv, NEW b \in Readers, NEW i \in 1 .. Len(Lookups[b]),
         (\E c : Lookup(Lookups[b][i], c)) \/ Release(Lookups[b][i])
  PROVE  /\ \A d \in Readers : d # b => KeepsSlots(d)
         /\ \A j \in 1 .. Len(Lookups[b]) : j # i =>
              pc'[Lookups[b][j]] = pc[Lookups[b][j]] /\ lease'[Lookups[b][j]] = lease[Lookups[b][j]]
<1> DEFINE k == Lookups[b][i]
<1>1. TypeOK /\ k \in Callers
  BY SlotFacts DEF CatalogInv, Inductive
<1>2. \A j \in Callers : j # k => pc'[j] = pc[j] /\ lease'[j] = lease[j]
  BY <1>1, OtherCallers
<1>3. \A j \in 1 .. Len(Lookups[b]) : j # i => Lookups[b][j] \in Callers /\ Lookups[b][j] # k
  BY SlotFacts
<1>4. \A d \in Readers : d # b =>
        \A j \in 1 .. Len(Lookups[d]) : Lookups[d][j] \in Callers /\ Lookups[d][j] # k
  BY SlotFacts
<1> HIDE DEF k
<1> QED
  BY <1>2, <1>3, <1>4 DEF KeepsSlots

(* The lookup of the next child, or of the path itself.                     *)
LEMMA BrowseLookupStep ==
  ASSUME CatalogInv, NEW b \in Readers, BrowseLookup(b)
  PROVE  BrowserMoved(b)
<1> DEFINE c == IF bpc[b] = "own" THEN view[b].capability ELSE Child(b).path
           m == lookups[b] + 1
           k == Lookups[b][m]
<1>1. /\ ~Reading(b) /\ lookups[b] < Len(Lookups[b])
      /\ \/ bpc[b] = "children" /\ view[b].children # <<>> /\ Child(b).record # None
         \/ bpc[b] = "own"
      /\ Lookup(k, c)
      /\ lookups' = [lookups EXCEPT ![b] = m]
      /\ IF pc'[k] = "failed" THEN BrowseFails(b) ELSE UNCHANGED bpc
      /\ UNCHANGED <<pagerVars, view, names, leaves, tools>>
  BY DEF BrowseLookup
<1>2. ReaderTypes /\ TypeOK /\ ViewTrue(b) /\ LookupsTrue(b) /\ ToolsTrue(b) /\ AnswerTrue(b)
  BY DEF CatalogInv, Inductive, BrowserTrue
<1>3. lookups[b] \in Nat /\ m \in 1 .. Len(Lookups[b])
  BY <1>1, <1>2, SlotFacts DEF ReaderTypes
<1>4. k \in Callers
  BY <1>3, SlotFacts
<1>5. c \in Capabilities
  <2>1. CASE bpc[b] = "own"
    BY <1>2, <2>1 DEF ViewTrue, ReaderTypes, Views
  <2>2. CASE bpc[b] # "own"
    <3>1. view[b].children \in Seq(ChildRecords)
      BY <1>2 DEF ReaderTypes, Views
    <3>2. Child(b) = view[b].children[1] /\ 1 \in 1 .. Len(view[b].children)
      BY <1>1, <2>2, <3>1 DEF Child
    <3> QED
      BY <1>1, <1>2, <2>2, <3>2 DEF ViewTrue
  <2> QED
    BY <2>1, <2>2
<1>6. NoneHeld(b)
  BY <1>1, NoneHeldUnlessReading
<1> HIDE DEF c
<1>7. /\ UNCHANGED registryVars
      /\ pc'[k] \in {"failed", "holding"}
      /\ pc'[k] = "holding" =>
           lease'[k] = entries[c] /\ IdOf[entries[c]] = c /\ entries[c] \in Installed
  BY <1>1, <1>2, <1>4, <1>5, LookupFacts
<1>8. /\ \A d \in Readers : d # b => KeepsSlots(d)
      /\ \A j \in 1 .. Len(Lookups[b]) : j # m => pc'[Lookups[b][j]] = pc[Lookups[b][j]]
  BY <1>1, <1>3, OtherReaders
<1>9. /\ lookups'[b] = m /\ lookups'[b] \in Nat /\ lookups'[b] <= Len(Lookups[b])
      /\ lookups' \in [Readers -> Nat]
      /\ \A d \in Readers : d # b => lookups'[d] = lookups[d]
  BY <1>1, <1>2, <1>3 DEF ReaderTypes
<1>10. CASE pc'[k] = "failed"
  <2>1. bpc' = [bpc EXCEPT ![b] = "failed"]
    BY <1>1, <1>10 DEF BrowseFails
  <2>2. NoneHeld(b)'
    BY <1>6, <1>8, <1>10 DEF NoneHeld
  <2>3. [Next]_vars
    BY <1>1, <1>4, <1>5 DEF Next
  <2>4. /\ bpc'[b] = "failed" /\ bpc' \in [Readers -> {"idle", "children", "own", "done", "failed"}]
        /\ \A d \in Readers : d # b => bpc'[d] = bpc[d]
    BY <1>2, <2>1 DEF ReaderTypes
  <2>5. BrowserTrue(b)'
    BY <1>1, <1>9, <2>2, <2>3, <2>4, FailedTrue
  <2>6. ReaderTypes'
    BY <1>1, <1>2, <1>9, <2>4 DEF ReaderTypes, pagerVars
  <2> QED
    BY <1>1, <1>8, <1>9, <2>4, <2>5, <2>6 DEF BrowserMoved, KeepsBrowser
<1>11. CASE pc'[k] = "holding"
  <2>1. UNCHANGED bpc
    BY <1>1, <1>11
  <2>2. /\ revision' = revision /\ closed' = closed /\ nodes' = nodes /\ entries' = entries
        /\ id' = id
    BY <1>7 DEF registryVars
  <2>3. ViewTrue(b)'
    BY <1>1, <1>2, <2>1, <2>2 DEF ViewTrue
  <2>4. ToolsTrue(b)'
    BY <1>1, <1>2, <2>1, <2>2 DEF ToolsTrue, Published
  <2>5. AnswerTrue(b)'
    BY <1>1, <1>2, <2>1, <2>2 DEF AnswerTrue, Fresh, Left, Passed, ToolsBelow
  <2>6. LookupsTrue(b)'
    <3>1. Slot(b)' = k
      BY <1>9 DEF Slot
    <3>2. lease[Slot(b)]' = entries[c] /\ IdOf[entries[c]] = c /\ entries[c] \in Installed'
      BY <1>7, <1>11, <2>2, <3>1 DEF Installed
    <3>3. \A i \in 1 .. Len(Lookups[b]) :
            pc'[Lookups[b][i]] = "holding" => i = lookups'[b] /\ bpc'[b] \in {"children", "own"}
      BY <1>1, <1>6, <1>8, <1>9, <2>1 DEF NoneHeld
    <3>4. bpc'[b] = "children" =>
            /\ view'[b].children # <<>> /\ Child(b)' = Child(b) /\ Child(b).record # None
            /\ c = Child(b).path
      BY <1>1, <2>1 DEF Child, c
    <3>5. bpc'[b] = "own" => c = view'[b].capability
      BY <1>1, <2>1 DEF c
    <3> QED
      BY <1>9, <3>2, <3>3, <3>4, <3>5 DEF LookupsTrue
  <2>7. \A d \in Readers : d # b => KeepsBrowser(d)
    BY <1>1, <1>9, <2>1 DEF KeepsBrowser
  <2>8. ReaderTypes'
    BY <1>1, <1>2, <1>9, <2>1 DEF ReaderTypes, pagerVars
  <2> QED
    BY <1>1, <1>8, <2>3, <2>4, <2>5, <2>6, <2>7, <2>8 DEF BrowserMoved, BrowserTrue
<1> QED
  BY <1>7, <1>10, <1>11

(* The release at the end of a read: the reader holds nothing any more.     *)
LEMMA ReadingReleases ==
  ASSUME CatalogInv, NEW b \in Readers, Reading(b), Release(Slot(b)), UNCHANGED lookups
  PROVE  /\ NoneHeld(b)' /\ lookups'[b] \in Nat /\ lookups'[b] <= Len(Lookups[b])
         /\ \A d \in Readers : d # b => KeepsSlots(d)
         /\ UNCHANGED registryVars
         /\ [Next]_vars
         /\ lease[Slot(b)] \in Records /\ Published(lease[Slot(b)])
<1>1. TypeOK /\ LookupsTrue(b) /\ lookups[b] \in Nat /\ Numbered
  BY DEF CatalogInv, Inductive, BrowserTrue, ReaderTypes
<1>2. lookups[b] \in 1 .. Len(Lookups[b]) /\ lookups[b] <= Len(Lookups[b])
  BY <1>1, SlotFacts DEF LookupsTrue, Reading
<1>3. Slot(b) \in Callers /\ Slot(b) = Lookups[b][lookups[b]]
  BY <1>2, SlotFacts DEF Slot
<1>4. /\ \A d \in Readers : d # b => KeepsSlots(d)
      /\ \A j \in 1 .. Len(Lookups[b]) : j # lookups[b] => pc'[Lookups[b][j]] = pc[Lookups[b][j]]
  BY <1>2, <1>3, OtherReaders
<1>5. pc'[Slot(b)] = "released"
  BY <1>1, <1>3 DEF Release, TypeOK
<1>6. NoneHeld(b)'
  BY <1>1, <1>3, <1>4, <1>5 DEF LookupsTrue, NoneHeld
<1>7. lease[Slot(b)] \in Records /\ Published(lease[Slot(b)])
  BY <1>1, <1>3 DEF TypeOK, Numbered, Reading
<1>8. UNCHANGED registryVars /\ [Next]_vars
  BY <1>3 DEF Release, Next
<1> QED
  BY <1>1, <1>2, <1>4, <1>6, <1>7, <1>8

(* Without a duplicate the tools of a leased child are new.                 *)
LEMMA NoDuplicate ==
  ASSUME NEW S, NEW r \in Records, ~DuplicateTarget(S, r)
  PROVE  /\ OwnTools(r) = ToolsOf(r)
         /\ \A t \in S, u \in ToolsOf(r) : t.target # u.target
         /\ \A t, u \in ToolsOf(r) : t.target = u.target => t = u
<1>1. \A o, u \in Operations[r] : Target[r][o] = Target[r][u] => o = u
  BY DEF DuplicateTarget
<1>2. \A o \in Operations[r] : \A t \in S : t.target # Target[r][o]
  BY DEF DuplicateTarget
<1>3. OwnTools(r) = ToolsOf(r)
  BY <1>1, OwnToolsFacts
<1>4. \A t, u \in ToolsOf(r) : t.target = u.target => t = u
  BY <1>3, OwnToolsFacts
<1>5. \A t \in S, u \in ToolsOf(r) : t.target # u.target
  BY <1>2, ToolFacts
<1> QED
  BY <1>3, <1>4, <1>5

(* A leased child is copied into the answer.                                *)
LEMMA BrowseReadStep ==
  ASSUME CatalogInv, NEW b \in Readers, BrowseRead(b)
  PROVE  BrowserMoved(b)
<1> DEFINE r == lease[Slot(b)]
           name == ChildName(Child(b).path, r)
<1>1. /\ bpc[b] = "children" /\ Reading(b) /\ Release(Slot(b))
      /\ UNCHANGED <<pagerVars, lookups, leaves>>
      /\ IF name \in names[b] \/ DuplicateTarget(tools[b], r)
         THEN BrowseFails(b) /\ UNCHANGED <<view, names, tools>>
         ELSE /\ names' = [names EXCEPT ![b] = @ \cup {name}]
              /\ tools' = [tools EXCEPT ![b] = @ \cup ToolsOf(r)]
              /\ Advance(b)
              /\ UNCHANGED bpc
  BY DEF BrowseRead
<1>2. ReaderTypes /\ TypeOK /\ LookupsTrue(b) /\ ToolsTrue(b) /\ AnswerTrue(b)
  BY DEF CatalogInv, Inductive, BrowserTrue
<1>3. /\ view[b].children # <<>> /\ Child(b).record # None /\ IdOf[r] = Child(b).path
      /\ Fresh(b) => r \in Installed
  BY <1>1, <1>2 DEF LookupsTrue
<1> HIDE DEF r, name
<1>4. /\ NoneHeld(b)' /\ lookups'[b] \in Nat /\ lookups'[b] <= Len(Lookups[b])
      /\ \A d \in Readers : d # b => KeepsSlots(d)
      /\ UNCHANGED registryVars
      /\ [Next]_vars
      /\ r \in Records /\ Published(r)
  BY <1>1, ReadingReleases DEF r
<1>5. CASE name \in names[b] \/ DuplicateTarget(tools[b], r)
  <2>1. bpc' = [bpc EXCEPT ![b] = "failed"] /\ UNCHANGED <<view, names, tools>>
    BY <1>1, <1>5 DEF BrowseFails
  <2>2. /\ bpc'[b] = "failed" /\ bpc' \in [Readers -> {"idle", "children", "own", "done", "failed"}]
        /\ \A d \in Readers : d # b => bpc'[d] = bpc[d]
    BY <1>2, <2>1 DEF ReaderTypes
  <2>3. BrowserTrue(b)'
    BY <1>4, <2>1, <2>2, FailedTrue
  <2>4. ReaderTypes'
    BY <1>1, <1>2, <2>1, <2>2 DEF ReaderTypes, pagerVars
  <2> QED
    BY <1>1, <1>4, <2>1, <2>2, <2>3, <2>4 DEF BrowserMoved, KeepsBrowser
<1>6. CASE ~(name \in names[b] \/ DuplicateTarget(tools[b], r))
  <2>1. /\ names' = [names EXCEPT ![b] = @ \cup {name}]
        /\ tools' = [tools EXCEPT ![b] = tools[b] \cup ToolsOf(r)]
        /\ Advance(b) /\ UNCHANGED bpc
    BY <1>1, <1>6
  <2>2. /\ tools'[b] = tools[b] \cup ToolsOf(r)
        /\ \A d \in Readers : d # b => tools'[d] = tools[d]
        /\ tools' = [d \in Readers |-> tools'[d]] /\ names' = [d \in Readers |-> names'[d]]
    BY <1>2, <2>1 DEF ReaderTypes
  <2>3. /\ view' \in [Readers -> Views]
        /\ \A d \in Readers : d # b => view'[d] = view[d]
        /\ view'[b].path = view[b].path /\ view'[b].capability = view[b].capability
        /\ view'[b].revision = view[b].revision
        /\ 1 \in 1 .. Len(view[b].children) /\ Child(b) = view[b].children[1]
        /\ \A i \in 1 .. Len(view'[b].children) :
             i + 1 \in 1 .. Len(view[b].children) /\ view'[b].children[i] = view[b].children[i + 1]
        /\ \A i \in 1 .. Len(view'[b].children) : view'[b].children[i].path # Child(b).path
        /\ Left(b)' = Left(b) \ {Child(b).path} /\ Child(b).path \in Left(b)
    BY <1>3, <2>1, AdvanceFacts
  <2>4. /\ revision' = revision /\ closed' = closed /\ nodes' = nodes /\ entries' = entries
        /\ id' = id
    BY <1>4 DEF registryVars
  <2>5. ViewTrue(b)'
    BY <1>1, <1>3, <2>1, <2>4, AdvanceView
  <2>6. LookupsTrue(b)'
    BY <1>4, NoneHeldNext
  <2>7. /\ OwnTools(r) = ToolsOf(r)
        /\ \A t \in tools[b], u \in ToolsOf(r) : t.target # u.target
        /\ \A t, u \in ToolsOf(r) : t.target = u.target => t = u
    BY <1>4, <1>6, NoDuplicate
  <2>8. /\ \A t \in ToolsOf(r) : t.capability = Child(b).path
        /\ \A t \in tools[b] : t.capability # Child(b).path
    BY <1>1, <1>2, <1>3, <1>4, <2>3, ToolFacts DEF ToolsTrue
  <2>9. ToolsTrue(b)'
    <3>1. \A t, u \in tools'[b] : t.target = u.target => t = u
      BY <1>2, <2>2, <2>7 DEF ToolsTrue
    <3>2. \A t \in tools'[b] : \A i \in 1 .. Len(view'[b].children) :
            view'[b].children[i].path # t.capability
      BY <1>1, <1>2, <2>2, <2>3, <2>8 DEF ToolsTrue
    <3>3. ASSUME NEW t \in tools'[b]
          PROVE  \E s \in Records : /\ Published(s)'
                                    /\ {u \in tools'[b] : u.capability = t.capability} = OwnTools(s)
      <4>1. CASE t \in ToolsOf(r)
        <5>1. {u \in tools'[b] : u.capability = t.capability} = ToolsOf(r)
          BY <2>2, <2>8, <4>1
        <5>2. PICK s \in Records : s = r
          BY <1>4
        <5>3. Published(s)'
          BY <1>4, <2>4, <5>2 DEF Published
        <5> QED
          BY <2>7, <5>1, <5>2, <5>3
      <4>2. CASE t \in tools[b]
        <5>1. {u \in tools'[b] : u.capability = t.capability} = {u \in tools[b] : u.capability = t.capability}
          BY <2>2, <2>8, <4>2
        <5>2. PICK s \in Records :
                Published(s) /\ {u \in tools[b] : u.capability = t.capability} = OwnTools(s)
          BY <1>2, <4>2 DEF ToolsTrue
        <5>3. Published(s)'
          BY <2>4, <5>2 DEF Published
        <5> QED
          BY <5>1, <5>2, <5>3
      <4> QED
        BY <2>2, <4>1, <4>2
    <3> QED
      BY <1>1, <2>1, <3>1, <3>2, <3>3 DEF ToolsTrue
  <2>10. AnswerTrue(b)'
    <3> SUFFICES ASSUME Fresh(b)' PROVE AnswerTrue(b)'
      BY DEF AnswerTrue
    <3>1. Fresh(b)
      BY <2>3, <2>4 DEF Fresh
    <3>2. /\ view[b].path \in DOMAIN nodes /\ view[b].capability = nodes[view[b].path].capability
          /\ Left(b) \subseteq nodes[view[b].path].children
          /\ \A i \in 1 .. Len(view[b].children) :
               view[b].children[i].record # None <=> nodes[view[b].children[i].path].capability # None
          /\ tools[b] = UNION {ToolsOf(entries[c]) : c \in {c \in Passed(b) : nodes[c].capability # None}}
          /\ leaves[b] <=> /\ nodes[view[b].path].children # {}
                           /\ \A c \in Passed(b) : nodes[c].capability # None
      BY <1>1, <1>2, <3>1 DEF AnswerTrue
    <3>3. nodes[Child(b).path].capability # None
      BY <1>3, <2>3, <3>2
    <3>4. entries[Child(b).path] = r
      BY <1>2, <1>3, <3>1, InstalledEntry
    <3>5. Passed(b)' = Passed(b) \cup {Child(b).path}
      BY <2>3, <2>4, <3>2 DEF Passed
    <3> DEFINE before == {c \in Passed(b) : nodes[c].capability # None}
               after == {c \in Passed(b)' : nodes'[c].capability # None}
    <3>6. after = before \cup {Child(b).path}
      BY <2>4, <3>3, <3>5
    <3>7. tools'[b] = UNION {ToolsOf(entries'[c]) : c \in after}
      <4> HIDE DEF before, after
      <4>1. tools[b] = UNION {ToolsOf(entries[c]) : c \in before}
        BY <3>2 DEF before
      <4> QED
        BY <2>2, <2>4, <3>4, <3>6, <4>1
    <3>8. leaves'[b] <=> /\ nodes'[view'[b].path].children # {}
                         /\ \A c \in Passed(b)' : nodes'[c].capability # None
      BY <1>1, <2>3, <2>4, <3>2, <3>3, <3>5
    <3>9. Left(b)' \subseteq nodes'[view'[b].path].children
      BY <2>3, <2>4, <3>2
    <3>10. \A i \in 1 .. Len(view'[b].children) :
             view'[b].children[i].record # None <=> nodes'[view'[b].children[i].path].capability # None
      <4> TAKE i \in 1 .. Len(view'[b].children)
      <4>1. i + 1 \in 1 .. Len(view[b].children) /\ view'[b].children[i] = view[b].children[i + 1]
        BY <2>3
      <4>2. view[b].children[i + 1].record # None <=>
              nodes[view[b].children[i + 1].path].capability # None
        BY <3>2, <4>1
      <4> QED
        BY <2>4, <4>1, <4>2
    <3> QED
      BY <1>1, <2>1, <2>3, <2>4, <3>2, <3>7, <3>8, <3>9, <3>10 DEF AnswerTrue
  <2>11. \A d \in Readers : d # b => KeepsBrowser(d)
    BY <1>1, <2>1, <2>2, <2>3 DEF KeepsBrowser
  <2>12. ReaderTypes'
    BY <1>1, <1>2, <2>1, <2>2, <2>3 DEF ReaderTypes, pagerVars
  <2> QED
    BY <1>1, <1>4, <2>5, <2>6, <2>9, <2>10, <2>11, <2>12 DEF BrowserMoved, BrowserTrue
<1> QED
  BY <1>5, <1>6

(* After the last child.                                                    *)
LEMMA BrowseChildrenDoneStep ==
  ASSUME CatalogInv, NEW b \in Readers, BrowseChildrenDone(b)
  PROVE  BrowserMoved(b)
<1>1. /\ bpc[b] = "children" /\ view[b].children = <<>>
      /\ bpc' = [bpc EXCEPT ![b] = IF view[b].capability # None THEN "own" ELSE "done"]
      /\ tools' = [tools EXCEPT ![b] = IF view[b].capability # None \/ leaves[b] THEN @ ELSE {}]
      /\ UNCHANGED <<pagerVars, view, lookups, names, leaves>> /\ UNCHANGED vars
  BY DEF BrowseChildrenDone
<1>2. ReaderTypes /\ TypeOK /\ ViewTrue(b) /\ LookupsTrue(b) /\ ToolsTrue(b) /\ AnswerTrue(b)
  BY DEF CatalogInv, Inductive, BrowserTrue
<1>3. \A d \in Readers : KeepsSlots(d)
  BY <1>1, QuietSlots
<1>4. LookupsTrue(b)'
  <2>1. ~Reading(b)
    BY <1>1, <1>2 DEF LookupsTrue
  <2>2. NoneHeld(b)'
    BY <1>1, <2>1, NoneHeldUnlessReading DEF NoneHeld, vars, callerVars
  <2>3. lookups'[b] \in Nat /\ lookups'[b] <= Len(Lookups[b])
    BY <1>1, <1>2 DEF ReaderTypes, LookupsTrue
  <2> QED
    BY <2>2, <2>3, NoneHeldNext
<1>5. /\ bpc'[b] = IF view[b].capability # None THEN "own" ELSE "done"
      /\ bpc' \in [Readers -> {"idle", "children", "own", "done", "failed"}]
      /\ tools'[b] = IF view[b].capability # None \/ leaves[b] THEN tools[b] ELSE {}
      /\ tools' = [d \in Readers |-> tools'[d]]
      /\ \A d \in Readers : d # b => bpc'[d] = bpc[d] /\ tools'[d] = tools[d]
  BY <1>1, <1>2 DEF ReaderTypes
<1>6. /\ revision' = revision /\ closed' = closed /\ nodes' = nodes /\ entries' = entries
      /\ id' = id /\ view' = view
  BY <1>1 DEF vars, registryVars
<1>7. ViewTrue(b)'
  BY <1>2, <1>5, <1>6 DEF ViewTrue
<1>8. ToolsTrue(b)'
  BY <1>2, <1>5, <1>6 DEF ToolsTrue, Published
<1>9. AnswerTrue(b)'
  <2> SUFFICES ASSUME Fresh(b)' PROVE AnswerTrue(b)'
    BY DEF AnswerTrue
  <2>1. Fresh(b)
    BY <1>6 DEF Fresh
  <2> DEFINE n == view[b].path
             all == nodes[n].children
             caps == {c \in all : nodes[c].capability # None}
  <2>2. /\ n \in DOMAIN nodes /\ view[b].capability = nodes[n].capability
        /\ tools[b] = UNION {ToolsOf(entries[c]) : c \in {c \in Passed(b) : nodes[c].capability # None}}
        /\ leaves[b] <=> /\ all # {}
                         /\ \A c \in Passed(b) : nodes[c].capability # None
    BY <1>1, <1>2, <2>1 DEF AnswerTrue
  <2>3. Passed(b) = all
    BY <1>1 DEF Passed, Left
  <2>4. tools[b] = UNION {ToolsOf(entries[c]) : c \in caps}
    BY <2>2, <2>3
  <2>5. leaves[b] <=> all # {} /\ caps = all
    BY <2>2, <2>3
  <2>6. ToolsBelow(n) = IF nodes[n].capability # None THEN ToolsOf(entries[nodes[n].capability])
                        ELSE IF caps = all THEN UNION {ToolsOf(entries[c]) : c \in caps} ELSE {}
    BY DEF ToolsBelow
  <2>7. bpc'[b] = "done" => tools'[b] = ToolsBelow(n)
    <3> SUFFICES ASSUME bpc'[b] = "done" PROVE tools'[b] = ToolsBelow(n)
      OBVIOUS
    <3>1. view[b].capability = None /\ nodes[n].capability = None
      BY <1>5, <2>2
    <3>2. CASE leaves[b]
      BY <1>5, <2>4, <2>5, <2>6, <3>1, <3>2
    <3>3. CASE ~leaves[b] /\ caps # all
      BY <1>5, <2>6, <3>1, <3>3
    <3>4. CASE ~leaves[b] /\ caps = all
      <4>1. caps = {}
        BY <2>5, <3>4
      <4>2. UNION {ToolsOf(entries[c]) : c \in caps} = {}
        BY <4>1
      <4> QED
        BY <1>5, <2>6, <3>1, <3>4, <4>2
    <3> QED
      BY <3>2, <3>3, <3>4
  <2>8. ToolsBelow(view[b].path)' = ToolsBelow(n)
    BY <1>6 DEF ToolsBelow
  <2> HIDE DEF n
  <2> QED
    BY <1>5, <1>6, <2>2, <2>7, <2>8 DEF AnswerTrue, n
<1>10. \A d \in Readers : d # b => KeepsBrowser(d)
  BY <1>1, <1>5 DEF KeepsBrowser
<1>11. ReaderTypes'
  BY <1>1, <1>2, <1>5 DEF ReaderTypes, pagerVars
<1> QED
  BY <1>1, <1>3, <1>4, <1>7, <1>8, <1>9, <1>10, <1>11 DEF BrowserMoved, BrowserTrue

(* The operations of the path itself.                                       *)
LEMMA BrowseOwnStep ==
  ASSUME CatalogInv, NEW b \in Readers, BrowseOwn(b)
  PROVE  BrowserMoved(b)
<1> DEFINE r == lease[Slot(b)]
<1>1. /\ bpc[b] = "own" /\ Reading(b) /\ Release(Slot(b))
      /\ tools' = [tools EXCEPT ![b] = OwnTools(r)]
      /\ bpc' = [bpc EXCEPT ![b] = "done"]
      /\ UNCHANGED <<pagerVars, view, lookups, names, leaves>>
  BY DEF BrowseOwn
<1>2. ReaderTypes /\ TypeOK /\ ViewTrue(b) /\ LookupsTrue(b) /\ AnswerTrue(b)
  BY DEF CatalogInv, Inductive, BrowserTrue
<1>3. IdOf[r] = view[b].capability /\ (Fresh(b) => r \in Installed) /\ view[b].capability # None
  BY <1>1, <1>2 DEF LookupsTrue, ViewTrue
<1> HIDE DEF r
<1>4. /\ NoneHeld(b)' /\ lookups'[b] \in Nat /\ lookups'[b] <= Len(Lookups[b])
      /\ \A d \in Readers : d # b => KeepsSlots(d)
      /\ UNCHANGED registryVars
      /\ r \in Records /\ Published(r)
  BY <1>1, ReadingReleases DEF r
<1>5. /\ bpc'[b] = "done" /\ bpc' \in [Readers -> {"idle", "children", "own", "done", "failed"}]
      /\ tools'[b] = OwnTools(r) /\ tools' = [d \in Readers |-> tools'[d]]
      /\ \A d \in Readers : d # b => bpc'[d] = bpc[d] /\ tools'[d] = tools[d]
  BY <1>1, <1>2 DEF ReaderTypes
<1>6. /\ revision' = revision /\ closed' = closed /\ nodes' = nodes /\ entries' = entries
      /\ id' = id /\ view' = view
  BY <1>1, <1>4 DEF registryVars
<1>7. ViewTrue(b)'
  BY <1>2, <1>5, <1>6 DEF ViewTrue
<1>8. LookupsTrue(b)'
  BY <1>4, NoneHeldNext
<1>9. ToolsTrue(b)'
  <2>1. PICK s \in Records : s = r
    BY <1>4
  <2>2. Published(s)'
    BY <1>4, <1>6, <2>1 DEF Published
  <2>3. \A t \in OwnTools(s) : {u \in OwnTools(s) : u.capability = t.capability} = OwnTools(s)
    BY ToolFacts
  <2>4. tools'[b] = OwnTools(s)
    BY <1>5, <2>1
  <2>5. \A t \in tools'[b] : \E q \in Records :
          Published(q)' /\ {u \in tools'[b] : u.capability = t.capability} = OwnTools(q)
    BY <2>2, <2>3, <2>4
  <2>6. \A t, u \in tools'[b] : t.target = u.target => t = u
    BY <2>4, OwnToolsFacts
  <2> QED
    BY <1>5, <2>5, <2>6 DEF ToolsTrue
<1>10. AnswerTrue(b)'
  <2> SUFFICES ASSUME Fresh(b)' PROVE AnswerTrue(b)'
    BY DEF AnswerTrue
  <2>1. Fresh(b)
    BY <1>6 DEF Fresh
  <2>2. view[b].path \in DOMAIN nodes /\ view[b].capability = nodes[view[b].path].capability
    BY <1>1, <1>2, <2>1 DEF AnswerTrue
  <2>3. entries[view[b].capability] = r
    BY <1>2, <1>3, <2>1, InstalledEntry
  <2>4. ToolsBelow(view[b].path) = ToolsOf(r)
    BY <1>3, <2>2, <2>3 DEF ToolsBelow
  <2>5. ToolsBelow(view[b].path)' = ToolsBelow(view[b].path)
    BY <1>6 DEF ToolsBelow
  <2>6. /\ tools'[b] \subseteq ToolsOf(r)
        /\ \A t \in ToolsOf(r) : \E u \in tools'[b] : u.target = t.target
    BY <1>4, <1>5, ToolFacts, OwnToolsFacts
  <2> QED
    BY <1>5, <1>6, <2>2, <2>4, <2>5, <2>6 DEF AnswerTrue
<1>11. \A d \in Readers : d # b => KeepsBrowser(d)
  BY <1>1, <1>5 DEF KeepsBrowser
<1>12. ReaderTypes'
  BY <1>1, <1>2, <1>5 DEF ReaderTypes, pagerVars
<1> QED
  BY <1>1, <1>4, <1>7, <1>8, <1>9, <1>10, <1>11, <1>12 DEF BrowserMoved, BrowserTrue
-----------------------------------------------------------------------------
(* Every step of the registry, of its callers and of its readers preserves  *)
(* the invariant.                                                           *)
LEMMA CatalogStep == CatalogInv /\ [CatalogNext]_catalogVars => CatalogInv'
<1> SUFFICES ASSUME CatalogInv, [CatalogNext]_catalogVars PROVE CatalogInv'
  OBVIOUS
<1>1. [Next]_vars
  BY UsesRegistry
<1>2. CASE RegistryStep
  BY <1>2, RegistryStepKeeps
<1>3. ASSUME NEW b \in Readers, PagerStep(b) PROVE CatalogInv'
  BY <1>3, PagerStepKeeps
<1>4. ASSUME NEW b \in Readers, BrowserStep(b) PROVE CatalogInv'
  <2>1. BrowserMoved(b)
    BY <1>4, BrowseStep, BrowseCategoryStep, BrowseLookupStep, BrowseReadStep,
       BrowseChildrenDoneStep, BrowseOwnStep DEF BrowserStep
  <2> QED
    BY <1>1, <2>1, BrowserMovedKeeps
<1>5. CASE UNCHANGED catalogVars
  <2>1. UNCHANGED <<vars, pagerVars, browserVars>>
    BY <1>5 DEF catalogVars
  <2>2. \A b \in Readers : KeepsPager(b) /\ KeepsBrowser(b)
    BY <2>1 DEF pagerVars, browserVars, KeepsPager, KeepsBrowser
  <2>3. \A b \in Readers : PagerTrue(b)' /\ BrowserTrue(b)'
    BY <1>1, <2>1, <2>2, QuietSlots, PagerStays, BrowserStays
  <2>4. ReaderTypes'
    BY <2>1 DEF pagerVars, browserVars, ReaderTypes, CatalogInv
  <2> QED
    BY <1>1, <2>3, <2>4, RegistryKept DEF CatalogInv
<1> QED
  BY <1>2, <1>3, <1>4, <1>5 DEF CatalogNext

(* Nobody has asked for anything yet.                                       *)
LEMMA CatalogInitial == CatalogInit => CatalogInv
<1> SUFFICES ASSUME CatalogInit PROVE CatalogInv
  OBVIOUS
<1>1. Init
  BY DEF CatalogInit
<1>2. Inductive /\ Resolutions
  BY <1>1, InductiveInit DEF Init, Resolutions
<1>3. NodesTrue
  BY <1>1 DEF Init, NodesTrue
<1>4. ReaderTypes
  <2>1. <<>> \in Seq(ChildRecords) /\ NoView \in Views
    BY DEF NoView, Views
  <2> QED
    BY <2>1 DEF CatalogInit, ReaderTypes
<1>5. ASSUME NEW b \in Readers PROVE PagerTrue(b) /\ BrowserTrue(b)
  <2>1. /\ cursor[b] = None /\ gathered[b] = <<>> /\ listing[b] = <<>> /\ answer[b].kind = "none"
        /\ bpc[b] = "idle" /\ view[b] = NoView /\ lookups[b] = 0 /\ tools[b] = {} /\ revision = 0
    BY <1>1 DEF CatalogInit, Init
  <2>2. Len(<<>>) = 0 /\ SubSeq(<<>>, 1, 0) = <<>>
    BY SubSeqEmpty
  <2>3. PagerTrue(b)
    BY <2>1, <2>2 DEF PagerTrue
  <2>4. ViewTrue(b)
    BY <2>1, <2>2 DEF ViewTrue, NoView
  <2>5. \A i \in 1 .. Len(Lookups[b]) : pc[Lookups[b][i]] = "idle"
    BY <1>1, SlotFacts DEF Init
  <2>6. LookupsTrue(b)
    BY <2>1, <2>5, SlotFacts DEF LookupsTrue, Reading
  <2> QED
    BY <2>1, <2>3, <2>4, <2>6 DEF BrowserTrue, ToolsTrue, AnswerTrue
<1> QED
  BY <1>2, <1>3, <1>4, <1>5 DEF CatalogInv

(* The inductive invariant of the registry and its readers: what a reader   *)
(* remembers of a moment of the registry is true of that moment, and still  *)
(* of the present one while its revision stands.                            *)
THEOREM CatalogInvariant == CatalogSpec => []CatalogInv
  BY CatalogInitial, CatalogStep, PTL DEF CatalogSpec

(* However many readers page and browse, the registry sees nothing but      *)
(* callers of its own operations: whatever is proved of the registry alone  *)
(* holds while it is searched and browsed.                                  *)
THEOREM ReadersUseRegistry == CatalogSpec => Spec
<1>1. CatalogInit => Init
  BY DEF CatalogInit
<1>2. CatalogInv /\ [CatalogNext]_catalogVars => [Next]_vars
  BY UsesRegistry
<1> QED
  BY <1>1, <1>2, CatalogInvariant, PTL DEF CatalogSpec, Spec

(* The pages a client gathers through child cursors are of one moment,      *)
(* for any registry, any readers and any page sizes.                        *)
THEOREM PagesOfOneRevisionHolds == CatalogSpec => []PagesOfOneRevision
<1>1. CatalogInv => PagesOfOneRevision
  <2> SUFFICES ASSUME CatalogInv, NEW p \in Readers
               PROVE  /\ IsPrefix(gathered[p], listing[p])
                      /\ answer[p].kind = "page" /\ cursor[p] = None =>
                           answer[p].of.childLimit = 0 \/ gathered[p] = listing[p]
                      /\ cursor[p] # None =>
                           /\ Len(gathered[p]) = cursor[p].offset /\ cursor[p].offset < Len(listing[p])
                           /\ ~closed /\ cursor[p].revision = revision =>
                                /\ cursor[p].path \in DOMAIN nodes
                                /\ listing[p] = BrowseLocked(cursor[p].path)
    BY DEF PagesOfOneRevision
  <2>1. PagerTrue(p) /\ gathered[p] \in Seq(ChildRecords)
    BY DEF CatalogInv, ReaderTypes
  <2>2. SubSeq(gathered[p], 1, Len(gathered[p])) = gathered[p]
    BY <2>1, SubSeqFull
  <2>3. IsPrefix(gathered[p], listing[p])
    BY <2>1, <2>2 DEF PagerTrue, IsPrefix
  <2> QED
    BY <2>1, <2>3 DEF PagerTrue
<1> QED
  BY <1>1, CatalogInvariant, PTL

(* An answer put together from several lookups: every capability in it is   *)
(* of one generation, undisturbed it is what the registry has, and its      *)
(* leases are gone when it ends.                                            *)
THEOREM BrowseAnswerTrueHolds == CatalogSpec => []BrowseAnswerTrue
<1>1. CatalogInv => BrowseAnswerTrue
  <2> SUFFICES ASSUME CatalogInv, NEW b \in Readers
               PROVE  /\ bpc[b] \in {"done", "failed"} => \A k \in Range(Lookups[b]) : pc[k] # "holding"
                      /\ bpc[b] = "done" =>
                           /\ \A t \in tools[b] : \E r \in Records :
                                Published(r) /\ {u \in tools[b] : u.capability = t.capability} = OwnTools(r)
                           /\ ~closed /\ view[b].revision = revision =>
                                /\ tools[b] \subseteq ToolsBelow(view[b].path)
                                /\ \A t \in ToolsBelow(view[b].path) :
                                     Cardinality({u \in tools[b] : u.target = t.target}) = 1
    BY DEF BrowseAnswerTrue
  <2>1. LookupsTrue(b) /\ ToolsTrue(b) /\ AnswerTrue(b)
    BY DEF CatalogInv, BrowserTrue
  <2>2. ASSUME bpc[b] \in {"done", "failed"}, NEW k \in Range(Lookups[b]) PROVE pc[k] # "holding"
    <3>1. PICK i \in DOMAIN Lookups[b] : k = Lookups[b][i]
      BY Zenon DEF Range
    <3>2. i \in 1 .. Len(Lookups[b])
      BY SlotFacts
    <3> QED
      BY <2>1, <2>2, <3>1, <3>2 DEF LookupsTrue
  <2>3. ASSUME bpc[b] = "done", ~closed, view[b].revision = revision, NEW t \in ToolsBelow(view[b].path)
        PROVE  Cardinality({u \in tools[b] : u.target = t.target}) = 1
    <3>1. PICK u \in tools[b] : u.target = t.target
      BY <2>1, <2>3 DEF AnswerTrue, Fresh
    <3>2. {v \in tools[b] : v.target = t.target} = {u}
      BY <2>1, <3>1 DEF ToolsTrue
    <3>3. Cardinality({u}) = 1
      BY FS_Singleton
    <3> QED
      BY <3>2, <3>3, Zenon
  <2>4. bpc[b] = "done" /\ ~closed /\ view[b].revision = revision =>
          tools[b] \subseteq ToolsBelow(view[b].path)
    BY <2>1 DEF AnswerTrue, Fresh
  <2> QED
    BY <2>1, <2>2, <2>3, <2>4 DEF ToolsTrue
<1> QED
  BY <1>1, CatalogInvariant, PTL

(* What is shown below a node is of an installed record.                    *)
LEMMA BelowInstalled ==
  ASSUME TypeOK, NodesTrue, ~closed, NEW n \in DOMAIN nodes, NEW t \in ToolsBelow(n)
  PROVE  \E r \in Installed : t \in ToolsOf(r)
<1>1. \A c \in DOMAIN nodes : nodes[c].capability # None =>
        /\ c \in Capabilities /\ entries[c] \in Records /\ nodes[c].capability = c
  BY NodeFacts
<1>2. \A c \in DOMAIN nodes : nodes[c].capability # None => entries[c] \in Installed
  BY <1>1 DEF Installed
<1>3. CASE nodes[n].capability # None
  BY <1>1, <1>2, <1>3 DEF ToolsBelow
<1>4. CASE nodes[n].capability = None
  <2>1. t \in UNION {ToolsOf(entries[c]) : c \in {c \in nodes[n].children : nodes[c].capability # None}}
    BY <1>4 DEF ToolsBelow
  <2>2. PICK c \in nodes[n].children : nodes[c].capability # None /\ t \in ToolsOf(entries[c])
    BY <2>1
  <2>3. c \in DOMAIN nodes
    BY NodeFacts
  <2> QED
    BY <1>2, <2>2, <2>3
<1> QED
  BY <1>3, <1>4

(* The path that legacyToolPath lists for an operation of an installed      *)
(* record resolves to it, unless a second record can be meant.              *)
LEMMA ListedPathMeans ==
  ASSUME TypeOK, NEW r \in Installed, NEW o \in Operations[r],
         \A s \in Installed : IdOf[s] # IdOf[r] =>
           \A x \in Operations[s] : ~Denotes(ToolPath[r][o], s, x)
  PROVE  Meanings(ToolPath[r][o]) = {<<IdOf[r], o>>}
<1> DEFINE q == ToolPath[r][o]
           legacy == LegacyMatches(q)
           direct == {c \in Capabilities \cap {q} :
                        entries[c] # None /\ Operations[entries[c]] = {PathOperation[q]}}
<1>1. r \in Records /\ IdOf[r] \in Capabilities /\ entries[IdOf[r]] = r
  BY InstalledEntry
<1>2. IF Operations[r] = {o} THEN q \in LegacyPaths[r]
      ELSE <<PathCapability[q], PathOperation[q]>> = <<IdOf[r], o>>
  BY <1>1, CatalogAssumption
<1> HIDE DEF q
<1>3. \A s \in Installed : s # r => IdOf[s] # IdOf[r]
  BY <1>1, InstalledEntry
<1>4. \A s \in Installed : s # r => \A x \in Operations[s] : ~Denotes(q, s, x)
  BY <1>3 DEF q
<1>5. legacy \subseteq {r}
  <2> SUFFICES ASSUME NEW s \in legacy, s # r PROVE FALSE
    OBVIOUS
  <2>1. s \in Installed /\ Cardinality(Operations[s]) = 1 /\ q \in LegacyPaths[s]
    BY DEF LegacyMatches
  <2>2. s \in Records
    BY <2>1 DEF Installed
  <2>3. IsFiniteSet(Operations[s])
    BY <2>2, RegistryAssumption
  <2>4. PICK x : Operations[s] = {x}
    BY <2>1, <2>3, FS_Singleton
  <2> QED
    BY <1>4, <2>1, <2>4 DEF Denotes
<1>6. CASE Operations[r] = {o}
  <2>1. Cardinality(Operations[r]) = 1
    <3>1. Cardinality({o}) = 1
      BY FS_Singleton
    <3> QED
      BY <1>6, <3>1, Zenon
  <2>2. legacy = {r}
    BY <1>1, <1>2, <1>5, <1>6, <2>1 DEF LegacyMatches
  <2>3. Cardinality(legacy) = 1
    <3>1. Cardinality({r}) = 1
      BY FS_Singleton
    <3> QED
      BY <2>2, <3>1, Zenon
  <2>4. UNION {{<<IdOf[s], x>> : x \in Operations[s]} : s \in legacy} = {<<IdOf[r], o>>}
    BY <1>6, <2>2
  <2>5. ~(Cardinality(legacy) > 1)
    BY <2>3
  <2> QED
    BY <2>2, <2>4, <2>5 DEF Meanings, q
<1>7. CASE Operations[r] # {o}
  <2>1. PathCapability[q] = IdOf[r] /\ PathOperation[q] = o
    BY <1>2, <1>7
  <2>2. r \notin legacy
    BY <1>1, <1>7, OnlyOperation DEF LegacyMatches
  <2>3. legacy = {}
    BY <1>5, <2>2
  <2>4. ~(Cardinality(legacy) > 1)
    <3>1. Cardinality({}) = 0
      BY FS_EmptySet
    <3>2. Cardinality(legacy) = 0
      BY <2>3, <3>1, Zenon
    <3> QED
      BY <3>2
  <2>5. direct = {}
    <3> SUFFICES ASSUME q \in Capabilities, entries[q] # None,
                        Operations[entries[q]] = {PathOperation[q]}
                 PROVE  FALSE
      BY DEF direct
    <3> DEFINE s == entries[q]
    <3>1. s \in Installed /\ IdOf[s] = q
      BY DEF TypeOK, Installed
    <3>2. s # r
      BY <1>7, <2>1
    <3>3. Denotes(q, s, PathOperation[q]) /\ PathOperation[q] \in Operations[s]
      BY <3>1 DEF Denotes
    <3> QED
      BY <1>4, <3>1, <3>2, <3>3
  <2>6. {<<c, PathOperation[q]>> : c \in {PathCapability[q]} \ {None}} = {<<IdOf[r], o>>}
    BY <1>1, <2>1, RegistryAssumption
  <2> QED
    BY <2>3, <2>4, <2>5, <2>6 DEF Meanings, q
<1> QED
  BY <1>6, <1>7

(* A listed tool path resolves to the listed capability and operation while *)
(* nothing changes, unless another installed package can be meant by it.    *)
THEOREM ListedPathsResolveHolds == CatalogSpec => []ListedPathsResolve
<1>1. CatalogInv => ListedPathsResolve
  <2> SUFFICES ASSUME CatalogInv, NEW b \in Readers, bpc[b] = "done", ~closed,
                      view[b].revision = revision, NEW t \in tools[b],
                      ~\E r \in Installed : IdOf[r] # t.capability /\
                          \E o \in Operations[r] : Denotes(t.path, r, o)
               PROVE  Meanings(t.path) = {<<t.capability, t.operation>>}
    BY DEF ListedPathsResolve
  <2>1. TypeOK /\ NodesTrue /\ AnswerTrue(b) /\ Fresh(b)
    BY DEF CatalogInv, Inductive, BrowserTrue, Fresh
  <2>2. view[b].path \in DOMAIN nodes /\ t \in ToolsBelow(view[b].path)
    BY <2>1 DEF AnswerTrue
  <2>3. PICK r \in Installed : t \in ToolsOf(r)
    BY <2>1, <2>2, BelowInstalled
  <2>4. /\ t.operation \in Operations[r] /\ t.path = ToolPath[r][t.operation]
        /\ t.capability = IdOf[r]
    BY <2>3, ToolFacts DEF Installed
  <2> QED
    BY <2>1, <2>3, <2>4, ListedPathMeans
<1> QED
  BY <1>1, CatalogInvariant, PTL
-----------------------------------------------------------------------------
(* Search: what matchCapability finds by trying one kind of match after the *)
(* other is what the contract's table says, row by row.                     *)

(* All that matters of the two fixed scores.                                *)
LEMMA FixedScores == ExactScore \in Nat \ {0} /\ MinimumScore \in Nat \ {0}
BY SMT DEF ExactScore, MinimumScore

(* A score is a number, whatever the texts.                                 *)
LEMMA ScoreType ==
  ASSUME NEW q \in DOMAIN Tokens, NEW t \in DOMAIN Tokens
  PROVE  LexicalSearchScore(q, t) \in Nat
<1> DEFINE overlap == SearchTokenBytes(Tokens[q] \cap Tokens[t])
           query == SearchTokenBytes(Tokens[q])
           field == SearchTokenBytes(Tokens[t])
<1>1. /\ IsFiniteSet(Tokens[q]) /\ \A u \in Tokens[q] : TokenBytes[u] \in Nat
      /\ IsFiniteSet(Tokens[t]) /\ \A u \in Tokens[t] : TokenBytes[u] \in Nat
  BY SearchAssumption
<1>2. /\ Tokens[q] \cap Tokens[t] \subseteq Tokens[q]
      /\ Tokens[q] \cap Tokens[t] \subseteq Tokens[t]
  OBVIOUS
<1>3. query \in Nat /\ field \in Nat
  BY <1>1, TotalType DEF SearchTokenBytes
<1>4. overlap \in Nat /\ overlap <= query
  BY <1>1, <1>2, TotalSubset DEF SearchTokenBytes
<1>5. overlap <= field
  BY <1>1, <1>2, TotalSubset DEF SearchTokenBytes
<1>6. LexicalSearchScore(q, t) = Score(overlap, query, field)
  BY DEF LexicalSearchScore
<1> HIDE DEF overlap, query, field
<1>7. CASE overlap = 0
  BY <1>6, <1>7 DEF Score
<1>8. CASE overlap # 0
  <2>1. query \in Nat \ {0} /\ field \in Nat \ {0}
    BY <1>3, <1>4, <1>5, <1>8
  <2> DEFINE a == 500000 * overlap
             b == 250000 * overlap
             c == IF 25000 * overlap > 250000 THEN 250000 ELSE 25000 * overlap
  <2>2. a \in Nat /\ b \in Nat /\ c \in Nat
    BY <1>4, SMT
  <2>3. Score(overlap, query, field) = (a \div query) + (b \div field) + c
    BY <1>8, SMT DEF Score
  <2> HIDE DEF a, b, c
  <2>4. \A m \in Nat : \A n \in Nat \ {0} : m \div n \in Nat
    OBVIOUS
  <2>5. (a \div query) \in Nat /\ (b \div field) \in Nat
    BY <2>1, <2>2, <2>4
  <2> QED
    BY <1>6, <2>2, <2>3, <2>5
<1> QED
  BY <1>7, <1>8

(* bestLexicalMatch picks one place or none: none if no score is good       *)
(* enough, else one whose score no other exceeds.                           *)
LEMMA FirstBestOne ==
  ASSUME NEW n \in Nat, NEW score \in [1 .. n -> Nat]
  PROVE  /\ FirstBest(score) \subseteq 1 .. n
         /\ \A i, j \in FirstBest(score) : i = j
         /\ \A i \in FirstBest(score) :
              score[i] >= MinimumScore /\ \A j \in 1 .. n : score[j] <= score[i]
         /\ (\E j \in 1 .. n : score[j] >= MinimumScore) => FirstBest(score) # {}
<1>0. DOMAIN score = 1 .. n
  OBVIOUS
<1>1. /\ FirstBest(score) \subseteq 1 .. n
      /\ \A i, j \in FirstBest(score) : i = j
      /\ \A i \in FirstBest(score) :
           score[i] >= MinimumScore /\ \A j \in 1 .. n : score[j] <= score[i]
  BY <1>0, FixedScores DEF FirstBest
<1>2. ASSUME NEW k \in 1 .. n, score[k] >= MinimumScore  PROVE  FirstBest(score) # {}
  <2> DEFINE S == {score[i] : i \in 1 .. n}
  <2>1. IsFiniteSet(1 .. n)
    BY FS_Interval
  <2>2. S \subseteq Nat /\ S # {} /\ IsFiniteSet(S)
    <3>1. IsFiniteSet(S)
      BY <2>1, ImageFinite
    <3> QED  BY <3>1
  <2>3. PICK m \in S : \A x \in S : x <= m
    <3> HIDE DEF S
    <3> QED  BY <2>2, Largest, Zenon
  <2> DEFINE T == {i \in 1 .. n : score[i] = m}
  <2>4. T \subseteq Nat /\ T # {}
    OBVIOUS
  <2>5. PICK i \in T : \A j \in T : i <= j
    <3> HIDE DEF T
    <3> QED  BY <2>4, LeastNumber, Zenon
  <2>6. i \in 1 .. n /\ score[i] = m /\ m \in Nat
    OBVIOUS
  <2>7. \A j \in 1 .. n : score[j] <= m
    BY <2>3
  <2>8. \A j \in 1 .. n : score[j] = m => i <= j
    BY <2>5
  <2> HIDE DEF T, S
  <2>9. score[i] >= MinimumScore
    BY <1>2, <2>6, <2>7, FixedScores
  <2>10. \A j \in 1 .. n : score[j] < score[i] \/ (score[j] = score[i] /\ i <= j)
    BY <2>6, <2>7, <2>8
  <2> QED
    BY <1>0, <2>6, <2>9, <2>10 DEF FirstBest
<1> QED
  BY <1>1, <1>2

(* What one kind of match finds in a row of texts, and how it compares with *)
(* the row's best field.                                                    *)
RowTrue(K, q, row, texts) ==
  /\ \A m, n \in K : m = n
  /\ K = {} <=> \A t \in texts : FieldScore(q, <<row, t>>) = 0
  /\ \A t \in texts : FieldScore(q, <<row, t>>) \in Nat
  /\ \A m \in K :
       /\ m.tier = ContractTier[row] /\ m.score \in Nat \ {0}
       /\ \E t \in texts : FieldScore(q, <<row, t>>) = m.score
       /\ \A t \in texts : FieldScore(q, <<row, t>>) <= m.score

(* The score of a field in an exact and in a lexical row.                   *)
LEMMA FieldScores ==
  ASSUME NEW q, NEW row \in Nat, NEW t
  PROVE  /\ row <= 6 => FieldScore(q, <<row, t>>) = IF Exact[t] = Exact[q] THEN ExactScore ELSE 0
         /\ row > 6 => FieldScore(q, <<row, t>>) =
                         IF LexicalSearchScore(q, t) >= MinimumScore THEN LexicalSearchScore(q, t) ELSE 0
<1>1. <<row, t>>[1] = row /\ <<row, t>>[2] = t
  OBVIOUS
<1>2. ~(row <= 6 /\ row > 6)
  OBVIOUS
<1>3. CASE row <= 6
  BY <1>1, <1>2, <1>3 DEF FieldScore
<1>4. CASE row > 6
  BY <1>1, <1>2, <1>4 DEF FieldScore
<1> QED
  BY <1>3, <1>4

(* The rows of exact matches.                                               *)
LEMMA ExactRow ==
  ASSUME NEW q, NEW row \in 1 .. 6, NEW texts, NEW kind, NEW field
  PROVE  RowTrue(ExactSearchMatch(q, texts, ContractTier[row], kind, field), q, row, texts)
<1> DEFINE K == ExactSearchMatch(q, texts, ContractTier[row], kind, field)
           only == [tier |-> ContractTier[row], score |-> ExactScore, kind |-> kind, field |-> field]
<1>1. \A m \in K : m = only
  BY DEF ExactSearchMatch
<1>2. K # {} <=> \E t \in texts : Exact[t] = Exact[q]
  BY DEF ExactSearchMatch
<1>3. \A t \in texts : FieldScore(q, <<row, t>>) = IF Exact[t] = Exact[q] THEN ExactScore ELSE 0
  BY FieldScores
<1>4. only.tier = ContractTier[row] /\ only.score = ExactScore
  OBVIOUS
<1> HIDE DEF K, only
<1>5. ExactScore \in Nat \ {0}
  BY FixedScores
<1>6. \A m \in K : /\ m.tier = ContractTier[row] /\ m.score \in Nat \ {0}
                   /\ \E t \in texts : FieldScore(q, <<row, t>>) = m.score
                   /\ \A t \in texts : FieldScore(q, <<row, t>>) <= m.score
  BY <1>1, <1>2, <1>3, <1>4, <1>5
<1>7. \A t \in texts : FieldScore(q, <<row, t>>) \in Nat
  BY <1>3, <1>5
<1>8. K = {} <=> \A t \in texts : FieldScore(q, <<row, t>>) = 0
  BY <1>2, <1>3, <1>5
<1>9. RowTrue(K, q, row, texts)
  BY <1>1, <1>6, <1>7, <1>8 DEF RowTrue
<1> QED
  BY <1>9 DEF K

(* The rows of lexical matches.                                             *)
LEMMA LexicalRow ==
  ASSUME NEW q \in DOMAIN Tokens, NEW row \in 7 .. 9, NEW n \in Nat, NEW fields, NEW kind,
         DOMAIN fields = 1 .. n, \A j \in 1 .. n : fields[j].text \in DOMAIN Tokens
  PROVE  RowTrue(BestLexicalMatch(q, ContractTier[row], kind, fields), q, row,
                 {fields[j].text : j \in 1 .. n})
<1> DEFINE K == BestLexicalMatch(q, ContractTier[row], kind, fields)
           score == [j \in 1 .. n |-> LexicalSearchScore(q, fields[j].text)]
           texts == {fields[j].text : j \in 1 .. n}
           match(i) == [tier |-> ContractTier[row], score |-> score[i], kind |-> kind,
                        field |-> fields[i].name]
<1>1. score \in [1 .. n -> Nat]
  BY ScoreType
<1>2. /\ FirstBest(score) \subseteq 1 .. n
      /\ \A i, j \in FirstBest(score) : i = j
      /\ \A i \in FirstBest(score) :
           score[i] >= MinimumScore /\ \A j \in 1 .. n : score[j] <= score[i]
      /\ (\E j \in 1 .. n : score[j] >= MinimumScore) => FirstBest(score) # {}
  <2> HIDE DEF score
  <2> QED  BY <1>1, FirstBestOne, Zenon
<1>3. K = {match(i) : i \in FirstBest(score)}
  BY <1>2 DEF BestLexicalMatch
<1>4. \A j \in 1 .. n : FieldScore(q, <<row, fields[j].text>>) =
                          IF score[j] >= MinimumScore THEN score[j] ELSE 0
  <2> SUFFICES ASSUME NEW j \in 1 .. n
               PROVE  FieldScore(q, <<row, fields[j].text>>) =
                        IF score[j] >= MinimumScore THEN score[j] ELSE 0
    OBVIOUS
  <2>1. row \in Nat /\ row > 6
    OBVIOUS
  <2>2. score[j] = LexicalSearchScore(q, fields[j].text)
    OBVIOUS
  <2> DEFINE t == fields[j].text
  <2> HIDE DEF score, K, texts, match, t
  <2>3. FieldScore(q, <<row, t>>) =
          IF LexicalSearchScore(q, t) >= MinimumScore THEN LexicalSearchScore(q, t) ELSE 0
    BY <2>1, FieldScores
  <2> QED
    BY <2>2, <2>3 DEF t
<1>5. \A j \in 1 .. n : fields[j].text \in texts
  OBVIOUS
<1>6. \A t \in texts : \E j \in 1 .. n : t = fields[j].text
  OBVIOUS
<1>7. \A i \in 1 .. n : match(i).tier = ContractTier[row] /\ match(i).score = score[i]
  OBVIOUS
<1>8. MinimumScore \in Nat \ {0}
  BY FixedScores
<1> HIDE DEF K, score, texts, match
<1>9. \A t \in texts : FieldScore(q, <<row, t>>) \in Nat
  BY <1>1, <1>4, <1>6, <1>8
<1>10. \A m, o \in K : m = o
  BY <1>2, <1>3
<1>11. K = {} <=> \A t \in texts : FieldScore(q, <<row, t>>) = 0
  <2>1. K = {} <=> FirstBest(score) = {}
    BY <1>3
  <2>2. ASSUME NEW i \in FirstBest(score)
        PROVE  fields[i].text \in texts /\ FieldScore(q, <<row, fields[i].text>>) # 0
    BY <1>1, <1>2, <1>4, <1>5, <1>8, <2>2
  <2>3. ASSUME FirstBest(score) = {}
        PROVE  \A t \in texts : FieldScore(q, <<row, t>>) = 0
    BY <1>1, <1>2, <1>4, <1>6, <1>8, <2>3
  <2> QED
    BY <2>1, <2>2, <2>3
<1>12. ASSUME NEW m \in K
       PROVE  /\ m.tier = ContractTier[row] /\ m.score \in Nat \ {0}
              /\ \E t \in texts : FieldScore(q, <<row, t>>) = m.score
              /\ \A t \in texts : FieldScore(q, <<row, t>>) <= m.score
  <2>1. PICK i \in FirstBest(score) : m = match(i)
    BY <1>3
  <2>2. i \in 1 .. n /\ m.tier = ContractTier[row] /\ m.score = score[i]
    BY <1>2, <1>7, <2>1
  <2>3. score[i] \in Nat /\ score[i] >= MinimumScore /\ \A j \in 1 .. n : score[j] <= score[i]
    BY <1>1, <1>2, <1>8, <2>2
  <2>4. FieldScore(q, <<row, fields[i].text>>) = m.score
    BY <1>4, <1>8, <2>2, <2>3
  <2>5. \A j \in 1 .. n : FieldScore(q, <<row, fields[j].text>>) <= m.score
    BY <1>1, <1>4, <1>8, <2>2, <2>3
  <2>6. m.score \in Nat \ {0}
    BY <1>8, <2>2, <2>3
  <2>7. \E t \in texts : FieldScore(q, <<row, t>>) = m.score
    BY <1>5, <2>2, <2>4
  <2>8. \A t \in texts : FieldScore(q, <<row, t>>) <= m.score
    BY <1>6, <2>5
  <2> QED
    BY <2>2, <2>6, <2>7, <2>8
<1>13. RowTrue(K, q, row, texts)
  BY <1>9, <1>10, <1>11, <1>12 DEF RowTrue
<1> QED
  BY <1>13 DEF K, texts

(* The texts of a record that each row of the table is about.               *)
RowTexts(r) ==
  LET operations == Range(OperationList[r])
      skills == Range(SkillList[r])
  IN  <<{IdOf[r]}, {o.qualified : o \in operations}, {Name[r]}, Tags[r],
        {o.id : o \in operations}, {s.name : s \in skills}, {Name[r], Description[r]},
        {o.description : o \in operations},
        {s.name : s \in skills} \cup {s.description : s \in skills}>>

LEMMA ContractRows ==
  ASSUME NEW r
  PROVE  /\ \A f \in ContractFields(r) : f[1] \in 1 .. 9 /\ f[2] \in RowTexts(r)[f[1]] /\ f = <<f[1], f[2]>>
         /\ \A i \in 1 .. 9 : \A t \in RowTexts(r)[i] : <<i, t>> \in ContractFields(r)
<1> DEFINE operations == Range(OperationList[r])
           skills == Range(SkillList[r])
           T == RowTexts(r)
<1>1. /\ T[1] = {IdOf[r]} /\ T[2] = {o.qualified : o \in operations} /\ T[3] = {Name[r]}
      /\ T[4] = Tags[r] /\ T[5] = {o.id : o \in operations} /\ T[6] = {s.name : s \in skills}
      /\ T[7] = {Name[r], Description[r]} /\ T[8] = {o.description : o \in operations}
      /\ T[9] = {s.name : s \in skills} \cup {s.description : s \in skills}
  BY DEF RowTexts
<1> DEFINE ofOperation(o) == {<<2, o.qualified>>, <<5, o.id>>, <<8, o.description>>}
           ofSkill(s) == {<<6, s.name>>, <<9, s.name>>, <<9, s.description>>}
           ofRecord == {<<1, IdOf[r]>>, <<3, Name[r]>>, <<7, Name[r]>>, <<7, Description[r]>>}
                         \cup {<<4, t>> : t \in Tags[r]}
<1>2. \A f : f \in ContractFields(r) <=>
               \/ f \in ofRecord
               \/ \E o \in operations : f \in ofOperation(o)
               \/ \E s \in skills : f \in ofSkill(s)
  <2> DEFINE A == UNION {ofOperation(o) : o \in operations}
             B == UNION {ofSkill(s) : s \in skills}
  <2>1. ContractFields(r) = ofRecord \cup A \cup B
    BY DEF ContractFields
  <2> HIDE DEF ofOperation, ofSkill, ofRecord, operations, skills
  <2>2. \A f : f \in A <=> \E o \in operations : f \in ofOperation(o)
    OBVIOUS
  <2>3. \A f : f \in B <=> \E s \in skills : f \in ofSkill(s)
    OBVIOUS
  <2> HIDE DEF A, B
  <2> QED  BY <2>1, <2>2, <2>3
<1> HIDE DEF operations, skills, T
<1>3. ASSUME NEW f \in ContractFields(r)
      PROVE  \E i \in 1 .. 9 : \E t \in T[i] : f = <<i, t>>
  <2>1. CASE f \in {<<1, IdOf[r]>>, <<3, Name[r]>>, <<7, Name[r]>>, <<7, Description[r]>>}
    BY <1>1, <2>1
  <2>2. CASE f \in {<<4, t>> : t \in Tags[r]}
    BY <1>1, <2>2
  <2>3. ASSUME NEW o \in operations, f \in ofOperation(o)
        PROVE  \E i \in 1 .. 9 : \E t \in T[i] : f = <<i, t>>
    BY <1>1, <2>3
  <2>4. ASSUME NEW s \in skills, f \in ofSkill(s)
        PROVE  \E i \in 1 .. 9 : \E t \in T[i] : f = <<i, t>>
    BY <1>1, <2>4
  <2>5. \/ f \in ofRecord
        \/ \E o \in operations : f \in ofOperation(o)
        \/ \E s \in skills : f \in ofSkill(s)
    <3> HIDE DEF ofOperation, ofSkill, ofRecord
    <3> QED  BY <1>2
  <2>6. CASE f \in ofRecord
    BY <2>1, <2>2, <2>6
  <2> HIDE DEF ofOperation, ofSkill, ofRecord
  <2> QED
    BY <2>3, <2>4, <2>5, <2>6
<1>4. \A i \in 1 .. 9 : \A t \in T[i] : <<i, t>> \in ContractFields(r)
  <2> SUFFICES ASSUME NEW i \in 1 .. 9, NEW t \in T[i]  PROVE  <<i, t>> \in ContractFields(r)
    OBVIOUS
  <2>1. CASE i \in {1, 3, 4, 7}
    <3>1. <<i, t>> \in ofRecord
      BY <1>1, <2>1
    <3> HIDE DEF ofOperation, ofSkill, ofRecord
    <3> QED  BY <1>2, <3>1
  <2>2. CASE i \in {2, 5, 8}
    <3>1. PICK o \in operations : <<i, t>> \in ofOperation(o)
      BY <1>1, <2>2
    <3> HIDE DEF ofOperation, ofSkill, ofRecord
    <3> QED  BY <1>2, <3>1
  <2>3. CASE i \in {6, 9}
    <3>1. PICK s \in skills : <<i, t>> \in ofSkill(s)
      BY <1>1, <2>3
    <3> HIDE DEF ofOperation, ofSkill, ofRecord
    <3> QED  BY <1>2, <3>1
  <2>4. i \in {1, 3, 4, 7} \cup {2, 5, 8} \cup {6, 9}
    OBVIOUS
  <2> QED
    BY <2>1, <2>2, <2>3, <2>4
<1> QED
  BY <1>3, <1>4 DEF T

(* Every kind of match is the row of the table in its place.                *)
LEMMA KindsAreRows ==
  ASSUME NEW q \in Queries, NEW r \in Records, NEW i \in 1 .. 9
  PROVE  RowTrue(Matches[q][r][i], q, i, RowTexts(r)[i])
<1> DEFINE operations == Range(OperationList[r])
           skills == Range(SkillList[r])
           T == RowTexts(r)
           M == Matches[q][r]
<1>1. /\ T[1] = {IdOf[r]} /\ T[2] = {o.qualified : o \in operations} /\ T[3] = {Name[r]}
      /\ T[4] = Tags[r] /\ T[5] = {o.id : o \in operations} /\ T[6] = {s.name : s \in skills}
      /\ T[7] = {Name[r], Description[r]} /\ T[8] = {o.description : o \in operations}
      /\ T[9] = {s.name : s \in skills} \cup {s.description : s \in skills}
  BY DEF RowTexts
<1>2. /\ ContractTier[1] = 1 /\ ContractTier[2] = 1 /\ ContractTier[3] = 2
      /\ ContractTier[4] = 3 /\ ContractTier[5] = 3 /\ ContractTier[6] = 3
      /\ ContractTier[7] = 4 /\ ContractTier[8] = 5 /\ ContractTier[9] = 5
  BY DEF ContractTier
<1>3. M = MatchKinds(q, r)
  BY DEF Matches
<1>4. /\ M[1] = ExactSearchMatch(q, T[1], ContractTier[1], "exact_capability_id", "capability_id")
      /\ M[2] = ExactSearchMatch(q, T[2], ContractTier[2], "exact_operation_id", "operation_id")
      /\ M[3] = ExactSearchMatch(q, T[3], ContractTier[3], "exact_capability_name", "capability_name")
      /\ M[4] = ExactSearchMatch(q, T[4], ContractTier[4], "exact_tag", "tag")
      /\ M[5] = ExactSearchMatch(q, T[5], ContractTier[5], "exact_local_operation_id", "local_operation_id")
      /\ M[6] = ExactSearchMatch(q, T[6], ContractTier[6], "exact_skill_name", "skill_name")
      /\ M[7] = BestLexicalMatch(q, ContractTier[7], "lexical_capability", CapabilityFields(r))
      /\ M[8] = BestLexicalMatch(q, ContractTier[8], "lexical_operation", OperationFields(r))
      /\ M[9] = BestLexicalMatch(q, ContractTier[9], "lexical_skill", SkillFields(r))
  <2> HIDE DEF M, T
  <2> QED  BY <1>1, <1>2, <1>3 DEF MatchKinds
<1>5. q \in DOMAIN Tokens
  BY SearchAssumption
<1> HIDE DEF M, T
<1>6. CASE i \in 1 .. 6
  <2>1. i \in {1, 2, 3, 4, 5, 6}
    BY <1>6
  <2>2. \E kind, field : M[i] = ExactSearchMatch(q, T[i], ContractTier[i], kind, field)
    BY <1>4, <2>1
  <2>3. PICK kind, field : M[i] = ExactSearchMatch(q, T[i], ContractTier[i], kind, field)
    BY <2>2
  <2> DEFINE texts == T[i]
  <2> HIDE DEF texts
  <2>4. RowTrue(ExactSearchMatch(q, texts, ContractTier[i], kind, field), q, i, texts)
    BY <1>6, ExactRow
  <2> QED
    BY <2>3, <2>4 DEF M, T, texts
<1>7. CASE i = 7
  <2> DEFINE fields == CapabilityFields(r)
  <2>1. /\ DOMAIN fields = 1 .. 2 /\ fields[1].text = Name[r] /\ fields[2].text = Description[r]
    BY DEF CapabilityFields
  <2> HIDE DEF fields
  <2>2. \A j \in 1 .. 2 : fields[j].text \in DOMAIN Tokens
    <3>1. Name[r] \in DOMAIN Tokens /\ Description[r] \in DOMAIN Tokens
      BY SearchAssumption
    <3> QED  BY <2>1, <3>1
  <2>3. T[7] = {fields[j].text : j \in 1 .. 2}
    <3>1. 1 .. 2 = {1, 2}
      OBVIOUS
    <3> QED  BY <1>1, <2>1, <3>1
  <2> DEFINE n == 2
  <2>4. n \in Nat /\ DOMAIN fields = 1 .. n /\ T[7] = {fields[j].text : j \in 1 .. n}
        /\ \A j \in 1 .. n : fields[j].text \in DOMAIN Tokens
    BY <2>1, <2>2, <2>3
  <2> HIDE DEF n
  <2>5. RowTrue(BestLexicalMatch(q, ContractTier[7], "lexical_capability", fields), q, 7,
                {fields[j].text : j \in 1 .. n})
    BY <1>5, <2>4, LexicalRow
  <2> QED
    BY <1>4, <1>7, <2>4, <2>5 DEF M, T, fields
<1>8. CASE i = 8
  <2> DEFINE fields == OperationFields(r)
             n == Len(OperationList[r])
  <2>0. OperationList[r] \in Seq(Range(OperationList[r]))
    BY SearchAssumption
  <2>1. n \in Nat /\ DOMAIN OperationList[r] = 1 .. n
    BY <2>0
  <2>2. /\ DOMAIN fields = 1 .. n
        /\ \A j \in 1 .. n : fields[j].text = OperationList[r][j].description
    BY <2>1 DEF OperationFields
  <2> HIDE DEF fields, n
  <2>3. \A j \in 1 .. n : fields[j].text \in DOMAIN Tokens
    <3>1. \A o \in Range(OperationList[r]) : o.description \in DOMAIN Tokens
      BY SearchAssumption
    <3>2. \A j \in 1 .. n : OperationList[r][j] \in Range(OperationList[r])
      BY <2>1 DEF Range
    <3> QED  BY <2>2, <3>1, <3>2
  <2>4. T[8] = {fields[j].text : j \in 1 .. n}
    <3>1. operations = {OperationList[r][j] : j \in 1 .. n}
      BY <2>1 DEF Range
    <3> HIDE DEF operations
    <3> QED  BY <1>1, <2>2, <3>1
  <2>5. RowTrue(BestLexicalMatch(q, ContractTier[8], "lexical_operation", fields), q, 8,
                {fields[j].text : j \in 1 .. n})
    BY <1>5, <2>1, <2>2, <2>3, LexicalRow
  <2> QED
    BY <1>4, <1>8, <2>4, <2>5 DEF M, T, fields
<1>9. CASE i = 9
  <2> DEFINE fields == SkillFields(r)
             l == Len(SkillList[r])
             n == 2 * l
  <2>0. SkillList[r] \in Seq(Range(SkillList[r]))
    BY SearchAssumption
  <2>1. l \in Nat /\ n \in Nat /\ DOMAIN SkillList[r] = 1 .. l
    BY <2>0
  <2>2. /\ DOMAIN fields = 1 .. n
        /\ \A j \in 1 .. n :
             fields[j].text = IF j % 2 = 1 THEN SkillList[r][(j + 1) \div 2].name
                              ELSE SkillList[r][(j + 1) \div 2].description
    BY DEF SkillFields
  <2>3. /\ \A j \in 1 .. n : (j + 1) \div 2 \in 1 .. l
        /\ \A k \in 1 .. l : /\ 2 * k - 1 \in 1 .. n /\ (2 * k - 1) % 2 = 1 /\ ((2 * k - 1) + 1) \div 2 = k
                             /\ 2 * k \in 1 .. n /\ (2 * k) % 2 = 0 /\ (2 * k + 1) \div 2 = k
    BY <2>1
  <2> HIDE DEF fields, n, l
  <2>4. skills = {SkillList[r][k] : k \in 1 .. l}
    BY <2>1 DEF Range
  <2>5. \A s \in skills : s.name \in DOMAIN Tokens /\ s.description \in DOMAIN Tokens
    BY SearchAssumption
  <2> HIDE DEF skills, operations
  <2>6. \A j \in 1 .. n : fields[j].text \in T[9]
    BY <1>1, <2>2, <2>3, <2>4
  <2>7. \A t \in T[9] : \E j \in 1 .. n : fields[j].text = t
    <3> SUFFICES ASSUME NEW t \in T[9]  PROVE  \E j \in 1 .. n : fields[j].text = t
      OBVIOUS
    <3>1. PICK k \in 1 .. l : t = SkillList[r][k].name \/ t = SkillList[r][k].description
      BY <1>1, <2>4
    <3>2. fields[2 * k - 1].text = SkillList[r][k].name
      BY <2>2, <2>3
    <3>3. fields[2 * k].text = SkillList[r][k].description
      BY <2>2, <2>3
    <3> QED  BY <2>3, <3>1, <3>2, <3>3
  <2>8. T[9] = {fields[j].text : j \in 1 .. n}
    BY <2>6, <2>7
  <2>9. \A j \in 1 .. n : fields[j].text \in DOMAIN Tokens
    BY <1>1, <2>5, <2>6
  <2>10. RowTrue(BestLexicalMatch(q, ContractTier[9], "lexical_skill", fields), q, 9,
                 {fields[j].text : j \in 1 .. n})
    BY <1>5, <2>1, <2>2, <2>9, LexicalRow
  <2> QED
    BY <1>4, <1>9, <2>8, <2>10 DEF M, T, fields
<1>10. i \in 1 .. 6 \/ i = 7 \/ i = 8 \/ i = 9
  OBVIOUS
<1> QED
  BY <1>6, <1>7, <1>8, <1>9, <1>10

(* The least and the largest number of a set that has one.                  *)
LEMMA Extremes ==
  ASSUME NEW S, S \subseteq Nat, NEW m \in S
  PROVE  /\ (\A x \in S : x <= m) => Max(S) = m
         /\ (\A x \in S : m <= x) => Min(S) = m
<1>1. ASSUME \A x \in S : x <= m  PROVE  Max(S) = m
  <2>1. Max(S) \in S /\ \A y \in S : Max(S) >= y
    <3>1. \E x \in S : \A y \in S : x >= y
      BY <1>1
    <3> QED  BY <3>1 DEF Max
  <2>2. Max(S) \in Nat /\ m \in Nat /\ Max(S) >= m /\ Max(S) <= m
    BY <1>1, <2>1
  <2> QED
    BY <2>2
<1>2. ASSUME \A x \in S : m <= x  PROVE  Min(S) = m
  <2>1. Min(S) \in S /\ \A y \in S : Min(S) <= y
    BY <1>2 DEF Min
  <2>2. Min(S) \in Nat /\ m \in Nat /\ Min(S) >= m /\ Min(S) <= m
    BY <1>2, <2>1
  <2> QED
    BY <2>2
<1> QED
  BY <1>1, <1>2

(* The fields that qualify are in the rows where something matches, and the *)
(* match is worth as much as the best of them.                              *)
LEMMA EvidenceRows ==
  ASSUME NEW q \in Queries, NEW r \in Records
  PROVE  /\ \A f \in Evidence[q][r] : f[1] \in 1 .. 9 /\ Matches[q][r][f[1]] # {}
         /\ \A i \in 1 .. 9 : Matches[q][r][i] # {} => \E f \in Evidence[q][r] : f[1] = i
         /\ \A i \in 1 .. 9 : \A m, n \in Matches[q][r][i] : m = n
         /\ \A i \in 1 .. 9 : \A m \in Matches[q][r][i] :
              /\ m.tier = ContractTier[i] /\ m.score \in Nat
              /\ m.score = Max({FieldScore(q, f) : f \in {e \in Evidence[q][r] : e[1] = i}})
<1> DEFINE E == Evidence[q][r]
           K == Matches[q][r]
           T == RowTexts(r)
<1>1. \A f : f \in E <=> f \in ContractFields(r) /\ FieldScore(q, f) > 0
  BY DEF Evidence
<1>2. /\ \A f \in ContractFields(r) : f[1] \in 1 .. 9 /\ f[2] \in T[f[1]] /\ f = <<f[1], f[2]>>
      /\ \A i \in 1 .. 9 : \A t \in T[i] : <<i, t>> \in ContractFields(r)
  BY ContractRows, Zenon
<1>3. \A i \in 1 .. 9 : RowTrue(K[i], q, i, T[i])
  BY KindsAreRows
<1> HIDE DEF E, K, T
<1>4. ASSUME NEW f \in E
      PROVE  f[1] \in 1 .. 9 /\ K[f[1]] # {}
  <2>1. f \in ContractFields(r) /\ FieldScore(q, f) > 0
    BY <1>1
  <2>2. f[1] \in 1 .. 9 /\ f[2] \in T[f[1]] /\ f = <<f[1], f[2]>>
    BY <1>2, <2>1
  <2> DEFINE i == f[1]
             t == f[2]
  <2>3. i \in 1 .. 9 /\ t \in T[i] /\ FieldScore(q, <<i, t>>) > 0
    BY <2>1, <2>2
  <2> HIDE DEF i, t
  <2>4. K[i] # {}
    <3>1. FieldScore(q, <<i, t>>) # 0
      BY <1>3, <2>3 DEF RowTrue
    <3> QED  BY <1>3, <2>3, <3>1 DEF RowTrue
  <2> QED
    BY <2>3, <2>4 DEF i
<1>5. ASSUME NEW i \in 1 .. 9, NEW m \in K[i]
      PROVE  /\ m.tier = ContractTier[i] /\ m.score \in Nat
             /\ m.score = Max({FieldScore(q, f) : f \in {e \in E : e[1] = i}})
             /\ \E f \in E : f[1] = i
  <2>1. /\ m.tier = ContractTier[i] /\ m.score \in Nat \ {0}
        /\ \E t \in T[i] : FieldScore(q, <<i, t>>) = m.score
        /\ \A t \in T[i] : FieldScore(q, <<i, t>>) <= m.score
        /\ \A t \in T[i] : FieldScore(q, <<i, t>>) \in Nat
    BY <1>3 DEF RowTrue
  <2> DEFINE S == {FieldScore(q, f) : f \in {e \in E : e[1] = i}}
  <2>2. PICK t \in T[i] : FieldScore(q, <<i, t>>) = m.score
    BY <2>1
  <2> DEFINE g == <<i, t>>
  <2>3. g \in E /\ g[1] = i /\ FieldScore(q, g) = m.score
    <3>1. g \in ContractFields(r) /\ g[1] = i
      BY <1>2
    <3>2. FieldScore(q, g) = m.score /\ m.score > 0
      BY <2>1, <2>2
    <3> HIDE DEF g
    <3> QED  BY <1>1, <3>1, <3>2
  <2> HIDE DEF g
  <2>4. m.score \in S
    BY <2>3
  <2>5. \A f \in E : f[1] = i => FieldScore(q, f) \in Nat /\ FieldScore(q, f) <= m.score
    <3> SUFFICES ASSUME NEW f \in E, f[1] = i
                 PROVE  FieldScore(q, f) \in Nat /\ FieldScore(q, f) <= m.score
      OBVIOUS
    <3>1. f[2] \in T[i] /\ f = <<i, f[2]>>
      BY <1>1, <1>2
    <3> DEFINE u == f[2]
    <3>2. u \in T[i] /\ f = <<i, u>>
      BY <3>1
    <3> HIDE DEF u
    <3> QED  BY <2>1, <3>2
  <2>6. S \subseteq Nat /\ \A x \in S : x <= m.score
    BY <2>5
  <2> HIDE DEF S
  <2>7. Max(S) = m.score
    BY <2>4, <2>6, Extremes
  <2> QED
    BY <2>1, <2>3, <2>7 DEF S
<1>6. \A i \in 1 .. 9 : \A m, n \in K[i] : m = n
  BY <1>3 DEF RowTrue
<1>7. \A i \in 1 .. 9 : K[i] # {} => \E f \in E : f[1] = i
  BY <1>5
<1> QED
  BY <1>4, <1>5, <1>6, <1>7 DEF E, K

(* A query names what it matches in the first two rows.                     *)
LEMMA QualifiedNames ==
  ASSUME NEW q \in Queries, Installed \subseteq Records
  PROVE  QualifiedIdentifier(q) <=> \E s \in Installed : Names(q, s)
<1> SUFFICES ASSUME NEW r \in Records
             PROVE  Names(q, r) <=>
                      \/ Exact[IdOf[r]] = Exact[q]
                      \/ \E i \in DOMAIN OperationList[r] : Exact[OperationList[r][i].qualified] = Exact[q]
  BY DEF QualifiedIdentifier
<1> DEFINE T == RowTexts(r)
<1>1. T[1] = {IdOf[r]} /\ T[2] = {o.qualified : o \in Range(OperationList[r])}
  BY DEF RowTexts
<1>2. /\ \A f \in ContractFields(r) : f[1] \in 1 .. 9 /\ f[2] \in T[f[1]] /\ f = <<f[1], f[2]>>
      /\ \A i \in 1 .. 9 : \A t \in T[i] : <<i, t>> \in ContractFields(r)
  BY ContractRows, Zenon
<1>3. \A f : f \in Evidence[q][r] <=> f \in ContractFields(r) /\ FieldScore(q, f) > 0
  BY DEF Evidence
<1> HIDE DEF T
<1>4. \A i \in {1, 2} : \A t : FieldScore(q, <<i, t>>) > 0 <=> Exact[t] = Exact[q]
  <2> SUFFICES ASSUME NEW i \in {1, 2}, NEW t
               PROVE  FieldScore(q, <<i, t>>) > 0 <=> Exact[t] = Exact[q]
    OBVIOUS
  <2>1. FieldScore(q, <<i, t>>) = IF Exact[t] = Exact[q] THEN ExactScore ELSE 0
    BY FieldScores
  <2>2. ExactScore \in Nat \ {0}
    BY FixedScores
  <2> QED  BY <2>1, <2>2
<1>5. ASSUME Names(q, r)
      PROVE  \E i \in {1, 2} : \E t \in T[i] : Exact[t] = Exact[q]
  <2>1. PICK f \in Evidence[q][r] : f[1] <= 2
    BY <1>5 DEF Names
  <2>2. f \in ContractFields(r) /\ FieldScore(q, f) > 0
    BY <1>3
  <2>3. f[1] \in 1 .. 9 /\ f[2] \in T[f[1]] /\ f = <<f[1], f[2]>>
    BY <1>2, <2>2
  <2> DEFINE i == f[1]
             t == f[2]
  <2>4. i \in {1, 2} /\ t \in T[i] /\ FieldScore(q, <<i, t>>) > 0
    BY <2>1, <2>2, <2>3
  <2> HIDE DEF i, t
  <2> QED
    BY <1>4, <2>4
<1>6. ASSUME NEW i \in {1, 2}, NEW t \in T[i], Exact[t] = Exact[q]
      PROVE  Names(q, r)
  <2> DEFINE f == <<i, t>>
  <2>1. f \in ContractFields(r) /\ FieldScore(q, f) > 0 /\ f[1] <= 2
    BY <1>2, <1>4, <1>6
  <2> HIDE DEF f
  <2> QED
    BY <1>3, <2>1 DEF Names
<1>7. (\E t \in T[1] : Exact[t] = Exact[q]) <=> Exact[IdOf[r]] = Exact[q]
  BY <1>1
<1>8. (\E t \in T[2] : Exact[t] = Exact[q]) <=>
        \E i \in DOMAIN OperationList[r] : Exact[OperationList[r][i].qualified] = Exact[q]
  BY <1>1 DEF Range
<1> QED
  BY <1>5, <1>6, <1>7, <1>8

(* matchCapability finds at most one match, it finds one exactly if a field *)
(* qualifies that may count, and the match has the rank of the contract.    *)
LEMMA MatchIsRank ==
  ASSUME NEW q \in Queries, NEW r \in Records, NEW qualified \in BOOLEAN
  PROVE  LET M == MatchCapability(q, r, qualified)
         IN  /\ \A m, n \in M : m = n
             /\ M # {} <=> Evidence[q][r] # {} /\ (qualified => Names(q, r))
             /\ \A m \in M :
                  /\ m.tier \in Nat /\ m.score \in Nat
                  /\ ContractRank(q, r) = [id |-> IdOf[r], tier |-> m.tier, score |-> m.score]
<1> DEFINE E == Evidence[q][r]
           K == Matches[q][r]
           M == MatchCapability(q, r, qualified)
           tried == IF qualified THEN 1 .. 2 ELSE 1 .. 9
           first(i) == i \in tried /\ \A j \in 1 .. i - 1 : K[j] = {}
<1>1. /\ \A f \in E : f[1] \in 1 .. 9 /\ K[f[1]] # {}
      /\ \A i \in 1 .. 9 : K[i] # {} => \E f \in E : f[1] = i
      /\ \A i \in 1 .. 9 : \A m, n \in K[i] : m = n
      /\ \A i \in 1 .. 9 : \A m \in K[i] :
           /\ m.tier = ContractTier[i] /\ m.score \in Nat
           /\ m.score = Max({FieldScore(q, f) : f \in {e \in E : e[1] = i}})
  BY EvidenceRows, Zenon
<1>2. tried \subseteq 1 .. 9 /\ \A i \in 1 .. 9 : i \in tried <=> (qualified => i <= 2)
  OBVIOUS
<1>3. \A m : m \in M <=> \E i \in tried : first(i) /\ m \in K[i]
  BY DEF MatchCapability
<1>4. Names(q, r) <=> \E f \in E : f[1] <= 2
  BY DEF Names
<1>5. \A i \in 1 .. 9 : ContractTier[i] \in Nat
  BY DEF ContractTier
<1>6. ContractRank(q, r) =
        [id |-> IdOf[r], tier |-> ContractTier[Min({f[1] : f \in E})],
         score |-> Max({FieldScore(q, f) : f \in {e \in E : e[1] = Min({g[1] : g \in E})}})]
  BY DEF ContractRank
<1>7. \A i : first(i) <=> i \in tried /\ \A j \in 1 .. i - 1 : K[j] = {}
  OBVIOUS
<1> HIDE DEF E, K, M, tried, first
<1>8. \A i, j \in tried : first(i) /\ first(j) /\ K[i] # {} /\ K[j] # {} => i = j
  <2> SUFFICES ASSUME NEW i \in tried, NEW j \in tried, first(i), first(j), K[i] # {}, K[j] # {}, i < j
               PROVE  FALSE
    BY <1>2
  <2>1. i \in 1 .. j - 1
    BY <1>2
  <2> QED
    BY <1>7, <2>1
<1>9. \A m, n \in M : m = n
  <2> SUFFICES ASSUME NEW m \in M, NEW n \in M  PROVE  m = n
    OBVIOUS
  <2>1. PICK i \in tried : first(i) /\ m \in K[i]
    BY <1>3
  <2>2. PICK j \in tried : first(j) /\ n \in K[j]
    BY <1>3
  <2>3. i = j
    BY <1>8, <2>1, <2>2
  <2> QED
    BY <1>1, <1>2, <2>1, <2>2, <2>3
<1>10. ASSUME NEW m \in M
       PROVE  /\ m.tier \in Nat /\ m.score \in Nat
              /\ ContractRank(q, r) = [id |-> IdOf[r], tier |-> m.tier, score |-> m.score]
              /\ E # {} /\ (qualified => Names(q, r))
  <2>1. PICK i \in tried : first(i) /\ m \in K[i]
    BY <1>3
  <2>2. i \in 1 .. 9 /\ (qualified => i <= 2)
    BY <1>2
  <2>3. PICK f \in E : f[1] = i
    BY <1>1, <2>1, <2>2
  <2>4. \A e \in E : e[1] \in Nat /\ i <= e[1]
    <3> SUFFICES ASSUME NEW e \in E  PROVE  e[1] \in Nat /\ i <= e[1]
      OBVIOUS
    <3>1. e[1] \in 1 .. 9 /\ K[e[1]] # {}
      BY <1>1
    <3>2. e[1] \notin 1 .. i - 1
      BY <1>7, <2>1, <3>1
    <3> QED
      BY <2>2, <3>1, <3>2
  <2> DEFINE rows == {e[1] : e \in E}
  <2>5. rows \subseteq Nat /\ i \in rows /\ \A x \in rows : i <= x
    BY <2>3, <2>4
  <2> HIDE DEF rows
  <2>6. Min(rows) = i
    BY <2>5, Extremes
  <2>7. Min({e[1] : e \in E}) = i
    BY <2>6 DEF rows
  <2>8. ContractRank(q, r) = [id |-> IdOf[r], tier |-> ContractTier[i],
                              score |-> Max({FieldScore(q, e) : e \in {d \in E : d[1] = i}})]
    BY <1>6, <2>7
  <2> QED
    BY <1>1, <1>4, <1>5, <2>1, <2>2, <2>3, <2>8
<1>11. ASSUME E # {}, qualified => Names(q, r)  PROVE  M # {}
  <2> DEFINE T == {i \in 1 .. 9 : K[i] # {}}
  <2>1. PICK e \in E : qualified => e[1] <= 2
    BY <1>4, <1>11
  <2>2. T \subseteq Nat /\ T # {} /\ e[1] \in T
    BY <1>1
  <2>3. PICK i \in T : \A j \in T : i <= j
    <3> HIDE DEF T
    <3> QED  BY <2>2, LeastNumber, Zenon
  <2>4. i \in 1 .. 9 /\ K[i] # {} /\ i <= e[1] /\ e[1] \in 1 .. 9
    BY <2>2, <2>3
  <2>5. i \in tried
    BY <1>2, <2>1, <2>4
  <2>6. \A j \in 1 .. i - 1 : K[j] = {}
    <3> SUFFICES ASSUME NEW j \in 1 .. i - 1, K[j] # {}  PROVE  FALSE
      OBVIOUS
    <3>1. j \in T /\ j < i
      BY <2>4
    <3> QED
      BY <2>3, <2>4, <3>1
  <2> QED
    BY <1>3, <1>7, <2>4, <2>5, <2>6
<1> QED
  BY <1>9, <1>10, <1>11 DEF M, E

(* A result of the search, and what the contract says of it.                *)
Result(r, m) ==
  [id |-> IdOf[r], tier |-> m.tier, score |-> m.score, kind |-> m.kind, field |-> m.field]
RankOf(x) == [id |-> x.id, tier |-> x.tier, score |-> x.score]
Results(q, scope, qualified) ==
  UNION {{Result(r, m) : m \in MatchCapability(q, r, qualified)} : r \in scope}
ContractRanks(q, n) == {ContractRank(q, r) : r \in ContractScope(q, n)}

(* The results are the records of the contract's scope, each once and with  *)
(* its rank.                                                                *)
LEMMA ResultsAreRanks ==
  ASSUME TypeOK, NEW q \in Queries, NEW n
  PROVE  LET S == Results(q, {r \in Installed : CapabilityInPath(IdOf[r], n)}, QualifiedIdentifier(q))
         IN  /\ \A x \in S : /\ x.tier \in Nat /\ x.score \in Nat
                             /\ x.id \in Capabilities /\ x.id \in DOMAIN Parent
                             /\ RankOf(x) \in ContractRanks(q, n)
             /\ \A x, y \in S : x.id = y.id => x = y
             /\ \A e \in ContractRanks(q, n) : \E x \in S : RankOf(x) = e
<1> DEFINE scope == {r \in Installed : CapabilityInPath(IdOf[r], n)}
           qualified == QualifiedIdentifier(q)
           S == Results(q, scope, qualified)
           M(r) == MatchCapability(q, r, qualified)
<1>1. \A x : x \in S <=> \E r \in scope : \E m \in M(r) : x = Result(r, m)
  BY DEF Results
<1>2. \A r \in Installed : /\ r \in Records /\ IdOf[r] \in Capabilities /\ entries[IdOf[r]] = r
                           /\ IdOf[r] \in DOMAIN Parent
  <2>1. \A r \in Records : IdOf[r] \in Places[r] /\ Places[r] \subseteq DOMAIN Parent
    BY RegistryAssumption, SearchAssumption
  <2> QED
    BY <2>1, InstalledEntry
<1>3. Installed \subseteq Records
  BY <1>2
<1>4. qualified \in BOOLEAN /\ (qualified <=> \E s \in Installed : Names(q, s))
  <2>1. QualifiedIdentifier(q) <=> \E s \in Installed : Names(q, s)
    BY <1>3, QualifiedNames
  <2>2. QualifiedIdentifier(q) \in BOOLEAN
    BY DEF QualifiedIdentifier
  <2> QED  BY <2>1, <2>2
<1>5. \A r : r \in ContractScope(q, n) <=>
               r \in scope /\ Evidence[q][r] # {} /\ (qualified => Names(q, r))
  <2>1. \A r : r \in ContractScope(q, n) <=>
                 /\ r \in scope /\ Evidence[q][r] # {}
                 /\ (\E s \in Installed : Names(q, s)) => Names(q, r)
    BY DEF ContractScope, CapabilityInPath
  <2> QED  BY <1>4, <2>1
<1> HIDE DEF qualified
<1>6. \A r \in scope :
        /\ \A m, o \in M(r) : m = o
        /\ M(r) # {} <=> r \in ContractScope(q, n)
        /\ \A m \in M(r) :
             /\ m.tier \in Nat /\ m.score \in Nat
             /\ ContractRank(q, r) = [id |-> IdOf[r], tier |-> m.tier, score |-> m.score]
  <2> SUFFICES ASSUME NEW r \in scope
               PROVE  /\ \A m, o \in M(r) : m = o
                      /\ M(r) # {} <=> r \in ContractScope(q, n)
                      /\ \A m \in M(r) :
                           /\ m.tier \in Nat /\ m.score \in Nat
                           /\ ContractRank(q, r) = [id |-> IdOf[r], tier |-> m.tier, score |-> m.score]
    OBVIOUS
  <2>1. r \in Records
    BY <1>3
  <2>2. /\ \A m, o \in M(r) : m = o
        /\ M(r) # {} <=> Evidence[q][r] # {} /\ (qualified => Names(q, r))
        /\ \A m \in M(r) :
             /\ m.tier \in Nat /\ m.score \in Nat
             /\ ContractRank(q, r) = [id |-> IdOf[r], tier |-> m.tier, score |-> m.score]
    BY <1>4, <2>1, MatchIsRank
  <2> QED
    BY <1>5, <2>2
<1>7. \A r, m : /\ Result(r, m).id = IdOf[r] /\ Result(r, m).tier = m.tier
                /\ Result(r, m).score = m.score
  BY DEF Result
<1>8. \A x : RankOf(x) = [id |-> x.id, tier |-> x.tier, score |-> x.score]
  BY DEF RankOf
<1>9. scope \subseteq Installed
  OBVIOUS
<1> HIDE DEF S, M, scope
<1>10. ASSUME NEW x \in S
       PROVE  /\ x.tier \in Nat /\ x.score \in Nat
              /\ x.id \in Capabilities /\ x.id \in DOMAIN Parent
              /\ RankOf(x) \in ContractRanks(q, n)
  <2>1. PICK r \in scope : \E m \in M(r) : x = Result(r, m)
    BY <1>1
  <2>2. PICK m \in M(r) : x = Result(r, m)
    BY <2>1
  <2>3. x.id = IdOf[r] /\ x.tier = m.tier /\ x.score = m.score
    BY <1>7, <2>2
  <2>4. /\ m.tier \in Nat /\ m.score \in Nat /\ r \in ContractScope(q, n)
        /\ ContractRank(q, r) = [id |-> IdOf[r], tier |-> m.tier, score |-> m.score]
    BY <1>6
  <2>5. RankOf(x) = ContractRank(q, r)
    BY <1>8, <2>3, <2>4
  <2> QED
    BY <1>2, <1>9, <2>3, <2>4, <2>5 DEF ContractRanks
<1>11. ASSUME NEW x \in S, NEW y \in S, x.id = y.id  PROVE  x = y
  <2>1. PICK r \in scope : \E m \in M(r) : x = Result(r, m)
    BY <1>1
  <2>2. PICK m \in M(r) : x = Result(r, m)
    BY <2>1
  <2>3. PICK s \in scope : \E o \in M(s) : y = Result(s, o)
    BY <1>1
  <2>4. PICK o \in M(s) : y = Result(s, o)
    BY <2>3
  <2>5. IdOf[r] = IdOf[s]
    BY <1>7, <1>11, <2>2, <2>4
  <2>6. r = s
    BY <1>2, <1>9, <2>5
  <2> QED
    BY <1>6, <2>2, <2>4, <2>6
<1>12. ASSUME NEW e \in ContractRanks(q, n)  PROVE  \E x \in S : RankOf(x) = e
  <2>1. PICK r \in ContractScope(q, n) : e = ContractRank(q, r)
    BY DEF ContractRanks
  <2>2. r \in scope
    BY <1>5
  <2>3. PICK m \in M(r) : TRUE
    BY <1>6, <2>2
  <2> DEFINE x == Result(r, m)
  <2>4. x \in S /\ x.id = IdOf[r] /\ x.tier = m.tier /\ x.score = m.score
    BY <1>1, <1>7, <2>2
  <2>5. ContractRank(q, r) = [id |-> IdOf[r], tier |-> m.tier, score |-> m.score]
    BY <1>6, <2>2
  <2> HIDE DEF x
  <2> QED
    BY <1>8, <2>1, <2>4, <2>5
<1> QED
  BY <1>10, <1>11, <1>12 DEF S, scope, qualified

(* An ID has one place in the order of IDs.                                 *)
LEMMA Positions ==
  /\ \A c \in DOMAIN Parent : Position(c) \in Nat
  /\ \A c, d \in DOMAIN Parent : Position(c) = Position(d) => c = d
<1>1. /\ PathOrder \in Seq(DOMAIN Parent)
      /\ DOMAIN Parent = {PathOrder[i] : i \in DOMAIN PathOrder}
  BY SearchAssumption
<1>2. DOMAIN PathOrder \subseteq Nat
  BY <1>1
<1>3. \A c \in DOMAIN Parent : Position(c) \in DOMAIN PathOrder /\ PathOrder[Position(c)] = c
  <2> SUFFICES ASSUME NEW c \in DOMAIN Parent
               PROVE  Position(c) \in DOMAIN PathOrder /\ PathOrder[Position(c)] = c
    OBVIOUS
  <2>1. \E i \in DOMAIN PathOrder : PathOrder[i] = c
    BY <1>1
  <2> QED
    BY <2>1 DEF Position
<1> QED
  BY <1>2, <1>3

(* The order of results is strict: no two have the same place.              *)
LEMMA RankedStrict ==
  ASSUME NEW S,
         \A x \in S : x.tier \in Nat /\ x.score \in Nat /\ x.id \in DOMAIN Parent,
         \A x, y \in S : x.id = y.id => x = y
  PROVE  StrictOrder(S, {p \in S \X S : RankedBefore(p[1], p[2])})
<1> DEFINE R == {p \in S \X S : RankedBefore(p[1], p[2])}
<1>1. \A x, y \in S : <<x, y>> \in R <=> RankedBefore(x, y)
  OBVIOUS
<1>2. \A x \in S : Position(x.id) \in Nat
  BY Positions
<1>3. \A x, y \in S : Position(x.id) = Position(y.id) => x = y
  BY Positions
<1>4. \A x, y \in S : RankedBefore(x, y) <=>
        \/ x.tier < y.tier
        \/ x.tier = y.tier /\ x.score > y.score
        \/ x.tier = y.tier /\ x.score = y.score /\ Position(x.id) < Position(y.id)
  BY DEF RankedBefore
<1> HIDE DEF R
<1>5. \A x \in S : <<x, x>> \notin R
  BY <1>1, <1>2, <1>4
<1>6. ASSUME NEW x \in S, NEW y \in S, NEW z \in S, <<x, y>> \in R, <<y, z>> \in R
      PROVE  <<x, z>> \in R
  <2>1. RankedBefore(x, y) /\ RankedBefore(y, z)
    BY <1>1, <1>6
  <2>2. RankedBefore(x, z)
    BY <1>2, <1>4, <2>1
  <2> QED
    BY <1>1, <2>2
<1>7. \A x, y \in S : x = y \/ <<x, y>> \in R \/ <<y, x>> \in R
  <2> SUFFICES ASSUME NEW x \in S, NEW y \in S, x # y  PROVE  <<x, y>> \in R \/ <<y, x>> \in R
    OBVIOUS
  <2>1. Position(x.id) # Position(y.id) /\ Position(x.id) \in Nat /\ Position(y.id) \in Nat
    BY <1>2, <1>3
  <2>2. RankedBefore(x, y) \/ RankedBefore(y, x)
    BY <1>4, <2>1
  <2> QED
    BY <1>1, <2>2
<1>8. StrictOrder(S, R)
  BY <1>5, <1>6, <1>7, Zenon DEF StrictOrder
<1> QED
  BY <1>8 DEF R

(* What the contract says of the results of one search.                     *)
Honoured(q, n, limit, results) ==
  LET ranks == {ContractRank(q, r) : r \in ContractScope(q, n)}
      found == [i \in DOMAIN results |->
                  [id |-> results[i].id, tier |-> results[i].tier, score |-> results[i].score]]
  IN  /\ Len(found) = Min({limit, Cardinality(ranks)})
      /\ Range(found) \subseteq ranks
      /\ \A i \in DOMAIN found : \A e \in ranks \ {found[j] : j \in 1 .. i} :
           RankedBefore(found[i], e)

LEMMA ResultsHonoured ==
  ASSUME TypeOK, NEW q \in Queries, Tokens[q] # {}, NEW n, NEW limit \in Nat
  PROVE  Honoured(q, n, limit, SearchResults(q, n, limit))
<1> DEFINE scope == {r \in Installed : CapabilityInPath(IdOf[r], n)}
           S == Results(q, scope, QualifiedIdentifier(q))
           R == {p \in S \X S : RankedBefore(p[1], p[2])}
           sorted == SortedBy(S, R)
           c == Cardinality(S)
           ranks == ContractRanks(q, n)
           results == SearchResults(q, n, limit)
           found == [i \in DOMAIN results |-> RankOf(results[i])]
           k == IF limit < c THEN limit ELSE c
<1>1. /\ \A x \in S : /\ x.tier \in Nat /\ x.score \in Nat
                      /\ x.id \in Capabilities /\ x.id \in DOMAIN Parent
                      /\ RankOf(x) \in ranks
      /\ \A x, y \in S : x.id = y.id => x = y
      /\ \A e \in ranks : \E x \in S : RankOf(x) = e
  BY ResultsAreRanks
<1>2. results = FirstResults(sorted, limit)
  BY DEF SearchResults, Ranked, Results, Result
<1>3. \A x, y \in S : <<x, y>> \in R <=> RankedBefore(x, y)
  OBVIOUS
<1>4. StrictOrder(S, R)
  <2> HIDE DEF S
  <2> QED  BY <1>1, RankedStrict
<1> HIDE DEF S, R, ranks
<1>5. IsFiniteSet(S)
  <2> DEFINE f == [x \in S |-> x.id]
  <2>1. f \in Injection(S, Capabilities)
    BY <1>1 DEF Injection, IsInjective
  <2>2. IsFiniteSet(Capabilities)
    BY RegistryAssumption
  <2> HIDE DEF f
  <2> QED  BY <2>1, <2>2, FS_Injection
<1>6. /\ c \in Nat /\ sorted \in Seq(S) /\ Len(sorted) = c
      /\ \A i, j \in 1 .. c : i < j => <<sorted[i], sorted[j]>> \in R
      /\ \A x \in S : \E i \in 1 .. c : sorted[i] = x
  <2>1. /\ Cardinality(S) \in Nat
        /\ SortedBy(S, R) \in Seq(S)
        /\ Len(SortedBy(S, R)) = Cardinality(S)
        /\ \A i, j \in 1 .. Cardinality(S) :
             i < j => <<SortedBy(S, R)[i], SortedBy(S, R)[j]>> \in R
        /\ \A x \in S : \E i \in 1 .. Cardinality(S) : SortedBy(S, R)[i] = x
    BY <1>4, <1>5, SortedBySet
  <2> QED  BY <2>1, Zenon
<1>7. Cardinality(ranks) = c
  <2> DEFINE f == [x \in S |-> RankOf(x)]
  <2>1. f \in [S -> ranks]
    BY <1>1
  <2>2. \A x, y \in S : RankOf(x) = RankOf(y) => x = y
    <3>1. \A x : RankOf(x).id = x.id
      BY DEF RankOf
    <3> QED  BY <1>1, <3>1
  <2>3. f \in Bijection(S, ranks)
    <3>1. \A x \in S : f[x] = RankOf(x)
      OBVIOUS
    <3> HIDE DEF f
    <3>2. f \in Injection(S, ranks)
      BY <2>1, <2>2, <3>1 DEF Injection, IsInjective
    <3>3. f \in Surjection(S, ranks)
      BY <1>1, <2>1, <3>1 DEF Surjection
    <3> QED  BY <3>2, <3>3 DEF Bijection
  <2>4. ExistsBijection(S, ranks)
    BY <2>3 DEF ExistsBijection
  <2> QED
    BY <1>5, <2>4, FS_Bijection
<1> HIDE DEF sorted, c, results
<1>8. k \in Nat /\ k <= c /\ k <= limit /\ (k = limit \/ k = c)
  BY <1>6
<1>9. k = Min({limit, c})
  BY <1>6, MinOfTwo
<1>10. /\ results \in Seq(S) /\ Len(results) = k
       /\ \A i \in 1 .. k : results[i] = sorted[i]
  <2>1. results = SubSeq(sorted, 1, k)
    BY <1>2, <1>6 DEF FirstResults
  <2>2. k + 1 - 1 = k /\ k - 1 + 1 = k
    BY <1>8
  <2> HIDE DEF k
  <2>3. /\ SubSeq(sorted, 1, k) \in Seq(S)
        /\ Len(SubSeq(sorted, 1, k)) = k
        /\ \A i \in 1 .. k : SubSeq(sorted, 1, k)[i] = sorted[i]
    BY <1>6, <1>8
  <2> QED  BY <2>1, <2>3
<1> HIDE DEF k
<1>11. /\ DOMAIN results = 1 .. k /\ DOMAIN found = 1 .. k
       /\ \A i \in 1 .. k : sorted[i] \in S /\ found[i] = RankOf(sorted[i])
  BY <1>6, <1>8, <1>10
<1>12. Len(found) = k
  <2>1. found = [i \in 1 .. k |-> RankOf(results[i])]
    BY <1>11
  <2>2. \A i \in 1 .. k : RankOf(results[i]) \in ranks
    BY <1>1, <1>10, <1>11
  <2> HIDE DEF found
  <2>3. Len([i \in 1 .. k |-> RankOf(results[i])]) = k
    BY <1>8
  <2> QED  BY <2>1, <2>3
<1>13. Range(found) \subseteq ranks
  <2> HIDE DEF found
  <2> QED  BY <1>1, <1>11 DEF Range
<1>14. ASSUME NEW i \in 1 .. k, NEW e \in ranks \ {found[j] : j \in 1 .. i}
       PROVE  RankedBefore(found[i], e)
  <2>1. PICK x \in S : RankOf(x) = e
    BY <1>1
  <2>2. PICK j \in 1 .. c : sorted[j] = x
    BY <1>6
  <2>3. i \in 1 .. c /\ i < j
    <3>1. i \in 1 .. c
      BY <1>6, <1>8
    <3>2. CASE j <= i
      <4>1. j \in 1 .. k /\ j \in 1 .. i
        BY <1>6, <1>8, <3>2
      <4>2. found[j] = e
        BY <1>11, <2>1, <2>2, <4>1
      <4> HIDE DEF found
      <4> QED  BY <4>1, <4>2
    <3> QED
      BY <1>6, <3>1, <3>2
  <2>4. RankedBefore(sorted[i], x)
    BY <1>3, <1>6, <1>11, <2>2, <2>3
  <2>5. found[i] = RankOf(sorted[i])
    BY <1>11
  <2>6. \A y : RankOf(y).id = y.id /\ RankOf(y).tier = y.tier /\ RankOf(y).score = y.score
    BY DEF RankOf
  <2> HIDE DEF found
  <2> QED
    BY <2>1, <2>4, <2>5, <2>6 DEF RankedBefore
<1>15. /\ Len(found) = Min({limit, Cardinality(ranks)})
       /\ Range(found) \subseteq ranks
       /\ \A i \in DOMAIN found : \A e \in ranks \ {found[j] : j \in 1 .. i} :
            RankedBefore(found[i], e)
  <2> HIDE DEF found
  <2> QED  BY <1>7, <1>9, <1>11, <1>12, <1>13, <1>14
<1> QED
  BY <1>15 DEF Honoured, results, ranks, ContractRanks, RankOf

(* Only a search that is served gives a reader a page.                      *)
LEMMA PageIsSearch ==
  ASSUME CatalogInv, [CatalogNext]_catalogVars, NEW p \in Readers,
         answer'[p] # answer[p], answer'[p].kind = "page"
  PROVE  \E x \in Requests :
           /\ answer'[p].of = x
           /\ answer'[p].results = SearchResults(x.query, Normal(x.path), x.limit)
<1>1. answer = [b \in Readers |-> answer[b]]
  BY DEF CatalogInv, ReaderTypes
<1>2. CASE RegistryStep
  BY <1>2 DEF RegistryStep, pagerVars
<1>3. CASE UNCHANGED catalogVars
  BY <1>3 DEF catalogVars, pagerVars
<1>4. ASSUME NEW b \in Readers, BrowserStep(b)  PROVE  answer' = answer
  BY <1>4 DEF BrowserStep, Browse, BrowseCategory, BrowseLookup, BrowseRead, BrowseChildrenDone,
              BrowseOwn, pagerVars
<1>5. ASSUME NEW b \in Readers, DropCursor(b)  PROVE  FALSE
  <2>1. answer' = [answer EXCEPT ![b] = [kind |-> "none"]]
    BY <1>5 DEF DropCursor
  <2>2. answer'[p] = answer[p] \/ answer'[p] = [kind |-> "none"]
    BY <1>1, <2>1
  <2> QED
    BY <2>2
<1>6. ASSUME NEW b \in Readers, NEW why, why # "page", Refuse(b, why)  PROVE  FALSE
  <2>1. answer' = [answer EXCEPT ![b] = [kind |-> why]]
    BY <1>6 DEF Refuse
  <2>2. answer'[p] = answer[p] \/ answer'[p] = [kind |-> why]
    BY <1>1, <2>1
  <2> QED
    BY <1>6, <2>2
<1>7. ASSUME NEW b \in Readers, NEW x \in Requests, CatalogSearch(b, x)
      PROVE  /\ answer'[p].of = x
             /\ answer'[p].results = SearchResults(x.query, Normal(x.path), x.limit)
  <2> DEFINE n == Normal(x.path)
             results == SearchResults(x.query, n, x.limit)
             total == Len(BrowseLocked(n))
             page == [kind |-> "page", of |-> x, results |-> results, total |-> total]
  <2>1. Refusal(b, n) = "none"
    <3>1. CASE Refusal(b, n) # "none"
      <4>1. Refuse(b, Refusal(b, n))
        BY <1>7, <3>1 DEF CatalogSearch
      <4>2. Refusal(b, n) # "page"
        BY RefusalKinds
      <4> QED
        BY <1>6, <4>1, <4>2
    <3> QED  BY <3>1
  <2>2. \E offset, end : SearchPage(b, x, n, BrowseLocked(n), results, offset, end)
    BY <1>7, <2>1 DEF CatalogSearch
  <2>3. PICK offset, end : SearchPage(b, x, n, BrowseLocked(n), results, offset, end)
    BY <2>2
  <2>4. Refuse(b, "quota") \/ answer' = [answer EXCEPT ![b] = page]
    BY <2>3 DEF SearchPage
  <2>5. answer' = [answer EXCEPT ![b] = page]
    BY <1>6, <2>4
  <2>6. page.of = x /\ page.results = results
    OBVIOUS
  <2> HIDE DEF page, results
  <2>7. answer'[p] = page
    BY <1>1, <2>5
  <2> QED
    BY <2>6, <2>7 DEF results
<1> QED
  BY <1>2, <1>3, <1>4, <1>5, <1>7 DEF CatalogNext, PagerStep

(* Search keeps its contract, for any catalog, texts, tokens and requests:  *)
(* matchCapability tries one kind of match after the other and the results  *)
(* are sorted and cut, and what is left are the best records of the table.  *)
THEOREM SearchHonoursContractHolds == CatalogSpec => SearchHonoursContract
<1>1. CatalogInv /\ [CatalogNext]_catalogVars =>
        [\A p \in Readers :
           answer'[p] # answer[p] /\ answer'[p].kind = "page" /\ Tokens[answer'[p].of.query] # {} =>
             Honoured(answer'[p].of.query, Normal(answer'[p].of.path), answer'[p].of.limit,
                      answer'[p].results)]_catalogVars
  <2> SUFFICES ASSUME CatalogInv, [CatalogNext]_catalogVars, NEW p \in Readers,
                      answer'[p] # answer[p], answer'[p].kind = "page",
                      Tokens[answer'[p].of.query] # {}
               PROVE  Honoured(answer'[p].of.query, Normal(answer'[p].of.path), answer'[p].of.limit,
                               answer'[p].results)
    OBVIOUS
  <2>1. PICK x \in Requests :
          /\ answer'[p].of = x
          /\ answer'[p].results = SearchResults(x.query, Normal(x.path), x.limit)
    BY PageIsSearch
  <2>2. x.query \in Queries /\ x.limit \in Nat /\ TypeOK
    BY CatalogAssumption DEF CatalogInv, Inductive
  <2>3. Honoured(x.query, Normal(x.path), x.limit,
                 SearchResults(x.query, Normal(x.path), x.limit))
    <3> DEFINE q == x.query
               n == Normal(x.path)
               limit == x.limit
    <3> HIDE DEF q, n, limit
    <3>1. q \in Queries /\ limit \in Nat /\ Tokens[q] # {}
      BY <2>1, <2>2 DEF q, limit
    <3>2. Honoured(q, n, limit, SearchResults(q, n, limit))
      BY <2>2, <3>1, ResultsHonoured
    <3> QED  BY <3>2 DEF q, n, limit
  <2> QED
    BY <2>1, <2>3
<1> QED
  BY <1>1, CatalogInvariant, PTL DEF CatalogSpec, SearchHonoursContract, Honoured
===============================================================================
