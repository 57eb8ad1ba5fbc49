------------------------------- MODULE ReadLeases -------------------------------
(***************************************************************************)
(* ReadLeaseStore, internal/capability/read.go: chunked reads of package    *)
(* artifacts.  An initial read looks its attempt up, leaves the store's     *)
(* lock to pin the artifact through the registry, and comes back to commit  *)
(* a lease; a continuation replays the lease's last chunk or advances it by *)
(* one.  Leases expire with the clock.                                      *)
(*                                                                         *)
(* An attempt key is a hash over every field of an initial request, so the  *)
(* request itself is the key.  A lease carries the name of the reader that  *)
(* committed it for its random ID.  Artifact bytes are never looked at: a   *)
(* chunk is its offset and its end.                                         *)
(***************************************************************************)
EXTENDS Naturals, FiniteSets, FiniteSetsExt, Counting

CONSTANTS Readers,         (* goroutines making one initial read each      *)
          Artifacts,
          Bytes,           (* artifact -> its stored size                  *)
          Readable,        (* the artifacts of a readable kind             *)
          Requests,        (* initial requests: scope, attempt, artifact,  *)
                           (*   offset and max                             *)
          Scopes,          (* caller scopes                                *)
          ChunkSizes,      (* max_bytes a continuation may ask for         *)
          MaxCount, MaxPinnedBytes,
          MaxReplays,      (* MaxReplayBytes / ReadReplayReservation       *)
          Idle, Absolute, FinalReplay,
          Horizon,         (* bound on the clock                           *)
          None

(* A response, and a lease with the last one in its replay slot.            *)
Replay == [input : {"artifact", "handle"}, offset : Nat, max : Nat, next : Nat,
           expires : Nat]
Lease == [key : Requests, created : Nat, expiresAt : Nat, final : BOOLEAN,
          replay : Replay]

(* validateReadLeaseLimits, and what validateReadBounds lets through.       *)
ASSUME ReadAssumption ==
         /\ Idle \in Nat /\ Absolute \in Nat /\ FinalReplay \in Nat
         /\ Idle > 0 /\ Absolute >= Idle /\ FinalReplay > 0
         /\ MaxCount \in Nat /\ MaxPinnedBytes \in Nat /\ MaxReplays \in Nat
         /\ MaxCount > 0 /\ MaxPinnedBytes > 0 /\ MaxReplays > 0
         /\ ChunkSizes \subseteq Nat \ {0}
         /\ \A q \in Requests : /\ q.artifact \in Artifacts
                                /\ q.offset \in Nat
                                /\ q.max \in Nat \ {0}
         /\ Bytes \in [Artifacts -> Nat]
         /\ Horizon \in Nat
         /\ IsFiniteSet(Readers)
         /\ None \notin Readers /\ None \notin Lease

VARIABLES
  now,        (* the store's clock                                         *)
  closed,
  reads,      (* lease ID -> the lease                                     *)
  attempts,   (* attempt key -> lease ID                                   *)
  pinnedBytes,
  replayBytes,(* in units of ReadReplayReservation                         *)
  installed,  (* the artifacts whose capability the registry would find    *)
  refs,       (* artifact -> storedObject.refs                             *)
  pc,         (* reader -> idle, missed, pinned or done                    *)
  request,    (* reader -> its initial request                             *)
  result,     (* reader -> how its initial read ended                      *)
  served      (* every response that left the store, with its lease        *)

tableVars == <<reads, attempts, pinnedBytes, replayBytes>>
readerVars == <<pc, request, result>>
vars == <<now, closed, tableVars, installed, refs, readerVars, served>>

Leases == {l \in Readers : reads[l] # None}

(* Faulty variant: the sweep goes by the lease's age, not by its deadline.   *)
ExpiredByAge == {l \in Leases : now >= reads[l].created + Idle}

(* What sweepLocked drops.                                                  *)
Expired == {l \in Leases : now >= reads[l].expiresAt}
Pinning(a) == {r \in Readers : pc[r] = "pinned" /\ request[r].artifact = a}
Committed(q) == {l \in Leases \ Expired : reads[l].key = q}

-----------------------------------------------------------------------------
(* dropLocked for every lease of D: what is left of each table.             *)
ReadsWithout(D) == [l \in Readers |-> IF l \in D THEN None ELSE reads[l]]
AttemptsWithout(D) ==
  [q \in Requests |-> IF \E l \in D : reads[l].key = q THEN None ELSE attempts[q]]
PinnedBy == [l \in Leases |-> Bytes[reads[l].key.artifact]]
PinnedWithout(D) == pinnedBytes - Total(PinnedBy, D)
ReplayWithout(D) == replayBytes - Cardinality(D)
RefsWithout(D) ==
  [a \in Artifacts |-> refs[a] - Cardinality({l \in D : reads[l].key.artifact = a})]

(* Faulty variant: a refusal keeps its pin.                                 *)
RefsKeepingPin(D, r) == RefsWithout(D)
(* The same with one reference of reader r's artifact given back as well.   *)
RefsWithoutPin(D, r) ==
  [RefsWithout(D) EXCEPT ![request[r].artifact] = @ - 1]

DropOnly(D) ==
  /\ reads' = ReadsWithout(D)
  /\ attempts' = AttemptsWithout(D)
  /\ pinnedBytes' = PinnedWithout(D)
  /\ replayBytes' = ReplayWithout(D)

(* prepareLocked at time t: the lease with its next chunk in the replay     *)
(* slot.  A final chunk is kept for FinalReplay, any other renews the idle  *)
(* deadline; neither goes beyond the absolute one.                          *)
Prepare(lease, input, offset, max, t) ==
  LET next == Min({offset + max, Bytes[lease.key.artifact]})
      complete == next = Bytes[lease.key.artifact]
      expires == Min({t + IF complete THEN FinalReplay ELSE Idle,
                      lease.created + Absolute})
  IN  [key |-> lease.key, created |-> lease.created,
       expiresAt |-> expires, final |-> complete,
       replay |-> [input |-> input, offset |-> offset, max |-> max,
                   next |-> next, expires |-> expires]]

NewLease(q) ==
  [key |-> q, created |-> now, expiresAt |-> now, final |-> FALSE, replay |-> None]

(* The clock may move between sweepLocked and prepareLocked.                *)
PrepareTimes == now .. Min({now + 1, Horizon})

Serve(l, lease) == served' = served \cup {[id |-> l, response |-> lease.replay]}

Answer(r, outcome) ==
  /\ pc' = [pc EXCEPT ![r] = "done"]
  /\ result' = [result EXCEPT ![r] = outcome]
  /\ UNCHANGED request

(* A lease answers the initial request q again only while its first chunk   *)
(* is the one in the replay slot.                                           *)
Replays(lease, q) ==
  /\ lease.replay.input = "artifact"
  /\ lease.replay.offset = q.offset
  /\ lease.replay.max = q.max

(* The attempt is known: replay the response or report a conflict.          *)
AnswerKnown(r, l) ==
  IF Replays(reads[l], request[r])
  THEN Answer(r, "ok") /\ Serve(l, reads[l])
  ELSE Answer(r, "conflict") /\ UNCHANGED served

-----------------------------------------------------------------------------
Init ==
  /\ now = 0
  /\ closed = FALSE
  /\ reads = [l \in Readers |-> None]
  /\ attempts = [q \in Requests |-> None]
  /\ pinnedBytes = 0
  /\ replayBytes = 0
  /\ installed = Artifacts
  /\ refs = [a \in Artifacts |-> 1]
  /\ pc = [r \in Readers |-> "idle"]
  /\ request \in [Readers -> Requests]
  /\ result = [r \in Readers |-> "none"]
  /\ served = {}

(* readInitial up to the first Unlock.                                      *)
LookupAttempt(r) ==
  /\ pc[r] = "idle"
  /\ \/ /\ closed
        /\ Answer(r, "closed")
        /\ UNCHANGED <<tableVars, refs, served>>
     \/ /\ ~closed
        /\ DropOnly(Expired)
        /\ refs' = RefsWithout(Expired)
        /\ LET l == AttemptsWithout(Expired)[request[r]]
           IN  IF l # None
               THEN AnswerKnown(r, l)
               ELSE /\ pc' = [pc EXCEPT ![r] = "missed"]
                    /\ UNCHANGED <<request, result, served>>
  /\ UNCHANGED <<now, closed, installed>>

(* Registry.Lookup and Record.acquireArtifact, with no lock of the store.   *)
(* The capability lease in between keeps the package, so what Lookup found  *)
(* is still there to pin.  An artifact of another kind and an offset beyond *)
(* the end give the pin back at once.                                       *)
PinArtifact(r) ==
  /\ pc[r] = "missed"
  /\ LET a == request[r].artifact
     IN  \/ /\ a \notin installed \/ a \notin Readable
            /\ Answer(r, "stale")
            /\ UNCHANGED refs
         \/ /\ a \in installed \cap Readable
            /\ request[r].offset > Bytes[a]
            /\ Answer(r, "invalid")
            /\ UNCHANGED refs
         \/ /\ a \in installed \cap Readable
            /\ request[r].offset <= Bytes[a]
            /\ pc' = [pc EXCEPT ![r] = "pinned"]
            /\ refs' = [refs EXCEPT ![a] = @ + 1]
            /\ UNCHANGED <<request, result>>
  /\ UNCHANGED <<now, closed, tableVars, installed, served>>

(* Faulty variant: the limits are compared without the lease to be added.   *)
OverQuotaBefore(q) ==
  \/ Cardinality(Leases \ Expired) > MaxCount
  \/ PinnedWithout(Expired) > MaxPinnedBytes
  \/ ReplayWithout(Expired) > MaxReplays

(* The refusals of readInitial's second locked section, each giving the pin *)
(* back: Close came first, the attempt was committed meanwhile, a limit is  *)
(* reached, or no ID could be generated.                                    *)
OverQuota(q) ==
  \/ Cardinality(Leases \ Expired) >= MaxCount
  \/ PinnedWithout(Expired) + Bytes[q.artifact] > MaxPinnedBytes
  \/ ReplayWithout(Expired) + 1 > MaxReplays

CommitRefused(r) ==
  /\ pc[r] = "pinned"
  /\ \/ /\ closed
        /\ Answer(r, "closed")
        /\ refs' = [refs EXCEPT ![request[r].artifact] = @ - 1]
        /\ UNCHANGED <<tableVars, served>>
     \/ /\ ~closed
        /\ DropOnly(Expired)
        /\ refs' = RefsWithoutPin(Expired, r)
        /\ LET l == AttemptsWithout(Expired)[request[r]]
           IN  IF l # None
               THEN AnswerKnown(r, l)
               ELSE /\ UNCHANGED served
                    /\ \/ OverQuota(request[r]) /\ Answer(r, "quota")
                       \/ ~OverQuota(request[r]) /\ Answer(r, "error")
  /\ UNCHANGED <<now, closed, installed>>

(* readInitial commits: the lease enters both tables with its first chunk.  *)
CommitLease(r) ==
  /\ pc[r] = "pinned"
  /\ ~closed
  /\ AttemptsWithout(Expired)[request[r]] = None
  /\ ~OverQuota(request[r])
  /\ \E t \in PrepareTimes :
       LET q == request[r]
           lease == Prepare(NewLease(q), "artifact", q.offset, q.max, t)
       IN  /\ now' = t
           /\ reads' = [ReadsWithout(Expired) EXCEPT ![r] = lease]
           /\ attempts' = [AttemptsWithout(Expired) EXCEPT ![q] = r]
           /\ pinnedBytes' = PinnedWithout(Expired) + Bytes[q.artifact]
           /\ replayBytes' = ReplayWithout(Expired) + 1
           /\ refs' = RefsWithout(Expired)
           /\ Serve(r, lease)
  /\ Answer(r, "ok")
  /\ UNCHANGED <<closed, installed>>

(* readContinuation, after the sweep: a handle answers in its own scope ... *)
Owned(scope, l) == l \in Leases \ Expired /\ reads[l].key.scope = scope

(* Faulty variant: a repeated continuation is prepared anew.                *)
ContinuationRenewed(scope, l, offset, max) ==
  /\ ~closed
  /\ Owned(scope, l)
  /\ reads[l].replay.offset = offset
  /\ reads[l].replay.input = "handle"
  /\ LET lease == Prepare(reads[l], "handle", offset, max, now)
     IN  reads' = [reads EXCEPT ![l] = lease] /\ Serve(l, lease)
  /\ UNCHANGED <<now, closed, attempts, pinnedBytes, replayBytes, installed, refs,
                 readerVars>>

(* ... the chunk it returned last, if asked in the same words ...           *)
ContinuationReplayed(scope, l, offset, max) ==
  /\ ~closed
  /\ Owned(scope, l)
  /\ reads[l].replay.offset = offset
  /\ reads[l].replay.input = "handle"
  /\ reads[l].replay.max = max
  /\ Serve(l, reads[l])
  /\ DropOnly(Expired)
  /\ refs' = RefsWithout(Expired)
  /\ UNCHANGED <<now, closed, installed, readerVars>>

(* ... or the next one, which replaces it.                                  *)
ContinuationAdvanced(scope, l, offset, max) ==
  /\ ~closed
  /\ Owned(scope, l)
  /\ ~reads[l].final
  /\ reads[l].replay.next = offset
  /\ \E t \in PrepareTimes :
       LET lease == Prepare(reads[l], "handle", offset, max, t)
       IN  /\ now' = t
           /\ reads' = [ReadsWithout(Expired) EXCEPT ![l] = lease]
           /\ Serve(l, lease)
  /\ attempts' = AttemptsWithout(Expired)
  /\ pinnedBytes' = PinnedWithout(Expired)
  /\ replayBytes' = ReplayWithout(Expired)
  /\ refs' = RefsWithout(Expired)
  /\ UNCHANGED <<closed, installed, readerVars>>

Offsets == 0 .. Max({Bytes[a] : a \in Artifacts} \cup {0})

ReadContinuation(l) ==
  \E scope \in Scopes, offset \in Offsets, max \in ChunkSizes :
    \/ ContinuationReplayed(scope, l, offset, max)
    \/ ContinuationAdvanced(scope, l, offset, max)

(* Everything else is refused: an unknown handle, another scope, any other  *)
(* offset, another max_bytes.  That changes nothing but what has expired.   *)
ContinuationRefused ==
  /\ ~closed
  /\ DropOnly(Expired)
  /\ refs' = RefsWithout(Expired)
  /\ UNCHANGED <<now, closed, installed, readerVars, served>>

(* Stats sweeps too.                                                        *)
Stats ==
  /\ DropOnly(Expired)
  /\ refs' = RefsWithout(Expired)
  /\ UNCHANGED <<now, closed, installed, readerVars, served>>

(* Close drops every lease; readers outside the lock find closed later.     *)
Close ==
  /\ ~closed
  /\ closed' = TRUE
  /\ DropOnly(Leases)
  /\ refs' = RefsWithout(Leases)
  /\ UNCHANGED <<now, installed, readerVars, served>>

-----------------------------------------------------------------------------
(* The environment: the clock, and packages that come and go.               *)
Tick ==
  /\ now < Horizon
  /\ now' = now + 1
  /\ UNCHANGED <<closed, tableVars, installed, refs, readerVars, served>>

Uninstall(a) ==
  /\ a \in installed
  /\ installed' = installed \ {a}
  /\ refs' = [refs EXCEPT ![a] = @ - 1]
  /\ UNCHANGED <<now, closed, tableVars, readerVars, served>>

Install(a) ==
  /\ a \notin installed
  /\ installed' = installed \cup {a}
  /\ refs' = [refs EXCEPT ![a] = @ + 1]
  /\ UNCHANGED <<now, closed, tableVars, readerVars, served>>

Next ==
  \/ \E r \in Readers :
       LookupAttempt(r) \/ PinArtifact(r) \/ CommitRefused(r) \/ CommitLease(r)
  \/ \E l \in Readers : ReadContinuation(l)
  \/ ContinuationRefused
  \/ Stats
  \/ Close
  \/ Tick
  \/ \E a \in Artifacts : Uninstall(a) \/ Install(a)

Spec == Init /\ [][Next]_vars
-----------------------------------------------------------------------------
(* The store's tables, the readers and the object counts hold values of     *)
(* their types; a lease's chunk lies within its artifact.                   *)
TypeOK ==
  /\ now \in 0 .. Horizon
  /\ closed \in BOOLEAN
  /\ reads \in [Readers -> Lease \cup {None}]
  /\ \A l \in Leases :
       /\ reads[l].replay.offset <= reads[l].replay.next
       /\ reads[l].replay.next <= Bytes[reads[l].key.artifact]
       /\ reads[l].final <=> reads[l].replay.next = Bytes[reads[l].key.artifact]
  /\ attempts \in [Requests -> Readers \cup {None}]
  /\ pinnedBytes \in Nat
  /\ replayBytes \in Nat
  /\ installed \subseteq Artifacts
  /\ refs \in [Artifacts -> Nat]
  /\ pc \in [Readers -> {"idle", "missed", "pinned", "done"}]
  /\ request \in [Readers -> Requests]
  /\ \A a \in served : a.id \in Readers /\ a.response \in Replay

(* The attempt table and the lease table describe the same leases, one per  *)
(* key: identical initial reads that race share one lease, and no attempt   *)
(* outlives or loses its lease.  pinnedBytes and replayBytes are what these *)
(* leases add up to, and with their number they stay within the limits,     *)
(* however reads, expiry and refusals interleave.                           *)
AccountingExact ==
  /\ \A q \in Requests :
       attempts[q] # None => attempts[q] \in Leases /\ reads[attempts[q]].key = q
  /\ \A l \in Leases : attempts[reads[l].key] = l
  /\ pinnedBytes = Total(PinnedBy, Leases)
  /\ replayBytes = Cardinality(Leases)
  /\ pinnedBytes <= MaxPinnedBytes
  /\ replayBytes <= MaxReplays
  /\ Cardinality(Leases) <= MaxCount

(* Every pin is given back exactly once: a stored object is held by its     *)
(* installed package, by each lease on it and by each reader between the    *)
(* two locked sections of readInitial, and by nothing else.                 *)
ObjectRefsExact ==
  \A a \in Artifacts :
    refs[a] = Cardinality({l \in Leases : reads[l].key.artifact = a})
                + Cardinality(Pinning(a))
                + IF a \in installed THEN 1 ELSE 0

(* The chunks of a lease that leave the store tile the artifact, whoever    *)
(* asks, how often and with whatever max_bytes: one response per offset, no *)
(* overlap, and each starts where an earlier one ended or the lease began   *)
(* (docs/ARCHITECTURE.md:387-413).                                          *)
ChunksTile ==
  \A a \in served :
    /\ \A b \in served :
         a.id = b.id =>
           /\ a.response.offset = b.response.offset => a = b
           /\ a.response.offset < b.response.offset =>
                a.response.next <= b.response.offset
    /\ \/ a.response.offset = request[a.id].offset
       \/ \E b \in served :
            /\ b.id = a.id
            /\ b.response.offset < a.response.offset
            /\ b.response.next = a.response.offset

(* A response can be asked for again until the expires_at it names: the     *)
(* lease is in the table with that response until a later chunk replaces    *)
(* it or the store is closed.  That deadline is the one the sweep applies   *)
(* and lies within the absolute lifetime, however often the lease advances. *)
HeldAsPromised ==
  /\ \A a \in served :
       ~closed /\ now < a.response.expires =>
         \/ a.id \in Leases /\ reads[a.id].replay = a.response
         \/ \E b \in served : b.id = a.id /\ b.response.offset > a.response.offset
  /\ \A l \in Leases :
       /\ reads[l].expiresAt <= reads[l].created + Absolute
       /\ reads[l].replay.expires = reads[l].expiresAt

(* docs/ARCHITECTURE.md:397, "a committed replay takes precedence over later *)
(* registry staleness": an initial read does not fail as stale while the    *)
(* response committed for that very request can be replayed.                *)
CommittedReplayWins ==
  [][\A r \in Readers :
       result[r] = "none" /\ result'[r] = "stale" =>
         ~\E l \in Committed(request[r]) : Replays(reads[l], request[r])]_vars
================================================================================
