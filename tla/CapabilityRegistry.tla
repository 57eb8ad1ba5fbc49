-------------------------- MODULE CapabilityRegistry --------------------------
(***************************************************************************)
(* The registry of installed capabilities, internal/capability/registry.go: *)
(* Add, Reinstall and Uninstall swap generations; Lookup, ResolveOperation  *)
(* and ResolveToolPath lease one; a retired generation is reclaimed, which  *)
(* releases its package snapshot, with its last lease.                      *)
(*                                                                         *)
(* The registry owns a Record from a successful Add or Reinstall on, so a   *)
(* record is published at most once and names its generation.  Each caller  *)
(* takes one CapabilityLease or InvocationLease.                            *)
(***************************************************************************)
EXTENDS Naturals, FiniteSets

CONSTANTS Capabilities,  (* capability IDs                                 *)
          Records,       (* loaded package records                         *)
          IdOf,          (* record -> its capability ID                    *)
          Operations,    (* record -> the IDs of its operations            *)
          LegacyPaths,   (* record -> tool paths its first operation's     *)
                         (*   parent and target spell                      *)
          Paths,         (* tool paths callers ask for                     *)
          PathCapability,(* path -> what precedes its last dot, or None    *)
          PathOperation, (* path -> its last segment                       *)
          Root,          (* the empty hierarchy path                       *)
          Parent,        (* hierarchy path -> the path without its last    *)
                         (*   segment                                      *)
          Places,        (* record -> the hierarchy paths that lead to its *)
                         (*   ID and to its parent, both included          *)
          Callers,       (* goroutines that use the registry               *)
          None

ASSUME RegistryAssumption ==
         /\ IsFiniteSet(Callers)
         /\ IsFiniteSet(Capabilities)
         /\ IdOf \in [Records -> Capabilities]
         /\ \A r \in Records :
              /\ IsFiniteSet(Operations[r])
              /\ IdOf[r] \in Places[r]
              /\ \A n \in Places[r] : n # Root /\ Parent[n] \in Places[r] \cup {Root}
         /\ None \notin Records
         /\ None \notin Capabilities

VARIABLES
  entries,   (* capability ID -> its current generation                    *)
  nodes,     (* hierarchy path -> what Browse shows there                  *)
  next,      (* the last generation number given out                       *)
  revision,  (* bumped by every change of the entries                      *)
  closed,
  id,        (* record -> the number of its generation                     *)
  refs,      (* record -> registryGeneration.refs                          *)
  retired,   (* record -> registryGeneration.retired                       *)
  reclaimed, (* record -> how often reclaimLocked has run on it            *)
  pc,        (* caller -> idle, resolving, holding, released or failed     *)
  want,      (* caller -> the capability and operation it is resolving     *)
  path,      (* caller -> the tool path it was asked for, or None          *)
  seen,      (* caller -> the last generation number when it matched it    *)
  lease      (* caller -> the generation it leases                         *)

registryVars == <<entries, nodes, next, revision, closed, id>>
generationVars == <<refs, retired, reclaimed>>
callerVars == <<pc, want, path, seen, lease>>
vars == <<registryVars, generationVars, callerVars>>

Installed == {r \in Records : \E c \in Capabilities : entries[c] = r}
Holders(r) == {k \in Callers : pc[k] = "holding" /\ lease[k] = r}
Published(r) == id[r] # 0

(* rebuildHierarchyLocked: the nodes that table es gives rise to.           *)
Hierarchy(es) ==
  LET present == {Root} \cup UNION {Places[r] : r \in {es[c] : c \in Capabilities} \ {None}}
  IN  [n \in present |->
         [capability |-> IF n \in {c \in Capabilities : es[c] # None} THEN n ELSE None,
          children |-> {m \in present \ {Root} : Parent[m] = n}]]

(* retireLocked: drop the registry's own reference; without leases the      *)
(* generation is reclaimed at once.                                         *)
RetireAll(S) ==
  /\ retired' = [r \in Records |-> retired[r] \/ r \in S]
  /\ refs' = [r \in Records |-> IF r \in S THEN refs[r] - 1 ELSE refs[r]]
  /\ reclaimed' = [r \in Records |->
                     IF r \in S /\ refs[r] = 1 THEN reclaimed[r] + 1 ELSE reclaimed[r]]

-----------------------------------------------------------------------------
(* NewRegistry publishes a set of records with distinct IDs, numbered from  *)
(* one, before anybody can call it.                                         *)
Init ==
  /\ entries \in {e \in [Capabilities -> Records \cup {None}] :
                    \A c \in Capabilities : e[c] # None => IdOf[e[c]] = c}
  /\ nodes = Hierarchy(entries)
  /\ next = Cardinality(Installed)
  /\ revision = 0
  /\ closed = FALSE
  /\ id \in [Records -> 0 .. next]
  /\ \A r \in Records : id[r] # 0 <=> r \in Installed
  /\ \A r, s \in Installed : id[r] = id[s] => r = s
  /\ refs = [r \in Records |-> IF r \in Installed THEN 1 ELSE 0]
  /\ retired = [r \in Records |-> FALSE]
  /\ reclaimed = [r \in Records |-> 0]
  /\ pc = [k \in Callers |-> "idle"]
  /\ want = [k \in Callers |-> <<None, None>>]
  /\ path = [k \in Callers |-> None]
  /\ seen = [k \in Callers |-> 0]
  /\ lease = [k \in Callers |-> None]

(* A new generation for record r: its number and its place in the table.    *)
Publish(r) ==
  /\ next' = next + 1
  /\ id' = [id EXCEPT ![r] = next + 1]
  /\ entries' = [entries EXCEPT ![IdOf[r]] = r]
  /\ nodes' = Hierarchy(entries')
  /\ revision' = revision + 1

Add(r) ==
  /\ ~closed
  /\ ~Published(r)
  /\ entries[IdOf[r]] = None
  /\ Publish(r)
  /\ refs' = [refs EXCEPT ![r] = 1]
  /\ UNCHANGED <<closed, retired, reclaimed, callerVars>>

(* Reinstall: publish the replacement and retire the generation it          *)
(* replaces in one locked step.                                             *)
Reinstall(r) ==
  /\ ~closed
  /\ ~Published(r)
  /\ entries[IdOf[r]] # None
  /\ Publish(r)
  /\ LET old == entries[IdOf[r]]
     IN  /\ refs' = [refs EXCEPT ![r] = 1, ![old] = @ - 1]
         /\ retired' = [retired EXCEPT ![old] = TRUE]
         /\ reclaimed' = [reclaimed EXCEPT ![old] = IF refs[old] = 1 THEN @ + 1 ELSE @]
  /\ UNCHANGED <<closed, callerVars>>

Uninstall(c) ==
  /\ ~closed
  /\ entries[c] # None
  /\ entries' = [entries EXCEPT ![c] = None]
  /\ nodes' = Hierarchy(entries')
  /\ RetireAll({entries[c]})
  /\ revision' = revision + 1
  /\ UNCHANGED <<next, closed, id, callerVars>>

(* Close retires every generation and empties the tables; leases stay.      *)
Close ==
  /\ ~closed
  /\ closed' = TRUE
  /\ RetireAll(Installed)
  /\ entries' = [c \in Capabilities |-> None]
  /\ nodes' = <<>>
  /\ UNCHANGED <<next, revision, id, callerVars>>

-----------------------------------------------------------------------------
Fail(k) ==
  /\ pc' = [pc EXCEPT ![k] = "failed"]
  /\ UNCHANGED <<want, path, seen, lease>>

Take(k, r) ==
  /\ pc' = [pc EXCEPT ![k] = "holding"]
  /\ lease' = [lease EXCEPT ![k] = r]
  /\ refs' = [refs EXCEPT ![r] = @ + 1]
  /\ UNCHANGED <<retired, reclaimed, want, path, seen>>

(* Lookup of a capability by ID.                                            *)
Lookup(k, c) ==
  /\ pc[k] = "idle"
  /\ IF closed \/ entries[c] = None
     THEN Fail(k) /\ UNCHANGED generationVars
     ELSE Take(k, entries[c])
  /\ UNCHANGED registryVars

(* The one-operation records that path q names in the inherited spelling.   *)
LegacyMatches(q) ==
  {r \in Installed : Cardinality(Operations[r]) = 1 /\ q \in LegacyPaths[r]}

(* Faulty variant: the inherited spelling is tried last.                    *)
MeaningsSplitFirst(q) ==
  LET split == {<<c, PathOperation[q]>> : c \in {PathCapability[q]} \ {None}}
  IN  IF split # {} THEN split
      ELSE UNION {{<<IdOf[r], o>> : o \in Operations[r]} : r \in LegacyMatches(q)}

(* The capability and operation the tables say q stands for: the one legacy *)
(* match, a one-operation capability of that ID, or the split at the last   *)
(* dot.  Empty when several records match or there is nothing to split.     *)
Meanings(q) ==
  LET legacy == LegacyMatches(q)
      direct == {c \in Capabilities \cap {q} :
                   entries[c] # None /\ Operations[entries[c]] = {PathOperation[q]}}
  IN  IF Cardinality(legacy) > 1 THEN {}
      ELSE IF legacy # {}
           THEN UNION {{<<IdOf[r], o>> : o \in Operations[r]} : r \in legacy}
      ELSE IF direct # {} THEN {<<q, PathOperation[q]>>}
      ELSE {<<c, PathOperation[q]>> : c \in {PathCapability[q]} \ {None}}

(* ResolveToolPath, under the read lock: decide what the path means ...     *)
ResolveToolPath(k, q) ==
  /\ pc[k] = "idle"
  /\ \/ /\ Meanings(q) = {}
        /\ Fail(k)
     \/ \E m \in Meanings(q) :
          /\ pc' = [pc EXCEPT ![k] = "resolving"]
          /\ want' = [want EXCEPT ![k] = m]
          /\ path' = [path EXCEPT ![k] = q]
          /\ seen' = [seen EXCEPT ![k] = next]
          /\ UNCHANGED lease
  /\ UNCHANGED <<registryVars, generationVars>>

(* Faulty variant: the operation is not looked for in the generation.       *)
ResolveUnchecked(k) ==
  /\ pc[k] = "resolving"
  /\ LET c == want[k][1]
     IN  IF closed \/ c \notin Capabilities \/ entries[c] = None
         THEN Fail(k) /\ UNCHANGED generationVars
         ELSE Take(k, entries[c])
  /\ UNCHANGED registryVars

(* ... and ResolveOperation, after that lock was released: look the         *)
(* operation up in whatever generation is current by now and lease it.      *)
ResolveOperation(k) ==
  /\ pc[k] = "resolving"
  /\ LET c == want[k][1]
     IN  IF \/ closed
            \/ c \notin Capabilities
            \/ entries[c] = None
            \/ want[k][2] \notin Operations[entries[c]]
         THEN Fail(k) /\ UNCHANGED generationVars
         ELSE Take(k, entries[c])
  /\ UNCHANGED registryVars

(* Faulty variant: only retirement reclaims.                                *)
ReleaseKeeps(k) ==
  /\ pc[k] = "holding"
  /\ pc' = [pc EXCEPT ![k] = "released"]
  /\ refs' = [refs EXCEPT ![lease[k]] = @ - 1]
  /\ UNCHANGED <<registryVars, retired, reclaimed, want, path, seen, lease>>

(* Release of a lease: its sync.Once lets only the first call through.      *)
Release(k) ==
  /\ pc[k] = "holding"
  /\ pc' = [pc EXCEPT ![k] = "released"]
  /\ IF refs[lease[k]] <= 0
     THEN UNCHANGED <<refs, reclaimed>>
     ELSE /\ refs' = [refs EXCEPT ![lease[k]] = @ - 1]
          /\ reclaimed' = [reclaimed EXCEPT ![lease[k]] =
                             IF refs[lease[k]] = 1 /\ retired[lease[k]] THEN @ + 1 ELSE @]
  /\ UNCHANGED <<registryVars, retired, want, path, seen, lease>>

Next ==
  \/ \E r \in Records : Add(r) \/ Reinstall(r)
  \/ \E c \in Capabilities : Uninstall(c)
  \/ Close
  \/ \E k \in Callers :
       \/ \E c \in Capabilities : Lookup(k, c)
       \/ \E q \in Paths : ResolveToolPath(k, q)
       \/ ResolveOperation(k)
       \/ Release(k)

Spec == Init /\ [][Next]_vars
-----------------------------------------------------------------------------
(* Tables, generations and callers hold values of their types, and an entry *)
(* is filed under its own record's capability ID.                           *)
TypeOK ==
  /\ entries \in [Capabilities -> Records \cup {None}]
  /\ \A c \in Capabilities : entries[c] # None => IdOf[entries[c]] = c
  /\ next \in Nat
  /\ revision \in Nat
  /\ closed \in BOOLEAN
  /\ id \in [Records -> Nat]
  /\ refs \in [Records -> Nat]
  /\ retired \in [Records -> BOOLEAN]
  /\ reclaimed \in [Records -> Nat]
  /\ pc \in [Callers -> {"idle", "resolving", "holding", "released", "failed"}]
  /\ seen \in [Callers -> Nat]
  /\ lease \in [Callers -> Records \cup {None}]
  /\ \A k \in Callers : pc[k] = "holding" => lease[k] \in Records

(* registryGeneration.refs is the registry's own reference, while the       *)
(* generation is current, plus one for each lease nobody has released.      *)
RefsExact ==
  \A r \in Records :
    refs[r] = Cardinality(Holders(r)) + IF r \in Installed THEN 1 ELSE 0

(* A generation's snapshot is released while nobody leases it and after it  *)
(* was retired, never earlier and never twice, and always by then:          *)
(* queued and running invocations keep the package they resolved, and an    *)
(* uninstalled package does not stay in memory.                             *)
ReclaimedExactlyWhenUnused ==
  \A r \in Records :
    reclaimed[r] = IF Published(r) /\ r \notin Installed /\ Holders(r) = {}
                   THEN 1 ELSE 0

(* Retired generations are exactly the published ones that are no longer    *)
(* current, so the retired tests of Lookup and ResolveOperation never fire. *)
RetiredExactly ==
  \A r \in Records : retired[r] <=> Published(r) /\ r \notin Installed

(* Generation numbers are never reused, so the newest generation of a       *)
(* capability has the largest number among all it ever had.                 *)
NewestIsCurrent ==
  \A r, s \in Records :
    /\ Published(r) /\ id[r] = id[s] => r = s
    /\ r \in Installed /\ IdOf[s] = IdOf[r] => id[s] <= id[r]

(* What a record alone makes of a path: the rules of ResolveToolPath.       *)
Denotes(q, r, o) ==
  /\ o \in Operations[r]
  /\ \/ Operations[r] = {o} /\ q \in LegacyPaths[r]
     \/ Operations[r] = {o} /\ q = IdOf[r] /\ o = PathOperation[q]
     \/ <<PathCapability[q], PathOperation[q]>> = <<IdOf[r], o>>

(* docs/USAGE.md:52, "Tappet resolves the exact path to one immutable       *)
(* capability and provider-binding generation": the generation leased for a *)
(* tool path gives that path the meaning under which it was leased.         *)
PathLeaseExact ==
  \A k \in Callers :
    pc[k] = "holding" /\ path[k] # None => Denotes(path[k], lease[k], want[k][2])

(* What the two locked sections of ResolveToolPath do guarantee: a lease    *)
(* disagrees with the path only if its generation was published after the   *)
(* path was matched, and it always contains the operation that was matched. *)
PathLeaseExactOrNewer ==
  \A k \in Callers :
    pc[k] = "holding" /\ path[k] # None =>
      /\ want[k][2] \in Operations[lease[k]]
      /\ Denotes(path[k], lease[k], want[k][2]) \/ id[lease[k]] > seen[k]

(* Every change of the installed set that callers can see moves revision by *)
(* one, which is how search cursors notice it; Close needs no revision      *)
(* because it refuses every later call.                                     *)
RevisionTracksEntries ==
  [][entries' # entries => revision' = revision + 1 \/ closed']_vars

(* Generation numbers are given out in order, to every installed or leased  *)
(* generation.                                                              *)
Numbered ==
  /\ \A r \in Records : id[r] <= next
  /\ \A r \in Installed : Published(r)
  /\ \A k \in Callers : pc[k] = "holding" => Published(lease[k])

(* The inductive invariant of the registry: none of these parts is          *)
(* preserved by retireLocked and release without the others.                *)
Inductive ==
  /\ TypeOK
  /\ RefsExact
  /\ ReclaimedExactlyWhenUnused
  /\ RetiredExactly
  /\ NewestIsCurrent
  /\ Numbered
===============================================================================
