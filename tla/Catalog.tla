------------------------------- MODULE Catalog --------------------------------
(***************************************************************************)
(* The two ways to read the capability registry while it changes.           *)
(*                                                                         *)
(* Catalog.Search (internal/capability/catalog.go, search.go) answers a     *)
(* search and a page of a path's children under one read lock; a signed     *)
(* cursor carries path, revision and offset to the next page.               *)
(*                                                                         *)
(* The broker's capabilityBackend (internal/server/backend.go) browses a    *)
(* path in one locked step and then looks every child up in a step of its   *)
(* own.  Each of these lookups leases a generation, so it is a caller of    *)
(* the registry: the i-th lookup of reader b is caller Lookups[b][i].      *)
(***************************************************************************)
EXTENDS Search

CONSTANTS Readers,       (* clients; each pages or browses                *)
          Requests,      (* searches: [query, path, limit, childLimit]    *)
          AskedPaths,    (* paths they browse                             *)
          ResponseMax,   (* results and children that fit in a response   *)
          Lookups,       (* reader -> the callers its lookups are         *)
          Segment,       (* path -> its last segment                      *)
          Target,        (* record -> operation -> provider tool          *)
          ToolPath       (* record -> operation -> its tool path          *)

Slots == UNION {Range(Lookups[b]) : b \in Readers}
Clients == Callers \ Slots
Cursors == [path : DOMAIN Parent \cup {Root}, revision : Nat, offset : Nat]

ASSUME CatalogAssumption ==
  /\ \A b \in Readers : IsInjective(Lookups[b]) /\ Lookups[b] \in Seq(Callers)
  /\ \A b, c \in Readers : b # c => Range(Lookups[b]) \cap Range(Lookups[c]) = {}
  /\ \A x \in Requests : x.query \in Queries /\ x.limit \in Nat \ {0} /\ x.childLimit \in Nat
  /\ None \notin Cursors
  (* legacyToolPath: parent and target, or ID and operation.               *)
  /\ \A r \in Records : \A o \in Operations[r] :
       IF Operations[r] = {o} THEN ToolPath[r][o] \in LegacyPaths[r]
       ELSE <<PathCapability[ToolPath[r][o]], PathOperation[ToolPath[r][o]]>> = <<IdOf[r], o>>

VARIABLES
  answer,    (* reader -> the last answer: a page or why there is none      *)
  cursor,    (* reader -> the child cursor it was given, or None            *)
  gathered,  (* reader -> the children of its pages so far                  *)
  listing,   (* reader -> all children of the path at its first page        *)
  bpc,       (* reader -> idle, children, own, done or failed             *)
  view,      (* reader -> the HierarchyView it works from                 *)
  lookups,   (* reader -> how many lookups it has made                    *)
  names,     (* reader -> child names of the response                     *)
  leaves,    (* reader -> allChildrenAreLeaves                            *)
  tools      (* reader -> the tools collected for the response            *)

pagerVars == <<answer, cursor, gathered, listing>>
browserVars == <<bpc, view, lookups, names, leaves, tools>>
catalogVars == <<vars, pagerVars, browserVars>>

Normal(n) == IF n = "/" THEN Root ELSE n

(* browseLocked: the children of a node in order, with what their records   *)
(* say; a child is its path and its generation, if it is a capability.      *)
BrowseLocked(n) ==
  LET places == {i \in DOMAIN PathOrder : PathOrder[i] \in nodes[n].children}
      child(m) == [path |-> m, record |-> IF nodes[m].capability = None THEN None
                                          ELSE entries[nodes[m].capability]]
  IN  [i \in 1 .. Cardinality(places) |-> child(PathOrder[Sorted(places)[i]])]

NoView == [path |-> Root, capability |-> None, children |-> <<>>, revision |-> 0]

CatalogInit ==
  /\ Init
  /\ answer = [p \in Readers |-> [kind |-> "none"]]
  /\ cursor = [p \in Readers |-> None]
  /\ gathered = [p \in Readers |-> <<>>]
  /\ listing = [p \in Readers |-> <<>>]
  /\ bpc = [b \in Readers |-> "idle"]
  /\ view = [b \in Readers |-> NoView]
  /\ lookups = [b \in Readers |-> 0]
  /\ names = [b \in Readers |-> {}]
  /\ leaves = [b \in Readers |-> FALSE]
  /\ tools = [b \in Readers |-> {}]
-----------------------------------------------------------------------------
(* A request that is refused; a stale cursor starts the client over.        *)
Refuse(p, why) ==
  /\ answer' = [answer EXCEPT ![p] = [kind |-> why]]
  /\ IF why \in {"stale", "closed"}
     THEN /\ cursor' = [cursor EXCEPT ![p] = None]
          /\ gathered' = [gathered EXCEPT ![p] = <<>>]
          /\ listing' = [listing EXCEPT ![p] = <<>>]
     ELSE UNCHANGED <<cursor, gathered, listing>>

(* Faulty variant: the revision of the cursor is not compared.              *)
RefusalIgnoringRevision(p, n) ==
  CASE cursor[p] # None /\ cursor[p].path # n -> "cursor_invalid"
    [] closed -> "closed"
    [] n \notin DOMAIN nodes -> "path_not_found"
    [] cursor[p] # None /\ cursor[p].offset > Len(BrowseLocked(n)) -> "cursor_invalid"
    [] OTHER -> "none"

(* Why Catalog.Search does not answer, in the order it finds out.           *)
Refusal(p, n) ==
  CASE cursor[p] # None /\ cursor[p].path # n -> "cursor_invalid"
    [] closed -> "closed"
    [] cursor[p] # None /\ cursor[p].revision # revision -> "stale"
    [] n \notin DOMAIN nodes -> "path_not_found"
    [] cursor[p] # None /\ cursor[p].offset > Len(BrowseLocked(n)) -> "cursor_invalid"
    [] OTHER -> "none"

(* Catalog.Search with the cursor of the last page, if there was one: the   *)
(* children of the path from the cursor's offset up to end, and the results *)
(* of the query.                                                            *)
SearchPage(p, x, n, children, results, offset, end) ==
  IF Len(results) + end - offset > ResponseMax THEN Refuse(p, "quota")
  ELSE /\ answer' = [answer EXCEPT ![p] =
             [kind |-> "page", of |-> x, results |-> results, total |-> Len(children)]]
       /\ cursor' = [cursor EXCEPT ![p] =
             IF x.childLimit > 0 /\ end < Len(children)
             THEN [path |-> n, revision |-> revision, offset |-> end] ELSE None]
       /\ gathered' = [gathered EXCEPT ![p] =
             (IF offset = 0 THEN <<>> ELSE @) \o SubSeq(children, offset + 1, end)]
       /\ listing' = [listing EXCEPT ![p] = IF offset = 0 THEN children ELSE @]

CatalogSearch(p, x) ==
  LET n == Normal(x.path)
      offset == IF cursor[p] = None THEN 0 ELSE cursor[p].offset
  IN  /\ IF Refusal(p, n) # "none" THEN Refuse(p, Refusal(p, n))
         ELSE SearchPage(p, x, n, BrowseLocked(n), SearchResults(x.query, n, x.limit), offset,
                         Min({offset + x.childLimit, Len(BrowseLocked(n))}))
      /\ UNCHANGED <<vars, browserVars>>

(* A client drops its cursor and asks for something else.                   *)
DropCursor(p) ==
  /\ cursor[p] # None
  /\ cursor' = [cursor EXCEPT ![p] = None]
  /\ gathered' = [gathered EXCEPT ![p] = <<>>]
  /\ listing' = [listing EXCEPT ![p] = <<>>]
  /\ answer' = [answer EXCEPT ![p] = [kind |-> "none"]]
  /\ UNCHANGED <<vars, browserVars>>
-----------------------------------------------------------------------------
(* The caller of reader b's last lookup, and whether it has its lease.     *)
Slot(b) == Lookups[b][lookups[b]]
Reading(b) == lookups[b] > 0 /\ pc[Slot(b)] = "holding"
Child(b) == Head(view[b].children)

BrowseFails(b) == bpc' = [bpc EXCEPT ![b] = "failed"]

(* capabilityBackend.Browse: the view of the path, under the read lock.     *)
Browse(b, a) ==
  LET n == Normal(a)
  IN  /\ bpc[b] = "idle" /\ answer[b].kind = "none"
      /\ IF closed \/ n \notin DOMAIN nodes
         THEN BrowseFails(b) /\ UNCHANGED <<view, leaves>>
         ELSE /\ bpc' = [bpc EXCEPT ![b] = "children"]
              /\ view' = [view EXCEPT ![b] = [path |-> n, capability |-> nodes[n].capability,
                                              children |-> BrowseLocked(n), revision |-> revision]]
              /\ leaves' = [leaves EXCEPT ![b] = BrowseLocked(n) # <<>>]
      /\ UNCHANGED <<vars, pagerVars, lookups, names, tools>>

Advance(b) == view' = [view EXCEPT ![b].children = Tail(@)]

(* A child that is no capability.                                           *)
BrowseCategory(b) ==
  /\ bpc[b] = "children" /\ view[b].children # <<>> /\ Child(b).record = None
  /\ names' = [names EXCEPT ![b] = @ \cup {Segment[Child(b).path]}]
  /\ leaves' = [leaves EXCEPT ![b] = FALSE]
  /\ Advance(b)
  /\ UNCHANGED <<vars, pagerVars, bpc, lookups, tools>>

(* Lookup of the capability that is read next, with the lookup's caller;    *)
(* Len(Lookups[b]) bounds how many a browse can make.                       *)
BrowseLookup(b) ==
  /\ ~Reading(b) /\ lookups[b] < Len(Lookups[b])
  /\ \/ bpc[b] = "children" /\ view[b].children # <<>> /\ Child(b).record # None
     \/ bpc[b] = "own"
  /\ LET c == IF bpc[b] = "own" THEN view[b].capability ELSE Child(b).path
         k == Lookups[b][lookups[b] + 1]
     IN  /\ Lookup(k, c)
         /\ lookups' = [lookups EXCEPT ![b] = @ + 1]
         /\ IF pc'[k] = "failed" THEN BrowseFails(b) ELSE UNCHANGED bpc
  /\ UNCHANGED <<pagerVars, view, names, leaves, tools>>

(* The tools a record contributes to a response.                            *)
ToolsOf(r) ==
  {[target |-> Target[r][o], path |-> ToolPath[r][o], capability |-> IdOf[r], operation |-> o] :
     o \in Operations[r]}

(* The same in a map by target: of several operations the last one stays.   *)
OwnTools(r) ==
  LET target(i) == Target[r][OperationList[r][i].id]
  IN  {t \in ToolsOf(r) :
         \A i, j \in DOMAIN OperationList[r] :
           i < j /\ target(i) = target(j) => t.operation # OperationList[r][i].id}

ChildName(n, r) ==
  IF Cardinality(Operations[r]) = 1
  THEN CHOOSE t \in {Target[r][o] : o \in Operations[r]} : TRUE
  ELSE Segment[n]

(* Two tools with the same target, among those collected or the new ones.   *)
DuplicateTarget(S, r) ==
  \E o \in Operations[r] :
    \/ \E t \in S : t.target = Target[r][o]
    \/ \E u \in Operations[r] \ {o} : Target[r][u] = Target[r][o]

(* The leased child is copied into the response, or refused as a duplicate; *)
(* either way the lease is released.                                        *)
BrowseRead(b) ==
  LET r == lease[Slot(b)]
      name == ChildName(Child(b).path, r)
  IN  /\ bpc[b] = "children" /\ Reading(b)
      /\ IF name \in names[b] \/ DuplicateTarget(tools[b], r)
         THEN BrowseFails(b) /\ UNCHANGED <<view, names, tools>>
         ELSE /\ names' = [names EXCEPT ![b] = @ \cup {name}]
              /\ tools' = [tools EXCEPT ![b] = @ \cup ToolsOf(r)]
              /\ Advance(b)
              /\ UNCHANGED bpc
      /\ Release(Slot(b))
      /\ UNCHANGED <<pagerVars, lookups, leaves>>

(* After the last child: the path's own operations, or those of its         *)
(* children when all of them are capabilities, or none.                     *)
BrowseChildrenDone(b) ==
  /\ bpc[b] = "children" /\ view[b].children = <<>>
  /\ bpc' = [bpc EXCEPT ![b] = IF view[b].capability # None THEN "own" ELSE "done"]
  /\ tools' = [tools EXCEPT ![b] = IF view[b].capability # None \/ leaves[b] THEN @ ELSE {}]
  /\ UNCHANGED <<vars, pagerVars, view, lookups, names, leaves>>

(* Faulty variant: the children's operations are shown as well.             *)
BrowseOwnMerges(b) ==
  /\ bpc[b] = "own" /\ Reading(b)
  /\ tools' = [tools EXCEPT ![b] = @ \cup OwnTools(lease[Slot(b)])]
  /\ bpc' = [bpc EXCEPT ![b] = "done"]
  /\ Release(Slot(b))
  /\ UNCHANGED <<pagerVars, view, lookups, names, leaves>>

(* The path is a capability itself: its operations replace the others.      *)
BrowseOwn(b) ==
  /\ bpc[b] = "own" /\ Reading(b)
  /\ tools' = [tools EXCEPT ![b] = OwnTools(lease[Slot(b)])]
  /\ bpc' = [bpc EXCEPT ![b] = "done"]
  /\ Release(Slot(b))
  /\ UNCHANGED <<pagerVars, view, lookups, names, leaves>>

(* capabilityBackend.Execute: the invocation lease is held from the         *)
(* resolution of the path until the provider call has returned.             *)
Execute(k) ==
  \/ \E q \in Paths : ResolveToolPath(k, q)
  \/ ResolveOperation(k)
  \/ Release(k)

RegistryStep ==
  /\ \/ \E r \in Records : Add(r) \/ Reinstall(r)
     \/ \E c \in Capabilities : Uninstall(c)
     \/ Close
     \/ \E k \in Clients : Execute(k) \/ \E c \in Capabilities : Lookup(k, c)
  /\ UNCHANGED <<pagerVars, browserVars>>

PagerStep(p) ==
  /\ bpc[p] = "idle"
  /\ \/ \E x \in Requests : CatalogSearch(p, x)
     \/ DropCursor(p)

BrowserStep(b) ==
  \/ \E a \in AskedPaths : Browse(b, a)
  \/ BrowseCategory(b) \/ BrowseLookup(b) \/ BrowseRead(b)
  \/ BrowseChildrenDone(b) \/ BrowseOwn(b)

CatalogNext ==
  \/ RegistryStep
  \/ \E b \in Readers : PagerStep(b) \/ BrowserStep(b)

CatalogSpec == CatalogInit /\ [][CatalogNext]_catalogVars
-----------------------------------------------------------------------------
(* The children a client gathers by following cursors are those of one      *)
(* moment: however often the registry changed in between, the pages so far  *)
(* are a prefix of the path's children as the first page saw them, all of   *)
(* them when no cursor follows, and a cursor the registry still accepts     *)
(* goes on exactly where the list stands.                                   *)
PagesOfOneRevision ==
  \A p \in Readers :
    /\ IsPrefix(gathered[p], listing[p])
    /\ answer[p].kind = "page" /\ cursor[p] = None =>
         answer[p].of.childLimit = 0 \/ gathered[p] = listing[p]
    /\ cursor[p] # None =>
         /\ Len(gathered[p]) = cursor[p].offset /\ cursor[p].offset < Len(listing[p])
         /\ ~closed /\ cursor[p].revision = revision =>
              /\ cursor[p].path \in DOMAIN nodes
              /\ listing[p] = BrowseLocked(cursor[p].path)

(* docs/MILESTONE_3_SEARCH_CONTRACT.md: every answer to a query with a      *)
(* token in it holds the installed capabilities below the path that         *)
(* qualify, by tier, score and ID, as many as the limit allows and no lower *)
(* ranked one in place of a higher ranked; a query that names an installed  *)
(* capability or operation, be it outside the path, finds nothing else.     *)
SearchHonoursContract ==
  [][\A p \in Readers :
       LET page == answer'[p]
           scope == ContractScope(page.of.query, Normal(page.of.path))
           ranks == {ContractRank(page.of.query, r) : r \in scope}
           found == [i \in DOMAIN page.results |->
                       [id |-> page.results[i].id, tier |-> page.results[i].tier,
                        score |-> page.results[i].score]]
       IN  page # answer[p] /\ page.kind = "page" /\ Tokens[page.of.query] # {} =>
             /\ Len(found) = Min({page.of.limit, Cardinality(ranks)})
             /\ Range(found) \subseteq ranks
             /\ \A i \in DOMAIN found : \A e \in ranks \ {found[j] : j \in 1 .. i} :
                  RankedBefore(found[i], e)]_catalogVars

(* What the registry has below path n for browsing to show.                 *)
ToolsBelow(n) ==
  LET children == {c \in nodes[n].children : nodes[c].capability # None}
  IN  IF nodes[n].capability # None THEN ToolsOf(entries[nodes[n].capability])
      ELSE IF children = nodes[n].children THEN UNION {ToolsOf(entries[c]) : c \in children}
      ELSE {}

(* One answer is put together from several lookups, between which packages  *)
(* come and go.  What is listed for a capability always comes from one      *)
(* generation.  If nothing was changed since the browse began, the tools    *)
(* are what the registry has below the path, every provider tool once.  A   *)
(* browse that has ended, with an answer or with an error, holds no lease:  *)
(* browsing never keeps a retired package in memory.                        *)
BrowseAnswerTrue ==
  \A b \in Readers :
    /\ bpc[b] \in {"done", "failed"} => \A k \in Range(Lookups[b]) : pc[k] # "holding"
    /\ bpc[b] = "done" =>
         /\ \A t \in tools[b] :
              \E r \in Records :
                Published(r) /\ {u \in tools[b] : u.capability = t.capability} = OwnTools(r)
         /\ ~closed /\ view[b].revision = revision =>
              /\ tools[b] \subseteq ToolsBelow(view[b].path)
              /\ \A t \in ToolsBelow(view[b].path) :
                   Cardinality({u \in tools[b] : u.target = t.target}) = 1

(* docs/USAGE.md:30-31, "Each package-backed tool includes its description, *)
(* exact compatibility tool_path": while nothing changes, the listed path   *)
(* of a tool is resolved to the listed capability and operation, unless it  *)
(* stands for something in a second installed package as well.              *)
ListedPathsResolve ==
  \A b \in Readers :
    bpc[b] = "done" /\ ~closed /\ view[b].revision = revision =>
      \A t \in tools[b] :
        \/ Meanings(t.path) = {<<t.capability, t.operation>>}
        \/ \E r \in Installed : IdOf[r] # t.capability /\ \E o \in Operations[r] : Denotes(t.path, r, o)
===============================================================================
