----------------------------- MODULE Projections -----------------------------
(***************************************************************************)
(* The describe service, ProjectionStore of internal/capability/describe.go: *)
(* a client describes a capability, the first page is cut from a projection  *)
(* of the generation that is installed at that moment, and the rest is       *)
(* fetched with signed cursors from a bounded cache of such projections.     *)
(*                                                                         *)
(* A client follows the cursors it is given, may send its last cursor again   *)
(* because the answer was lost, and may give up and ask anew.  The registry  *)
(* appears only as the generation Lookup finds (CapabilityRegistry has it in *)
(* full).  Cursors carry an HMAC, so a client has only cursors it was given. *)
(***************************************************************************)
EXTENDS Naturals, Sequences, FiniteSets, Functions, Counting

CONSTANTS Clients,
          Records,     (* the generations of the capability                  *)
          Contents,    (* record -> section -> the IDs of its items          *)
          Includes,    (* include lists that clients send                    *)
          Limits,      (* page limits that clients send                      *)
          LimitMax,    (* DescribeLimitMax                                   *)
          ItemBytes,   (* item ID -> bytes it adds to a response             *)
          CursorBytes, (* bytes a cursor adds to a response                  *)
          ResponseMax, (* BrokerResponseMaxBytes, less what every one needs  *)
          MaxCount, MaxBytes, Idle, Absolute,  (* ProjectionLimits           *)
          Horizon,     (* bound on the clock                                 *)
          MaxIssued,   (* bound on the projections that are cached           *)
          None

(* The order of the sections of a projection and of a response.             *)
Sections == <<"skills", "operations", "references">>

(* A described skill, operation or reference, and where a cursor points.    *)
Item == [record : Records, section : Range(Sections), id : DOMAIN ItemBytes]
Cursor == [id : Nat, offset : Nat, limit : Nat]

(* IDs are ordered like numbers.                                            *)
ASSUME ProjectionsAssumption ==
         /\ MaxCount \in Nat \ {0} /\ MaxBytes \in Nat \ {0}
         /\ Idle \in Nat \ {0} /\ Absolute \in Nat /\ Idle <= Absolute
         /\ LimitMax \in Nat /\ Horizon \in Nat /\ MaxIssued \in Nat
         /\ DOMAIN ItemBytes \subseteq Nat /\ IsFiniteSet(DOMAIN ItemBytes)
         /\ ItemBytes \in [DOMAIN ItemBytes -> Nat]
         /\ Contents \in [Records -> [Range(Sections) -> SUBSET DOMAIN ItemBytes]]
         /\ None \notin Records /\ None \notin Cursor

VARIABLES
  installed,  (* the generation the registry has, or None                   *)
  now,
  entries,    (* ID -> projection, created, idleUntil                       *)
  bytes,      (* ProjectionStore.bytes                                      *)
  closed,
  issued,     (* how many IDs newUniqueIDLocked has given out               *)
  pc,         (* client -> idle, admitted, built, paging or failed          *)
  ask,        (* client -> the include list and the limit it sent           *)
  projection, (* client -> the projection it was built, or None             *)
  before,     (* client -> the items of all pages but the last              *)
  gathered,   (* client -> the items of all pages                           *)
  used,       (* client -> the cursor that fetched the last page            *)
  cursor,     (* client -> the cursor the last page came with, or None      *)
  since,      (* client -> when its projection was cached                   *)
  served,     (* client -> when it got its last page                        *)
  result,     (* client -> the outcome of its last call                     *)
  handed      (* the IDs for which some client was handed a cursor          *)

storeVars == <<entries, bytes, closed, issued>>
pageVars == <<before, gathered, used, cursor, since, served>>
clientVars == <<pc, ask, projection, pageVars, result, handed>>
vars == <<installed, now, storeVars, clientVars>>

-----------------------------------------------------------------------------
(* normalizeIncludes: one to three known sections, none twice.              *)
ValidInclude(include) ==
  /\ Len(include) \in 1 .. 3
  /\ Range(include) \subseteq Range(Sections)
  /\ Cardinality(Range(include)) = Len(include)

(* BuildProjection: the requested sections in their fixed order, each       *)
(* sorted by ID (sort.Slice); one that was not requested is empty.          *)
Section(r, s) ==
  [i \in 1 .. Cardinality(Contents[r][s]) |->
     [record |-> r, section |-> s, id |-> Sorted(Contents[r][s])[i]]]
BuildProjection(r, include) ==
  [i \in 1 .. 3 |->
     IF Sections[i] \in Range(include) THEN Section(r, Sections[i]) ELSE <<>>]

(* Encoded size of a list of items.                                         *)
Bytes(items) == Total([i \in DOMAIN items |-> ItemBytes[items[i].id]], DOMAIN items)
Flat(p) == p[1] \o p[2] \o p[3]
ProjectionBytes(p) == Bytes(Flat(p))
ItemCount(p) == Len(p[1]) + Len(p[2]) + Len(p[3])

(* copySection: skip a section that lies before the offset, copy what the   *)
(* remaining limit allows of any other, and start the next one at zero.     *)
CopySection(copy, section) ==
  LET end == IF copy.offset + copy.remaining > Len(section)
             THEN Len(section) ELSE copy.offset + copy.remaining
  IN  IF copy.remaining = 0 THEN copy
      ELSE IF copy.offset >= Len(section)
           THEN [copy EXCEPT !.offset = @ - Len(section)]
      ELSE [items |-> copy.items \o SubSeq(section, copy.offset + 1, end),
            remaining |-> copy.remaining - (end - copy.offset),
            offset |-> 0]

(* pageProjection: the items of one page and the cursor to the next.        *)
PageProjection(p, offset, limit, next) ==
  LET skills == CopySection([items |-> <<>>, remaining |-> limit, offset |-> offset], p[1])
      operations == CopySection(skills, p[2])
  IN  [items |-> CopySection(operations, p[3]).items, next |-> next]

(* checkDescribeResponseSize.                                               *)
Fits(page) ==
  Bytes(page.items) + (IF page.next = None THEN 0 ELSE CursorBytes) <= ResponseMax

(* boundedPage: the longest page within the limit whose response fits, as a *)
(* set that is empty when not even one item does.                           *)
BoundedPages(p, offset, limit, id) ==
  LET count == ItemCount(p)
      most == IF limit > count - offset THEN count - offset ELSE limit
      page(n) == PageProjection(p, offset, n,
                   IF offset + n < count
                   THEN [id |-> id, offset |-> offset + n, limit |-> limit] ELSE None)
      fitting == {n \in 1 .. most : Fits(page(n))}
  IN  {page(n) : n \in {m \in fitting : \A o \in fitting : o <= m}}

-----------------------------------------------------------------------------
(* Faulty variant: renewing a projection extends it without end.            *)
DeadlineIdleOnly(entry) == entry.idleUntil

(* When an entry expires.                                                   *)
Deadline(entry) ==
  IF entry.idleUntil < entry.created + Absolute THEN entry.idleUntil
                                                ELSE entry.created + Absolute

(* sweepLocked: the entries that stay, and the bytes that are left.         *)
Live == {i \in DOMAIN entries : now < Deadline(entries[i])}
Kept == [i \in Live |-> entries[i]]
EntryBytes == [i \in DOMAIN entries |-> ProjectionBytes(entries[i].projection)]
KeptBytes == bytes - Total(EntryBytes, DOMAIN entries \ Live)
SweepLocked == entries' = Kept /\ bytes' = KeptBytes

(* The same with a new entry.                                               *)
KeptAnd(id, p) ==
  [i \in Live \cup {id} |->
     IF i = id THEN [projection |-> p, created |-> now, idleUntil |-> now + Idle]
               ELSE entries[i]]

Init ==
  /\ installed \in Records
  /\ now = 0
  /\ entries = <<>>
  /\ bytes = 0
  /\ closed = FALSE
  /\ issued = 0
  /\ pc = [k \in Clients |-> "idle"]
  /\ ask = [k \in Clients |-> None]
  /\ projection = [k \in Clients |-> None]
  /\ before = [k \in Clients |-> <<>>]
  /\ gathered = [k \in Clients |-> <<>>]
  /\ used = [k \in Clients |-> None]
  /\ cursor = [k \in Clients |-> None]
  /\ since = [k \in Clients |-> 0]
  /\ served = [k \in Clients |-> 0]
  /\ result = [k \in Clients |-> None]
  /\ handed = {}

(* The registry reinstalls or uninstalls the capability.                    *)
RegistryChanges ==
  /\ installed' \in (Records \cup {None}) \ {installed}
  /\ UNCHANGED <<now, storeVars, clientVars>>

Tick ==
  /\ now < Horizon
  /\ now' = now + 1
  /\ UNCHANGED <<installed, storeVars, clientVars>>

Answer(k, state, outcome) ==
  /\ pc' = [pc EXCEPT ![k] = state]
  /\ result' = [result EXCEPT ![k] = outcome]

(* A page reaches the client.                                               *)
Deliver(k, earlier, page, through, cached) ==
  /\ Answer(k, "paging", "ok")
  /\ before' = [before EXCEPT ![k] = earlier]
  /\ gathered' = [gathered EXCEPT ![k] = earlier \o page.items]
  /\ used' = [used EXCEPT ![k] = through]
  /\ cursor' = [cursor EXCEPT ![k] = page.next]
  /\ handed' = handed \cup {c.id : c \in {page.next} \ {None}}
  /\ since' = [since EXCEPT ![k] = cached]
  /\ served' = [served EXCEPT ![k] = now]

(* Describe without a cursor: the limit, the first test of closed and the   *)
(* include list.                                                            *)
Describe(k, include, limit) ==
  /\ pc[k] \in {"idle", "paging", "failed"}
  /\ IF limit \in 1 .. LimitMax /\ ~closed /\ ValidInclude(include)
     THEN /\ Answer(k, "admitted", None)
          /\ ask' = [ask EXCEPT ![k] = [include |-> include, limit |-> limit]]
     ELSE /\ Answer(k, "failed", IF limit \in 1 .. LimitMax /\ closed
                                 THEN "closed" ELSE "request invalid")
          /\ ask' = [ask EXCEPT ![k] = None]
  /\ projection' = [projection EXCEPT ![k] = None]
  /\ before' = [before EXCEPT ![k] = <<>>]
  /\ gathered' = [gathered EXCEPT ![k] = <<>>]
  /\ used' = [used EXCEPT ![k] = None]
  /\ cursor' = [cursor EXCEPT ![k] = None]
  /\ since' = [since EXCEPT ![k] = 0]
  /\ served' = [served EXCEPT ![k] = 0]
  /\ UNCHANGED <<installed, now, storeVars, handed>>

(* Registry.Lookup, BuildProjection from the leased record, and Release.    *)
Lookup(k) ==
  /\ pc[k] = "admitted"
  /\ \/ /\ installed = None
        /\ Answer(k, "failed", "not found")
        /\ UNCHANGED projection
     \/ /\ installed # None
        /\ Answer(k, "built", None)
        /\ projection' = [projection EXCEPT
                            ![k] = BuildProjection(installed, ask[k].include)]
  /\ UNCHANGED <<installed, now, storeVars, ask, pageVars, handed>>

(* Whether a first page needs no cached projection.                         *)
WholePage(k) == PageProjection(projection[k], 0, ItemCount(projection[k]), None)
FitsWhole(k) == ItemCount(projection[k]) <= ask[k].limit /\ Fits(WholePage(k))

(* firstPage, with the store closed since Describe tested it.               *)
FirstPageClosed(k) ==
  /\ pc[k] = "built"
  /\ closed
  /\ Answer(k, "failed", "closed")
  /\ UNCHANGED <<storeVars, installed, now, ask, projection, pageVars, handed>>

(* firstPage, answered in full and nothing kept.                            *)
FirstPageWhole(k) ==
  /\ pc[k] = "built"
  /\ ~closed
  /\ FitsWhole(k)
  /\ SweepLocked
  /\ Deliver(k, <<>>, WholePage(k), None, now)
  /\ UNCHANGED <<closed, issued, installed, now, ask, projection>>

(* Faulty variant: the quotas are those before the sweep's removals, and    *)
(* the projection itself is not counted.                                    *)
OverQuotaWithoutIt(p) == Cardinality(Live) >= MaxCount \/ KeptBytes > MaxBytes

OverQuota(p) ==
  Cardinality(Live) >= MaxCount \/ KeptBytes + ProjectionBytes(p) > MaxBytes

(* firstPage, refused by a quota or because the random source failed.       *)
FirstPageRefused(k) ==
  /\ pc[k] = "built"
  /\ ~closed
  /\ ~FitsWhole(k)
  /\ SweepLocked
  /\ \/ OverQuota(projection[k]) /\ Answer(k, "failed", "quota")
     \/ ~OverQuota(projection[k]) /\ Answer(k, "failed", "no handle")
  /\ UNCHANGED <<closed, issued, installed, now, ask, projection, pageVars, handed>>

(* Faulty variant: the entry outlives the failure to cut a page from it.    *)
FirstPageKeepsEntry(k) ==
  /\ pc[k] = "built"
  /\ ~closed
  /\ ~FitsWhole(k)
  /\ ~OverQuota(projection[k])
  /\ issued < MaxIssued
  /\ issued' = issued + 1
  /\ LET p == projection[k]
         pages == BoundedPages(p, 0, ask[k].limit, issued + 1)
     IN  /\ entries' = KeptAnd(issued + 1, p)
         /\ bytes' = KeptBytes + ProjectionBytes(p)
         /\ \/ pages = {} /\ Answer(k, "failed", "quota") /\ UNCHANGED <<pageVars, handed>>
            \/ \E page \in pages : Deliver(k, <<>>, page, None, now)
  /\ UNCHANGED <<closed, installed, now, ask, projection>>

(* firstPage, with the projection cached under a new ID for as long as a    *)
(* cursor to it is out: not when no page can be cut from it, nor when the   *)
(* first page is the last.                                                  *)
FirstPageCached(k) ==
  /\ pc[k] = "built"
  /\ ~closed
  /\ ~FitsWhole(k)
  /\ ~OverQuota(projection[k])
  /\ issued < MaxIssued
  /\ issued' = issued + 1
  /\ LET p == projection[k]
         pages == BoundedPages(p, 0, ask[k].limit, issued + 1)
     IN  /\ IF \E page \in pages : Len(page.items) < ItemCount(p)
            THEN /\ entries' = KeptAnd(issued + 1, p)
                 /\ bytes' = KeptBytes + ProjectionBytes(p)
            ELSE SweepLocked
         /\ \/ pages = {} /\ Answer(k, "failed", "quota") /\ UNCHANGED <<pageVars, handed>>
            \/ \E page \in pages : Deliver(k, <<>>, page, None, now)
  /\ UNCHANGED <<closed, installed, now, ask, projection>>

(* What cursor c fetches: a page of its entry, if that is live, the offset  *)
(* is inside it and something fits.                                         *)
Inside(c) == c.offset \in 1 .. ItemCount(entries[c.id].projection) - 1
Pages(c) == IF c.id \in Live /\ Inside(c)
            THEN BoundedPages(entries[c.id].projection, c.offset, c.limit, c.id) ELSE {}

(* The live entries, entry id with a new idle deadline.                     *)
Renewed(id) == [Kept EXCEPT ![id].idleUntil = now + Idle]

(* Faulty variant: pages are cut from the generation installed by now.      *)
CursorPageFromRegistry(k, c) ==
  /\ ~closed
  /\ c.id \in Live
  /\ installed # None
  /\ \E page \in BoundedPages(BuildProjection(installed, ask[k].include),
                              c.offset, c.limit, c.id) :
       /\ entries' = Renewed(c.id)
       /\ bytes' = KeptBytes
       /\ Deliver(k, IF c = used[k] THEN before[k] ELSE gathered[k], page, c, since[k])
  /\ UNCHANGED <<closed, issued, installed, now, ask, projection>>

(* Faulty variant: serving a page does not renew the idle deadline.         *)
CursorPageUnrenewed(k, c) ==
  /\ ~closed
  /\ SweepLocked
  /\ \E page \in Pages(c) :
       Deliver(k, IF c = used[k] THEN before[k] ELSE gathered[k], page, c, since[k])
  /\ UNCHANGED <<closed, issued, installed, now, ask, projection>>

(* cursorPage with a live entry: cut the page, renew the idle deadline.     *)
CursorPageServed(k, c) ==
  /\ ~closed
  /\ \E page \in Pages(c) :
       /\ entries' = Renewed(c.id)
       /\ bytes' = KeptBytes
       /\ Deliver(k, IF c = used[k] THEN before[k] ELSE gathered[k], page, c, since[k])
  /\ UNCHANGED <<closed, issued, installed, now, ask, projection>>

(* cursorPage refused: the store closed, a limit that is not the cursor's,  *)
(* an expired entry, an offset outside of it, an item too large to send.    *)
CursorPageRefused(k, c, limit) ==
  /\ \/ closed /\ Answer(k, pc[k], "closed") /\ UNCHANGED <<entries, bytes>>
     \/ /\ ~closed /\ limit # c.limit
        /\ Answer(k, pc[k], "cursor invalid")
        /\ UNCHANGED <<entries, bytes>>
     \/ /\ ~closed /\ limit = c.limit
        /\ SweepLocked
        /\ Pages(c) = {}
        /\ Answer(k, pc[k], IF c.id \notin Live THEN "stale"
                            ELSE IF ~Inside(c) THEN "cursor invalid" ELSE "quota")
  /\ UNCHANGED <<closed, issued, installed, now, ask, projection, pageVars, handed>>

(* Describe with the cursor of the last page, or once more with the one     *)
(* before.                                                                  *)
CursorPage(k, c, limit) ==
  /\ pc[k] = "paging"
  /\ c \in {used[k], cursor[k]} \ {None}
  /\ \/ limit = c.limit /\ CursorPageServed(k, c)
     \/ CursorPageRefused(k, c, limit)

Stats ==
  /\ SweepLocked
  /\ UNCHANGED <<closed, issued, installed, now, clientVars>>

Close ==
  /\ closed' = TRUE
  /\ entries' = <<>>
  /\ bytes' = 0
  /\ UNCHANGED <<issued, installed, now, clientVars>>

Next ==
  \/ RegistryChanges
  \/ Tick
  \/ Stats
  \/ Close
  \/ \E k \in Clients :
       \/ \E include \in Includes, limit \in Limits : Describe(k, include, limit)
       \/ Lookup(k)
       \/ FirstPageClosed(k)
       \/ FirstPageWhole(k)
       \/ FirstPageRefused(k)
       \/ FirstPageCached(k)
       \/ \E c \in {used[k], cursor[k]}, limit \in Limits : CursorPage(k, c, limit)

Spec == Init /\ [][Next]_vars
-----------------------------------------------------------------------------
(* Everything the client asked for, of the one generation it got.           *)
Wanted(k) ==
  {item \in Item : /\ item.record \in {got.record : got \in Range(gathered[k])}
                   /\ item.section \in Range(ask[k].include)
                   /\ item.id \in Contents[item.record][item.section]}

Before(a, b) ==
  LET place(s) == CHOOSE i \in 1 .. 3 : Sections[i] = s
  IN  \/ place(a.section) < place(b.section)
      \/ a.section = b.section /\ a.id < b.id

(* docs/ARCHITECTURE.md:1424-1432: whatever is reinstalled meanwhile and    *)
(* whichever cursor is sent twice, the pages a client has put together come *)
(* from one generation, ordered by section and ID, without a gap: they hold *)
(* all that lies before their cursor, and all there is without one.         *)
PagesTile ==
  \A k \in Clients : pc[k] = "paging" =>
    /\ Cardinality({item.record : item \in Range(gathered[k])}) <= 1
    /\ Range(gathered[k]) \subseteq Wanted(k)
    /\ \A i, j \in DOMAIN gathered[k] : i < j => Before(gathered[k][i], gathered[k][j])
    /\ \A wanted \in Wanted(k) \ Range(gathered[k]) :
         cursor[k] # None /\ \A got \in Range(gathered[k]) : Before(got, wanted)
    /\ gathered[k] # before[k] \/ Wanted(k) = {}

(* The byte count is the size of the cached projections, the quotas hold,   *)
(* and a closed store is empty and stays empty although calls that were     *)
(* admitted before are still on their way to firstPage.                     *)
AccountingExact ==
  /\ bytes = Total(EntryBytes, DOMAIN entries)
  /\ Cardinality(DOMAIN entries) <= MaxCount
  /\ bytes <= MaxBytes
  /\ closed => DOMAIN entries = {}

(* A cached projection can be paged: somebody was handed a cursor to it, so *)
(* every one that is refused or answered in full is given up at once.       *)
RetainedForSomeone == DOMAIN entries \subseteq handed

(* A cursor works for the idle time after the page it came with, up to the  *)
(* absolute lifetime, however often the store is swept: its projection is   *)
(* still there, the one the client was given the pages before from.         *)
CursorHonoured ==
  \A k \in Clients :
    /\ pc[k] = "paging" /\ cursor[k] # None /\ ~closed
    /\ now < served[k] + Idle /\ now < since[k] + Absolute
    => cursor[k].id \in DOMAIN entries /\ entries[cursor[k].id].projection = projection[k]

(* No page is served from an expired projection: not after an idle time     *)
(* without a page, and not after the absolute lifetime although every page  *)
(* renews the idle deadline.                                                *)
ServedWhileAlive ==
  [][\A k \in Clients :
       pc[k] = "paging" /\ pc'[k] = "paging"
         /\ <<served[k], gathered[k]>>' # <<served[k], gathered[k]>>
         => now < served[k] + Idle /\ now < since[k] + Absolute]_vars
===============================================================================
