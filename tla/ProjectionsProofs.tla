-------------------------- MODULE ProjectionsProofs --------------------------
(***************************************************************************)
(* Proofs about the describe service, for every number of clients, every   *)
(* content of a capability and every quota.                                *)
(***************************************************************************)
EXTENDS Projections, CountingProofs, SequenceTheorems

Projection == [1 .. 3 -> Seq(Item)]
Copy == [items : Seq(Item), remaining : Nat, offset : Nat]

(* q is what F has after its first off elements, as far as q goes.          *)
Matches(q, F, off) == \A i \in 1 .. Len(q) : q[i] = F[off + i]

(* What copySection has done once the sections before make up F.            *)
Copied(copy, F, off, lim) ==
  /\ copy \in Copy
  /\ Len(copy.items) + copy.remaining = lim
  /\ Matches(copy.items, F, off)
  /\ Len(copy.items) > 0 => off + Len(copy.items) <= Len(F)
  /\ copy.remaining > 0 /\ off >= Len(F) => copy.items = <<>> /\ copy.offset = off - Len(F)
  /\ copy.remaining > 0 /\ off < Len(F) =>
       copy.offset = 0 /\ off + Len(copy.items) = Len(F)

-----------------------------------------------------------------------------
(* Sums of two and of three numbers, for terms that are not plainly so.     *)
LEMMA NatSum ==
  ASSUME NEW a \in Nat, NEW b \in Nat
  PROVE  a + b \in Nat /\ 0 + a <= a /\ 0 + a <= a + b /\ a + b <= a + b
OBVIOUS

(* Arithmetic of the prefix lengths.                                        *)
LEMMA NatSums ==
  ASSUME NEW a \in Nat, NEW b \in Nat, NEW c \in Nat
  PROVE  a + b + c \in Nat /\ a + b + c - b = a + c
OBVIOUS

(* The elements of a concatenation.                                         *)
LEMMA Joined ==
  ASSUME NEW T, NEW s \in Seq(T), NEW t \in Seq(T)
  PROVE  /\ s \o t \in Seq(T)
         /\ Len(s \o t) = Len(s) + Len(t)
         /\ \A i \in 1 .. Len(s) : (s \o t)[i] = s[i]
         /\ \A i \in 1 .. Len(t) : (s \o t)[Len(s) + i] = t[i]
OBVIOUS

(* The elements of a part of a sequence.                                    *)
LEMMA Slice ==
  ASSUME NEW T, NEW s \in Seq(T), NEW a \in Nat, NEW b \in Nat, a <= b, b <= Len(s)
  PROVE  /\ SubSeq(s, a + 1, b) \in Seq(T)
         /\ Len(SubSeq(s, a + 1, b)) = b - a
         /\ \A i \in 1 .. b - a : SubSeq(s, a + 1, b)[i] = s[a + i]
<1>1. Len(s) \in Nat
  OBVIOUS
<1>2. SubSeq(s, a + 1, b) \in Seq(T)
  BY <1>1
<1>3. Len(SubSeq(s, a + 1, b)) = b - a
  BY <1>1
<1>4. \A i \in 1 .. b - a : SubSeq(s, a + 1, b)[i] = s[a + i]
  BY <1>1
<1> QED
  BY <1>2, <1>3, <1>4

(* A page that has q of the sections F goes on with s up to end.            *)
LEMMA CopyMore ==
  ASSUME NEW F \in Seq(Item), NEW s \in Seq(Item), NEW q \in Seq(Item),
         NEW off \in Nat, NEW cur \in Nat, NEW end \in Nat,
         cur < end, end <= Len(s), Len(F) + cur = off + Len(q),
         Len(q) > 0 => off + Len(q) <= Len(F), Matches(q, F, off)
  PROVE  /\ q \o SubSeq(s, cur + 1, end) \in Seq(Item)
         /\ Len(q \o SubSeq(s, cur + 1, end)) = Len(q) + (end - cur)
         /\ Matches(q \o SubSeq(s, cur + 1, end), F \o s, off)
<1> DEFINE more == SubSeq(s, cur + 1, end)
           r == q \o more
<1>1. Len(s) \in Nat /\ Len(F) \in Nat /\ Len(q) \in Nat
  OBVIOUS
<1>2. /\ more \in Seq(Item) /\ Len(more) = end - cur
      /\ \A i \in 1 .. end - cur : more[i] = s[cur + i]
  BY Slice
<1> HIDE DEF more
<1>3. /\ r \in Seq(Item) /\ Len(r) = Len(q) + Len(more)
      /\ \A i \in 1 .. Len(q) : r[i] = q[i]
      /\ \A i \in 1 .. Len(more) : r[Len(q) + i] = more[i]
  <2>1. more \in Seq(Item)
    BY <1>2
  <2> QED
    BY ONLY <2>1, q \in Seq(Item), Joined
<1> HIDE DEF r
<1>4. Len(r) = Len(q) + (end - cur)
  BY <1>2, <1>3
<1>5. /\ \A i \in 1 .. Len(F) : (F \o s)[i] = F[i]
      /\ \A i \in 1 .. Len(s) : (F \o s)[Len(F) + i] = s[i]
  BY Joined
<1>6. ASSUME NEW i \in 1 .. Len(r)  PROVE  r[i] = (F \o s)[off + i]
  <2>0. i \in Nat /\ 1 <= i /\ i <= Len(q) + (end - cur)
    BY <1>1, <1>4
  <2>1. CASE i <= Len(q)
    <3>1. i \in 1 .. Len(q) /\ off + i \in 1 .. Len(F)
      BY <1>1, <2>0, <2>1
    <3> QED
      BY <1>3, <1>5, <3>1 DEF Matches
  <2>2. CASE i > Len(q)
    <3> DEFINE j == i - Len(q)
    <3>1. j \in 1 .. end - cur /\ i = Len(q) + j
      BY <1>1, <2>0, <2>2
    <3> HIDE DEF j
    <3>4. j \in Nat /\ 1 <= j /\ j <= end - cur
      BY <3>1
    <3>5. off + i = off + Len(q) + j
      BY <1>1, <3>1, <3>4
    <3>6. off + i = Len(F) + cur + j
      BY <3>5
    <3>2. cur + j \in 1 .. Len(s) /\ off + i = Len(F) + (cur + j)
      BY <1>1, <3>4, <3>6
    <3>3. r[i] = s[cur + j]
      BY <1>2, <1>3, <3>1
    <3> QED
      BY <1>5, <3>2, <3>3
  <2> QED
    BY <1>1, <2>0, <2>1, <2>2
<1> QED
  BY <1>3, <1>4, <1>6 DEF r, more, Matches

(* copySection appends to the page what the next section adds to it.        *)
LEMMA CopyStep ==
  ASSUME NEW copy, NEW F \in Seq(Item), NEW s \in Seq(Item),
         NEW off \in Nat, NEW lim \in Nat, Copied(copy, F, off, lim)
  PROVE  Copied(CopySection(copy, s), F \o s, off, lim)
<1>0. /\ copy \in Copy /\ copy.items \in Seq(Item) /\ copy.remaining \in Nat
      /\ copy.offset \in Nat
  BY DEF Copied, Copy
<1> DEFINE q == copy.items
           rem == copy.remaining
           cur == copy.offset
           G == F \o s
<1>1. /\ Len(s) \in Nat /\ Len(F) \in Nat /\ Len(q) \in Nat
      /\ G \in Seq(Item) /\ Len(G) = Len(F) + Len(s)
  BY <1>0, Joined
<1>2. /\ Len(q) + rem = lim
      /\ Len(q) > 0 => off + Len(q) <= Len(F)
      /\ rem > 0 /\ off >= Len(F) => Len(q) = 0 /\ cur = off - Len(F)
      /\ rem > 0 /\ off < Len(F) => cur = 0 /\ off + Len(q) = Len(F)
  BY <1>0 DEF Copied
<1>3. Matches(q, F, off) /\ (rem > 0 /\ off >= Len(F) => q = <<>>)
  BY DEF Copied
<1>4. Matches(q, G, off)
  <2>1. \A i \in 1 .. Len(F) : G[i] = F[i]
    BY Joined
  <2> SUFFICES ASSUME NEW i \in 1 .. Len(q)  PROVE  q[i] = G[off + i]
    BY DEF Matches
  <2> HIDE DEF q, G
  <2>2. off + i \in 1 .. Len(F)
    BY <1>1, <1>2
  <2> QED
    BY <1>3, <2>1, <2>2 DEF Matches
<1> DEFINE Goal(r, m, o) ==
             /\ Len(r) + m = lim
             /\ Matches(r, G, off)
             /\ Len(r) > 0 => off + Len(r) <= Len(G)
             /\ m > 0 /\ off >= Len(G) => r = <<>> /\ o = off - Len(G)
             /\ m > 0 /\ off < Len(G) => o = 0 /\ off + Len(r) = Len(G)
<1>5. ASSUME NEW new \in Copy, Goal(new.items, new.remaining, new.offset)
      PROVE  Copied(new, G, off, lim)
  BY <1>5 DEF Copied
<1>6. CASE rem = 0
  <2>1. CopySection(copy, s) = copy
    BY <1>6 DEF CopySection
  <2>2. rem \in Nat /\ cur \in Nat /\ q \in Seq(Item)
    BY <1>0
  <2>3. Goal(q, rem, cur)
    <3> HIDE DEF q, rem, cur, G
    <3> QED  BY <1>1, <1>2, <1>4, <1>6, <2>2
  <2> QED
    BY <1>0, <1>5, <2>1, <2>3
<1>7. CASE rem # 0 /\ cur >= Len(s)
  <2> DEFINE new == [copy EXCEPT !.offset = @ - Len(s)]
  <2>1. CopySection(copy, s) = new
    BY <1>7 DEF CopySection
  <2>2. new \in Copy /\ new.items = q /\ new.remaining = rem /\ new.offset = cur - Len(s)
    BY <1>0, <1>1, <1>7 DEF Copy
  <2>3. rem \in Nat /\ cur \in Nat /\ q \in Seq(Item)
    BY <1>0
  <2>4. Goal(q, rem, cur - Len(s))
    <3> HIDE DEF q, rem, cur, G
    <3>1. rem > 0 /\ off >= Len(G) => q = <<>> /\ cur - Len(s) = off - Len(G)
      BY <1>1, <1>2, <1>3, <2>3
    <3>2. rem > 0 /\ off < Len(G) => cur - Len(s) = 0 /\ off + Len(q) = Len(G)
      <4>1. CASE off >= Len(F)
        <5>1. cur = off - Len(F)
          BY <1>2, <1>7, <2>3, <4>1
        <5>2. cur >= Len(s)
          BY <1>7
        <5>3. off >= Len(G)
          BY <1>1, <5>1, <5>2
        <5> QED
          BY <1>1, <5>3
      <4>2. CASE off < Len(F)
        <5>1. cur = 0 /\ off + Len(q) = Len(F)
          BY <1>2, <1>7, <2>3, <4>2
        <5>2. Len(s) = 0
          BY <1>1, <1>7, <5>1
        <5> QED
          BY <1>1, <5>1, <5>2
      <4> QED
        BY <1>1, <4>1, <4>2
    <3>3. Len(q) > 0 => off + Len(q) <= Len(G)
      BY <1>1, <1>2
    <3> QED
      BY <1>2, <1>4, <3>1, <3>2, <3>3
  <2> HIDE DEF new, Goal
  <2> QED
    BY <1>5, <2>1, <2>2, <2>4
<1>8. CASE rem # 0 /\ cur < Len(s)
  <2> DEFINE end == IF cur + rem > Len(s) THEN Len(s) ELSE cur + rem
             r == q \o SubSeq(s, cur + 1, end)
             m == rem - (end - cur)
             new == [items |-> r, remaining |-> m, offset |-> 0]
  <2>1. CopySection(copy, s) = new
    BY <1>0, <1>1, <1>8 DEF CopySection
  <2>2. rem \in Nat /\ cur \in Nat /\ q \in Seq(Item)
    BY <1>0
  <2> HIDE DEF q, rem, cur, G, Goal
  <2>3. /\ end \in Nat /\ cur < end /\ end <= Len(s) /\ end <= cur + rem
        /\ end < Len(s) => end = cur + rem
    BY <1>1, <1>8, <2>2
  <2> HIDE DEF end
  <2>4. Len(F) + cur = off + Len(q)
    <3>1. rem > 0
      BY <1>8, <2>2
    <3>2. CASE off >= Len(F)
      <4>1. Len(q) = 0 /\ cur = off - Len(F)
        BY <1>2, <3>1, <3>2
      <4> QED
        BY <1>1, <4>1
    <3>3. CASE off < Len(F)
      <4>1. cur = 0 /\ off + Len(q) = Len(F)
        BY <1>2, <3>1, <3>3
      <4> QED
        BY <1>1, <4>1
    <3> QED
      BY <1>1, <3>2, <3>3
  <2>5. r \in Seq(Item) /\ Len(r) = Len(q) + (end - cur) /\ Matches(r, G, off)
    BY <1>2, <1>3, <2>2, <2>3, <2>4, CopyMore DEF G
  <2> HIDE DEF r
  <2>6. m \in Nat
    BY <2>2, <2>3
  <2>7. new.items = r /\ new.remaining = m /\ new.offset = 0 /\ new \in Copy
    BY <2>5, <2>6 DEF Copy
  <2> HIDE DEF new
  <2>8. off + Len(r) = Len(F) + end /\ Len(r) \in Nat /\ Len(r) + m = lim
    <3>1. Len(r) = Len(q) + (end - cur)
      BY <2>5
    <3>2. Len(r) \in Nat
      BY <2>5
    <3>3. off + Len(r) = off + Len(q) + end - cur
      BY <1>1, <2>2, <2>3, <3>1
    <3>4. off + Len(r) = Len(F) + end
      <4>1. off + Len(r) = Len(F) + cur + end - cur
        BY <2>4, <3>3
      <4>2. Len(F) \in Nat /\ cur \in Nat /\ end \in Nat /\ off + Len(r) \in Nat
        BY <1>1, <2>2, <2>3, <3>2
      <4> QED
        BY <4>1, <4>2, NatSums, Zenon
    <3>5. Len(r) + m = Len(q) + rem
      BY <1>1, <2>2, <2>3, <3>1
    <3>6. Len(q) + rem = lim
      BY <1>2
    <3> QED
      BY <3>2, <3>4, <3>5, <3>6
  <2>9. /\ off + Len(r) <= Len(G)
        /\ off < Len(G)
        /\ m > 0 => off + Len(r) = Len(G)
    <3>1. off < Len(F) + Len(s)
      BY <1>1, <2>2, <2>3, <2>4
    <3>2. Len(F) + end <= Len(F) + Len(s)
      BY <1>1, <2>3
    <3>3. m > 0 => end = Len(s)
      BY <1>1, <2>2, <2>3
    <3> QED
      BY <1>1, <2>8, <3>1, <3>2, <3>3
  <2> HIDE DEF m
  <2>10. Goal(r, m, 0)
    BY <1>1, <2>5, <2>6, <2>8, <2>9 DEF Goal
  <2> QED
    BY <1>5, <2>1, <2>7, <2>10 DEF G
<1> QED
  BY <1>0, <1>1, <1>6, <1>7, <1>8

(* The sections of a projection joined: a sequence of as many items as      *)
(* pageProjection counts.                                                   *)
LEMMA FlatJoined ==
  ASSUME NEW p \in Projection
  PROVE  /\ Flat(p) \in Seq(Item)
         /\ Len(Flat(p)) = ItemCount(p)
         /\ ItemCount(p) \in Nat
<1>1. p[1] \in Seq(Item) /\ p[2] \in Seq(Item) /\ p[3] \in Seq(Item)
  BY DEF Projection
<1>2. p[1] \o p[2] \in Seq(Item) /\ Len(p[1] \o p[2]) = Len(p[1]) + Len(p[2])
  BY <1>1
<1>3. /\ (p[1] \o p[2]) \o p[3] \in Seq(Item)
      /\ Len((p[1] \o p[2]) \o p[3]) = Len(p[1] \o p[2]) + Len(p[3])
  BY <1>1, <1>2
<1>4. Len(p[1]) \in Nat /\ Len(p[2]) \in Nat /\ Len(p[3]) \in Nat
  BY <1>1
<1>5. Len((p[1] \o p[2]) \o p[3]) = Len(p[1]) + Len(p[2]) + Len(p[3])
  BY <1>2, <1>3
<1>6. Len(p[1]) + Len(p[2]) + Len(p[3]) \in Nat
  BY <1>4, NatSums, Zenon
<1> QED
  BY <1>3, <1>5, <1>6 DEF Flat, ItemCount

(* A page of n items that lies inside the projection has the n items after  *)
(* the offset.                                                              *)
LEMMA PageOf ==
  ASSUME NEW p \in Projection, NEW off \in Nat, NEW n \in Nat,
         off + n <= ItemCount(p), NEW next
  PROVE  /\ PageProjection(p, off, n, next).next = next
         /\ PageProjection(p, off, n, next).items \in Seq(Item)
         /\ Len(PageProjection(p, off, n, next).items) = n
         /\ Matches(PageProjection(p, off, n, next).items, Flat(p), off)
<1> DEFINE zero == [items |-> <<>>, remaining |-> n, offset |-> off]
           one == CopySection(zero, p[1])
           two == CopySection(one, p[2])
           three == CopySection(two, p[3])
<1>1. p[1] \in Seq(Item) /\ p[2] \in Seq(Item) /\ p[3] \in Seq(Item)
  BY DEF Projection
<1>2. Copied(zero, <<>>, off, n)
  <2>1. <<>> \in Seq(Item) /\ Len(<<>>) = 0
    OBVIOUS
  <2>2. Matches(<<>>, <<>>, off)
    BY <2>1 DEF Matches
  <2> QED
    BY <2>1, <2>2 DEF Copied, Copy
<1>3. PageProjection(p, off, n, next) = [items |-> three.items, next |-> next]
  BY DEF PageProjection
<1> HIDE DEF zero, one, two, three
<1>4. <<>> \o p[1] = p[1] /\ <<>> \in Seq(Item)
  BY <1>1
<1>5. Copied(one, p[1], off, n)
  BY <1>1, <1>2, <1>4, CopyStep DEF one
<1>6. p[1] \o p[2] \in Seq(Item)
  BY <1>1
<1>7. Copied(two, p[1] \o p[2], off, n)
  BY <1>1, <1>5, CopyStep DEF two
<1>8. Copied(three, Flat(p), off, n)
  BY <1>1, <1>6, <1>7, CopyStep DEF three, Flat
<1>9. /\ three \in Copy /\ Matches(three.items, Flat(p), off)
      /\ Len(three.items) + three.remaining = n
      /\ three.remaining > 0 /\ off >= Len(Flat(p)) => three.items = <<>>
      /\ three.remaining > 0 /\ off < Len(Flat(p)) => off + Len(three.items) = Len(Flat(p))
  BY <1>8 DEF Copied
<1>10. three.items \in Seq(Item) /\ three.remaining \in Nat /\ Len(three.items) \in Nat
  BY <1>9 DEF Copy
<1>11. /\ Len(Flat(p)) = ItemCount(p) /\ ItemCount(p) \in Nat
       /\ three.items = <<>> => Len(three.items) = 0
  BY FlatJoined
<1>12. three.remaining = 0
  BY <1>9, <1>10, <1>11
<1>13. Len(three.items) = n
  BY <1>9, <1>10, <1>12
<1> QED
  BY <1>3, <1>9, <1>10, <1>13

(* What a client may rely on of a page: it is not empty, has the items      *)
(* after the offset, and comes with a cursor to the place behind it unless  *)
(* it is the last.                                                          *)
GoodPage(page, p, off, limit, id) ==
  /\ page.items \in Seq(Item) /\ Len(page.items) > 0
  /\ off + Len(page.items) <= ItemCount(p)
  /\ Matches(page.items, Flat(p), off)
  /\ off + Len(page.items) = ItemCount(p) => page.next = None
  /\ off + Len(page.items) < ItemCount(p) =>
       page.next = [id |-> id, offset |-> off + Len(page.items), limit |-> limit]

(* boundedPage: a page is the next items, as many as fit, with a cursor if  *)
(* items are left.                                                          *)
LEMMA BoundedPageGood ==
  ASSUME NEW p \in Projection, NEW off \in Nat, off <= ItemCount(p), NEW limit \in Nat,
         NEW id, NEW page \in BoundedPages(p, off, limit, id)
  PROVE  GoodPage(page, p, off, limit, id)
<1> DEFINE count == ItemCount(p)
           most == IF limit > count - off THEN count - off ELSE limit
           next(n) == IF off + n < count
                      THEN [id |-> id, offset |-> off + n, limit |-> limit] ELSE None
<1>1. PICK n \in 1 .. most : page = PageProjection(p, off, n, next(n))
  BY DEF BoundedPages
<1>2. count \in Nat
  BY FlatJoined
<1>3. n \in Nat /\ n > 0 /\ off + n <= count
  BY <1>1, <1>2
<1>4. /\ page.next = next(n) /\ page.items \in Seq(Item) /\ Len(page.items) = n
      /\ Matches(page.items, Flat(p), off)
  <2> HIDE DEF next
  <2> QED  BY <1>1, <1>3, PageOf
<1> QED
  BY <1>2, <1>3, <1>4 DEF GoodPage

(* All pages that BoundedPages offers are the same one.                     *)
LEMMA OneBoundedPage ==
  ASSUME NEW p \in Projection, NEW off \in Nat, off <= ItemCount(p), NEW limit \in Nat,
         NEW id, NEW a \in BoundedPages(p, off, limit, id),
         NEW b \in BoundedPages(p, off, limit, id)
  PROVE  a = b
<1> DEFINE count == ItemCount(p)
           most == IF limit > count - off THEN count - off ELSE limit
           page(n) == PageProjection(p, off, n,
                        IF off + n < count
                        THEN [id |-> id, offset |-> off + n, limit |-> limit] ELSE None)
           fitting == {n \in 1 .. most : Fits(page(n))}
<1>1. PICK n \in fitting : a = page(n) /\ \A o \in fitting : o <= n
  BY DEF BoundedPages
<1>2. PICK m \in fitting : b = page(m) /\ \A o \in fitting : o <= m
  BY DEF BoundedPages
<1>3. n <= m /\ m <= n /\ n \in Int /\ m \in Int
  <2> HIDE DEF page
  <2>1. n \in 1 .. most /\ m \in 1 .. most
    OBVIOUS
  <2> HIDE DEF fitting, most
  <2> QED  BY <1>1, <1>2, <2>1
<1>4. n = m
  BY <1>3
<1> QED
  BY <1>1, <1>2, <1>4, Zenon

-----------------------------------------------------------------------------
(* The sections in the order in which they are served.                      *)
LEMMA SectionNames ==
  /\ Sections[1] = "skills" /\ Sections[2] = "operations" /\ Sections[3] = "references"
  /\ Range(Sections) = {"skills", "operations", "references"}
  /\ \A i \in 1 .. 3 : Sections[i] \in Range(Sections)
<1>1. DOMAIN Sections = 1 .. 3
  BY DEF Sections
<1>2. Sections[1] = "skills" /\ Sections[2] = "operations" /\ Sections[3] = "references"
  BY DEF Sections
<1> QED
  BY <1>1, <1>2 DEF Range

(* A section of a package is a finite set of items.                         *)
LEMMA ContentsFinite ==
  ASSUME NEW r \in Records, NEW s \in Range(Sections)
  PROVE  /\ Contents[r][s] \subseteq DOMAIN ItemBytes
         /\ Contents[r][s] \subseteq Nat
         /\ IsFiniteSet(Contents[r][s])
         /\ Cardinality(Contents[r][s]) \in Nat
<1>1. Contents[r][s] \subseteq DOMAIN ItemBytes
  BY ProjectionsAssumption
<1>2. DOMAIN ItemBytes \subseteq Nat /\ IsFiniteSet(DOMAIN ItemBytes)
  BY ProjectionsAssumption
<1>3. IsFiniteSet(Contents[r][s])
  BY <1>1, <1>2, FS_Subset
<1> QED
  BY <1>1, <1>2, <1>3, FS_CardinalityType

(* A section of a projection lists the contents in ascending order.         *)
SectionOK(q, r, s) ==
  /\ q \in Seq(Item)
  /\ \A i \in 1 .. Len(q) :
       q[i].record = r /\ q[i].section = s /\ q[i].id \in Contents[r][s] /\ q[i] \in Item
  /\ \A i, j \in 1 .. Len(q) : i < j => q[i].id < q[j].id
SectionFull(q, r, s) ==
  \A x \in Contents[r][s] : [record |-> r, section |-> s, id |-> x] \in Range(q)

(* A section lists the items of the package in order, all of them.          *)
LEMMA SectionSorted ==
  ASSUME NEW r \in Records, NEW s \in Range(Sections)
  PROVE  SectionOK(Section(r, s), r, s) /\ SectionFull(Section(r, s), r, s)
<1> DEFINE C == Contents[r][s]
           n == Cardinality(C)
           q == Section(r, s)
           item(x) == [record |-> r, section |-> s, id |-> x]
<1>1. C \subseteq DOMAIN ItemBytes /\ C \subseteq Nat /\ IsFiniteSet(C) /\ n \in Nat
  BY ContentsFinite
<1>2. /\ \A i \in 1 .. n : Sorted(C)[i] \in C
      /\ \A i, j \in 1 .. n : i < j => Sorted(C)[i] < Sorted(C)[j]
      /\ \A x \in C : \E i \in 1 .. n : Sorted(C)[i] = x
  <2> HIDE DEF C
  <2> QED  BY <1>1, SortedSet, Zenon
<1>3. q = [i \in 1 .. n |-> item(Sorted(C)[i])]
  BY DEF Section
<1>4. \A x \in C : item(x) \in Item
  BY <1>1 DEF Item
<1> HIDE DEF C, n, q
<1>5. q \in Seq(Item) /\ Len(q) = n /\ DOMAIN q = 1 .. n
  <2>1. q \in [1 .. n -> Item]
    BY <1>2, <1>3, <1>4
  <2> QED
    BY <1>1, <2>1
<1>6. \A i \in 1 .. n : q[i] = item(Sorted(C)[i])
  BY <1>3
<1>7. SectionOK(q, r, s)
  <2>1. \A i \in 1 .. n : q[i].record = r /\ q[i].section = s /\ q[i].id = Sorted(C)[i]
    <3> TAKE i \in 1 .. n
    <3>1. q[i] = [record |-> r, section |-> s, id |-> Sorted(C)[i]]
      BY <1>6
    <3> QED
      BY <3>1
  <2>2. \A i \in 1 .. n : q[i].id \in C /\ q[i] \in Item
    BY <1>2, <1>4, <1>6, <2>1
  <2>3. \A i, j \in 1 .. n : i < j => q[i].id < q[j].id
    BY <1>2, <2>1
  <2> QED
    BY <1>5, <2>1, <2>2, <2>3 DEF SectionOK, C
<1>8. SectionFull(q, r, s)
  <2>1. ASSUME NEW x \in C PROVE item(x) \in Range(q)
    <3>1. PICK i \in 1 .. n : Sorted(C)[i] = x
      BY <1>2
    <3>2. q[i] = item(x) /\ i \in DOMAIN q
      BY <1>5, <1>6, <3>1
    <3> QED
      BY <3>2, Zenon DEF Range
  <2> QED
    BY <2>1 DEF SectionFull, C
<1> QED
  BY <1>7, <1>8 DEF q

(* BuildProjection: the sections that were asked for are full, the others   *)
(* empty.                                                                   *)
LEMMA Built ==
  ASSUME NEW r \in Records, NEW include
  PROVE  /\ BuildProjection(r, include) \in Projection
         /\ \A m \in 1 .. 3 :
              /\ SectionOK(BuildProjection(r, include)[m], r, Sections[m])
              /\ Sections[m] \notin Range(include) => BuildProjection(r, include)[m] = <<>>
              /\ Sections[m] \in Range(include) =>
                   SectionFull(BuildProjection(r, include)[m], r, Sections[m])
<1> DEFINE p == BuildProjection(r, include)
<1>1. ASSUME NEW m \in 1 .. 3
      PROVE  /\ SectionOK(p[m], r, Sections[m])
             /\ Sections[m] \notin Range(include) => p[m] = <<>>
             /\ Sections[m] \in Range(include) => SectionFull(p[m], r, Sections[m])
  <2>1. Sections[m] \in Range(Sections)
    BY SectionNames
  <2>2. CASE Sections[m] \in Range(include)
    <3>1. p[m] = Section(r, Sections[m])
      BY <2>2 DEF BuildProjection
    <3> QED
      BY <2>1, <2>2, <3>1, SectionSorted
  <2>3. CASE Sections[m] \notin Range(include)
    <3>1. p[m] = <<>>
      BY <2>3 DEF BuildProjection
    <3>2. <<>> \in Seq(Item) /\ Len(<<>>) = 0
      OBVIOUS
    <3> QED
      BY <2>3, <3>1, <3>2 DEF SectionOK
  <2> QED
    BY <2>2, <2>3
<1>2. p \in Projection
  <2>1. \A m \in 1 .. 3 : p[m] \in Seq(Item)
    BY <1>1 DEF SectionOK
  <2>2. p = [m \in 1 .. 3 |-> p[m]]
    BY DEF BuildProjection
  <2> HIDE DEF p
  <2> QED
    BY <2>1, <2>2 DEF Projection
<1> QED
  BY <1>1, <1>2

(* Where section m begins in the whole projection.                          *)
Start(p, m) == IF m = 1 THEN 0 ELSE IF m = 2 THEN Len(p[1]) ELSE Len(p[1]) + Len(p[2])

(* Where an item of a section stands in the joined list, and that nothing   *)
(* else stands there.                                                       *)
LEMMA FlatElements ==
  ASSUME NEW p \in Projection
  PROVE  /\ \A m \in 1 .. 3 : \A e \in 1 .. Len(p[m]) :
              Start(p, m) + e \in 1 .. Len(Flat(p)) /\ Flat(p)[Start(p, m) + e] = p[m][e]
         /\ \A i \in 1 .. Len(Flat(p)) :
              \E m \in 1 .. 3 : \E e \in 1 .. Len(p[m]) : i = Start(p, m) + e
<1> DEFINE a == p[1]
           b == p[2]
           c == p[3]
<1>1. a \in Seq(Item) /\ b \in Seq(Item) /\ c \in Seq(Item)
  BY DEF Projection
<1>2. Len(a) \in Nat /\ Len(b) \in Nat /\ Len(c) \in Nat
  BY <1>1
<1>3. Flat(p) = (a \o b) \o c
  BY DEF Flat
<1> HIDE DEF a, b, c
<1>4. /\ a \o b \in Seq(Item) /\ Len(a \o b) = Len(a) + Len(b)
      /\ \A i \in 1 .. Len(a) : (a \o b)[i] = a[i]
      /\ \A i \in 1 .. Len(b) : (a \o b)[Len(a) + i] = b[i]
  BY <1>1, Joined
<1>5. /\ Len(Flat(p)) = Len(a \o b) + Len(c)
      /\ \A i \in 1 .. Len(a \o b) : Flat(p)[i] = (a \o b)[i]
      /\ \A i \in 1 .. Len(c) : Flat(p)[Len(a \o b) + i] = c[i]
  BY <1>1, <1>3, <1>4, Joined
<1>6. Len(Flat(p)) = Len(a) + Len(b) + Len(c) /\ Len(Flat(p)) \in Nat
  BY <1>2, <1>4, <1>5, NatSums
<1>7. ASSUME NEW e \in 1 .. Len(a)
      PROVE  0 + e \in 1 .. Len(Flat(p)) /\ Flat(p)[0 + e] = a[e]
  <2>1. e \in Nat /\ 0 + e = e /\ e \in 1 .. Len(a) + Len(b) /\ e \in 1 .. Len(Flat(p))
    BY <1>2, <1>6
  <2> QED
    BY <1>4, <1>5, <2>1
<1>8. ASSUME NEW e \in 1 .. Len(b)
      PROVE  Len(a) + e \in 1 .. Len(Flat(p)) /\ Flat(p)[Len(a) + e] = b[e]
  <2>1. Len(a) + e \in 1 .. Len(a) + Len(b) /\ Len(a) + e \in 1 .. Len(Flat(p))
    BY <1>2, <1>6
  <2> QED
    BY <1>4, <1>5, <2>1
<1>9. ASSUME NEW e \in 1 .. Len(c)
      PROVE  /\ Len(a) + Len(b) + e \in 1 .. Len(Flat(p))
             /\ Flat(p)[Len(a) + Len(b) + e] = c[e]
  <2>1. Len(a) + Len(b) + e \in 1 .. Len(Flat(p))
    BY <1>2, <1>6
  <2> QED
    BY <1>4, <1>5, <2>1
<1>10. Start(p, 1) = 0 /\ Start(p, 2) = Len(a) /\ Start(p, 3) = Len(a) + Len(b)
  BY DEF Start, a, b
<1>11. ASSUME NEW m \in 1 .. 3, NEW e \in 1 .. Len(p[m])
       PROVE  Start(p, m) + e \in 1 .. Len(Flat(p)) /\ Flat(p)[Start(p, m) + e] = p[m][e]
  <2>1. CASE m = 1
    BY <1>7, <1>10, <2>1 DEF a
  <2>2. CASE m = 2
    BY <1>8, <1>10, <2>2 DEF b
  <2>3. CASE m = 3
    BY <1>9, <1>10, <2>3 DEF c
  <2> QED
    BY <2>1, <2>2, <2>3
<1>12. ASSUME NEW i \in 1 .. Len(Flat(p))
       PROVE  \E m \in 1 .. 3 : \E e \in 1 .. Len(p[m]) : i = Start(p, m) + e
  <2>0. i \in Nat /\ 1 <= i /\ i <= Len(a) + Len(b) + Len(c)
    BY <1>6
  <2>1. CASE i <= Len(a)
    <3>1. i \in 1 .. Len(p[1]) /\ i = Start(p, 1) + i
      BY <1>2, <1>10, <2>0, <2>1 DEF a
    <3> QED
      BY <3>1
  <2>2. CASE i > Len(a) /\ i <= Len(a) + Len(b)
    <3>1. i - Len(a) \in 1 .. Len(b) /\ i = Len(a) + (i - Len(a))
      BY <1>2, <2>0, <2>2
    <3>2. i - Len(a) \in 1 .. Len(p[2]) /\ i = Start(p, 2) + (i - Len(a))
      BY <1>10, <3>1 DEF b
    <3> QED
      BY <3>2
  <2>3. CASE i > Len(a) + Len(b)
    <3> DEFINE e == i - (Len(a) + Len(b))
    <3>0. Len(a) + Len(b) \in Nat
      BY <1>2
    <3>1. e \in 1 .. Len(c) /\ i = Len(a) + Len(b) + e
      BY <1>2, <2>0, <2>3, <3>0
    <3> HIDE DEF e
    <3>2. e \in 1 .. Len(p[3]) /\ i = Start(p, 3) + e
      BY <1>10, <3>1 DEF c
    <3> QED
      BY <3>2
  <2> QED
    BY <1>2, <2>0, <2>1, <2>2, <2>3
<1> QED
  BY <1>11, <1>12

(* F lists what was asked for of one generation, by section and ID.         *)
Ordered(F) == \A i, j \in 1 .. Len(F) : i < j => Before(F[i], F[j])
OfGeneration(F, r, include) ==
  \A i \in 1 .. Len(F) :
    /\ F[i].record = r /\ F[i].section \in Range(include)
    /\ F[i].id \in Contents[r][F[i].section]
    /\ F[i] = [record |-> r, section |-> F[i].section, id |-> F[i].id]
Full(F, r, include) ==
  \A s \in Range(include) : \A x \in Contents[r][s] :
    [record |-> r, section |-> s, id |-> x] \in Range(F)

(* An item of an earlier section comes before one of a later section.       *)
LEMMA BeforeByPlace ==
  ASSUME NEW m \in 1 .. 3, NEW n \in 1 .. 3, m < n, NEW a, NEW b,
         a.section = Sections[m], b.section = Sections[n]
  PROVE  Before(a, b)
<1> DEFINE place(s) == CHOOSE i \in 1 .. 3 : Sections[i] = s
<1>1. ASSUME NEW k \in 1 .. 3  PROVE  place(Sections[k]) = k
  <2>1. \A i \in 1 .. 3 : Sections[i] = Sections[k] => i = k
    BY SectionNames
  <2> QED
    BY <2>1
<1>3. place(a.section) = m /\ place(b.section) = n
  <2> HIDE DEF place
  <2> QED  BY <1>1
<1>2. place(a.section) < place(b.section)
  <2> HIDE DEF place
  <2> QED  BY <1>3
<1> QED
  BY <1>2 DEF Before

(* What a client is to receive: the items of the generation in order, each  *)
(* once, all that it asked for.                                             *)
LEMMA FlatOfBuilt ==
  ASSUME NEW r \in Records, NEW include, Range(include) \subseteq Range(Sections)
  PROVE  /\ Ordered(Flat(BuildProjection(r, include)))
         /\ OfGeneration(Flat(BuildProjection(r, include)), r, include)
         /\ Full(Flat(BuildProjection(r, include)), r, include)
<1> DEFINE p == BuildProjection(r, include)
           F == Flat(p)
<1>1. /\ p \in Projection
      /\ \A m \in 1 .. 3 : /\ SectionOK(p[m], r, Sections[m])
                           /\ Sections[m] \notin Range(include) => p[m] = <<>>
                           /\ Sections[m] \in Range(include) => SectionFull(p[m], r, Sections[m])
  BY Built, Zenon
<1> HIDE DEF p
<1>2. /\ \A m \in 1 .. 3 : \A e \in 1 .. Len(p[m]) :
           Start(p, m) + e \in 1 .. Len(F) /\ F[Start(p, m) + e] = p[m][e]
      /\ \A i \in 1 .. Len(F) : \E m \in 1 .. 3 : \E e \in 1 .. Len(p[m]) : i = Start(p, m) + e
  BY <1>1, FlatElements, Zenon
<1>3. F \in Seq(Item)
  BY <1>1, FlatJoined
<1> HIDE DEF F
<1>4. ASSUME NEW m \in 1 .. 3
      PROVE  /\ p[m] \in Seq(Item) /\ Len(p[m]) \in Nat /\ Start(p, m) \in Nat
             /\ DOMAIN p[m] = 1 .. Len(p[m])
  <2>1. p[m] \in Seq(Item)
    BY <1>1 DEF SectionOK
  <2>2. Len(p[1]) \in Nat /\ Len(p[2]) \in Nat
    BY <1>1 DEF Projection
  <2>3. Len(p[1]) + Len(p[2]) \in Nat
    BY <2>2, NatSum, Zenon
  <2>4. Start(p, m) \in Nat
    BY <2>2, <2>3 DEF Start
  <2> QED
    BY <2>1, <2>4
<1>5. ASSUME NEW m \in 1 .. 3, NEW n \in 1 .. 3, m < n
      PROVE  Start(p, m) + Len(p[m]) <= Start(p, n)
  <2>1. Len(p[1]) \in Nat /\ Len(p[2]) \in Nat
    BY <1>4
  <2>2. \/ m = 1 /\ n = 2
        \/ m = 1 /\ n = 3
        \/ m = 2 /\ n = 3
    BY <1>5
  <2>3. /\ Start(p, 1) = 0 /\ Start(p, 2) = Len(p[1])
        /\ Start(p, 3) = Len(p[1]) + Len(p[2])
    BY DEF Start
  <2>4. /\ 0 + Len(p[1]) <= Len(p[1])
        /\ 0 + Len(p[1]) <= Len(p[1]) + Len(p[2])
        /\ Len(p[1]) + Len(p[2]) <= Len(p[1]) + Len(p[2])
    BY <2>1, NatSum, Zenon
  <2> QED
    BY <2>2, <2>3, <2>4
<1>6. OfGeneration(F, r, include)
  <2> SUFFICES ASSUME NEW i \in 1 .. Len(F)
               PROVE  /\ F[i].record = r /\ F[i].section \in Range(include)
                      /\ F[i].id \in Contents[r][F[i].section]
                      /\ F[i] = [record |-> r, section |-> F[i].section, id |-> F[i].id]
    BY DEF OfGeneration
  <2>1. PICK m \in 1 .. 3 : \E e \in 1 .. Len(p[m]) : i = Start(p, m) + e
    BY <1>2
  <2>2. PICK e \in 1 .. Len(p[m]) : i = Start(p, m) + e
    BY <2>1
  <2>3. F[i] = p[m][e]
    BY <1>2, <2>2
  <2>4. Sections[m] \in Range(include)
    <3>1. p[m] # <<>>
      BY <2>2
    <3> QED
      BY <1>1, <3>1
  <2>5. /\ F[i].record = r /\ F[i].section = Sections[m]
        /\ F[i].id \in Contents[r][Sections[m]] /\ F[i] \in Item
    BY <1>1, <2>2, <2>3 DEF SectionOK
  <2>6. F[i] = [record |-> F[i].record, section |-> F[i].section, id |-> F[i].id]
    BY <2>5 DEF Item
  <2> QED
    BY <2>4, <2>5, <2>6
<1>7. Full(F, r, include)
  <2> SUFFICES ASSUME NEW s \in Range(include), NEW x \in Contents[r][s]
               PROVE  [record |-> r, section |-> s, id |-> x] \in Range(F)
    BY DEF Full
  <2>1. PICK m \in 1 .. 3 : Sections[m] = s
    BY SectionNames
  <2>2. [record |-> r, section |-> s, id |-> x] \in Range(p[m])
    BY <1>1, <2>1 DEF SectionFull
  <2>3. PICK e \in 1 .. Len(p[m]) : p[m][e] = [record |-> r, section |-> s, id |-> x]
    BY <1>4, <2>2 DEF Range
  <2>4. Start(p, m) + e \in DOMAIN F /\ F[Start(p, m) + e] = p[m][e]
    BY <1>2, <1>3
  <2> QED
    BY <2>3, <2>4 DEF Range
<1>8. Ordered(F)
  <2> SUFFICES ASSUME NEW i \in 1 .. Len(F), NEW j \in 1 .. Len(F), i < j
               PROVE  Before(F[i], F[j])
    BY DEF Ordered
  <2>1. PICK m \in 1 .. 3 : \E e \in 1 .. Len(p[m]) : i = Start(p, m) + e
    BY <1>2
  <2>2. PICK e \in 1 .. Len(p[m]) : i = Start(p, m) + e
    BY <2>1
  <2>3. PICK n \in 1 .. 3 : \E e2 \in 1 .. Len(p[n]) : j = Start(p, n) + e2
    BY <1>2
  <2>4. PICK f \in 1 .. Len(p[n]) : j = Start(p, n) + f
    BY <2>3
  <2>5. F[i] = p[m][e] /\ F[j] = p[n][f]
    BY <1>2, <2>2, <2>4
  <2>6. F[i].section = Sections[m] /\ F[j].section = Sections[n]
    BY <1>1, <2>5 DEF SectionOK
  <2>7. /\ Start(p, m) \in Nat /\ Start(p, n) \in Nat /\ e \in Nat /\ f \in Nat /\ e >= 1
        /\ Len(p[n]) \in Nat /\ f <= Len(p[n])
    BY <1>4
  <2>8. CASE m < n
    BY <2>6, <2>8, BeforeByPlace
  <2>9. CASE m = n
    <3>1. e < f
      BY <2>2, <2>4, <2>7, <2>9
    <3>2. F[i].id < F[j].id
      BY <1>1, <2>5, <2>9, <3>1 DEF SectionOK
    <3> QED
      BY <2>6, <2>9, <3>2 DEF Before
  <2>10. CASE n < m
    <3>1. Start(p, n) + Len(p[n]) <= Start(p, m)
      BY <1>5, <2>10
    <3>2. j <= i
      BY <2>2, <2>4, <2>7, <3>1
    <3> QED
      BY <2>2, <2>4, <2>7, <3>2
  <2> QED
    BY <2>8, <2>9, <2>10
<1> QED
  BY <1>6, <1>7, <1>8 DEF F, p

-----------------------------------------------------------------------------
(***************************************************************************)
(* The inductive invariant.  The properties of a client's pages and cursor  *)
(* hold because its cursors point into an entry that has the projection its *)
(* pages were cut from and the times they were served at, as long as the    *)
(* entry is there, and because no two clients share an entry.               *)
(***************************************************************************)
Entry == [projection : Projection, created : Nat, idleUntil : Nat]

Shapes ==
  /\ DOMAIN pc = Clients /\ DOMAIN ask = Clients /\ DOMAIN projection = Clients
  /\ DOMAIN before = Clients /\ DOMAIN gathered = Clients /\ DOMAIN used = Clients
  /\ DOMAIN cursor = Clients /\ DOMAIN since = Clients /\ DOMAIN served = Clients
  /\ DOMAIN result = Clients
  /\ installed \in Records \cup {None}
  /\ now \in Nat /\ issued \in Nat /\ closed \in BOOLEAN

(* The requests that are on their way, and what was built for them.         *)
Request(k) ==
  /\ pc[k] \in {"admitted", "built", "paging"} =>
       ValidInclude(ask[k].include) /\ ask[k].limit \in Nat
  /\ pc[k] \in {"built", "paging"} =>
       \E r \in Records : projection[k] = BuildProjection(r, ask[k].include)

(* What the store holds.                                                    *)
Store ==
  /\ DOMAIN entries \subseteq 1 .. issued
  /\ \A i \in DOMAIN entries : entries[i] \in Entry

(* The pages of client k are a beginning of its projection, and its cursors *)
(* tell how long a beginning.                                               *)
Prefix(k) ==
  /\ gathered[k] \in Seq(Item) /\ before[k] \in Seq(Item)
  /\ Matches(gathered[k], Flat(projection[k]), 0)
  /\ Matches(before[k], Flat(projection[k]), 0)
  /\ Len(gathered[k]) <= ItemCount(projection[k])
  /\ Len(before[k]) < Len(gathered[k]) \/ ItemCount(projection[k]) = 0
  /\ cursor[k] = None => Len(gathered[k]) = ItemCount(projection[k])
  /\ cursor[k] # None => cursor[k].offset = Len(gathered[k])
  /\ used[k] # None => used[k].offset = Len(before[k])

(* A cursor of client k, and what its entry is if it is still there.        *)
Linked(k, c) ==
  /\ c \in Cursor /\ c.id \in 1 .. issued
  /\ c.id \in DOMAIN entries =>
       /\ entries[c.id].projection = projection[k]
       /\ entries[c.id].created = since[k]
       /\ entries[c.id].idleUntil = served[k] + Idle

Cursors(k) == {used[k], cursor[k]} \ {None}

Paging(k) ==
  /\ since[k] \in Nat /\ served[k] \in Nat
  /\ Prefix(k)
  /\ \A c \in Cursors(k) : Linked(k, c)
  /\ cursor[k] # None /\ ~closed /\ now < served[k] + Idle /\ now < since[k] + Absolute
       => cursor[k].id \in DOMAIN entries

Apart(k, l) == \A c \in Cursors(k), d \in Cursors(l) : c.id # d.id

ClientsInv ==
  \A k \in Clients :
    /\ Request(k)
    /\ pc[k] = "paging" => Paging(k)
    /\ \A l \in Clients \ {k} : pc[k] = "paging" /\ pc[l] = "paging" => Apart(k, l)

IInv == Shapes /\ Store /\ AccountingExact /\ RetainedForSomeone /\ ClientsInv

-----------------------------------------------------------------------------
(* The store: bytes and quotas.                                             *)

(* The size of a projection is a number.                                    *)
LEMMA SizeNat ==
  ASSUME NEW p \in Projection
  PROVE  ProjectionBytes(p) \in Nat
<1> DEFINE F == Flat(p)
           size == [i \in DOMAIN F |-> ItemBytes[F[i].id]]
<1>1. F \in Seq(Item)
  BY FlatJoined
<1> HIDE DEF F
<1>2. DOMAIN F = 1 .. Len(F) /\ Len(F) \in Nat
  BY <1>1
<1>3. IsFiniteSet(DOMAIN F)
  BY <1>2, FS_Interval
<1>4. \A i \in DOMAIN F : size[i] \in Nat
  <2> SUFFICES ASSUME NEW i \in DOMAIN F  PROVE  ItemBytes[F[i].id] \in Nat
    OBVIOUS
  <2>1. F[i] \in Item
    BY <1>1
  <2> QED
    BY <2>1, ProjectionsAssumption DEF Item
<1> HIDE DEF size
<1>5. Total(size, DOMAIN F) \in Nat
  BY <1>3, <1>4, TotalType
<1> QED
  BY <1>5 DEF ProjectionBytes, Bytes, F, size

(* The store has finitely many entries, each with a size.                   *)
LEMMA StoreFinite ==
  ASSUME Shapes, Store
  PROVE  /\ IsFiniteSet(DOMAIN entries)
         /\ \A i \in DOMAIN entries : EntryBytes[i] \in Nat
<1>0. issued \in Int
  BY DEF Shapes
<1>1. IsFiniteSet(1 .. issued)
  BY <1>0, FS_Interval
<1>2. IsFiniteSet(DOMAIN entries)
  BY <1>1, FS_Subset DEF Store
<1>3. ASSUME NEW i \in DOMAIN entries  PROVE  EntryBytes[i] \in Nat
  <2>1. entries[i].projection \in Projection
    BY DEF Store, Entry
  <2> QED
    BY <2>1, SizeNat DEF EntryBytes
<1> QED
  BY <1>2, <1>3

(* After a sweep the byte count is the size of what is left.                *)
LEMMA SweptBytes ==
  ASSUME Shapes, Store, AccountingExact
  PROVE  /\ Live \subseteq DOMAIN entries /\ IsFiniteSet(Live)
         /\ KeptBytes = Total(EntryBytes, Live) /\ KeptBytes \in Nat /\ KeptBytes <= MaxBytes
         /\ Cardinality(Live) \in Nat /\ Cardinality(Live) <= MaxCount
<1>1. IsFiniteSet(DOMAIN entries) /\ \A i \in DOMAIN entries : EntryBytes[i] \in Nat
  BY StoreFinite
<1>2. Live \subseteq DOMAIN entries
  BY DEF Live
<1>3. /\ IsFiniteSet(Live)
      /\ Total(EntryBytes, Live) \in Nat
      /\ Total(EntryBytes, DOMAIN entries \ Live) \in Nat
      /\ Total(EntryBytes, DOMAIN entries)
           = Total(EntryBytes, Live) + Total(EntryBytes, DOMAIN entries \ Live)
  BY <1>1, <1>2, TotalSubset, Zenon
<1>4. /\ KeptBytes = Total(EntryBytes, DOMAIN entries)
                       - Total(EntryBytes, DOMAIN entries \ Live)
      /\ Total(EntryBytes, DOMAIN entries) <= MaxBytes
  BY DEF KeptBytes, AccountingExact
<1>5. MaxBytes \in Nat /\ MaxCount \in Nat
  BY ProjectionsAssumption
<1>6. KeptBytes = Total(EntryBytes, Live) /\ KeptBytes \in Nat /\ KeptBytes <= MaxBytes
  BY <1>3, <1>4, <1>5
<1>7. Cardinality(Live) <= Cardinality(DOMAIN entries)
  BY <1>1, <1>2, FS_Subset
<1>8. Cardinality(Live) \in Nat /\ Cardinality(DOMAIN entries) \in Nat
  BY <1>1, <1>3, FS_CardinalityType
<1>9. Cardinality(DOMAIN entries) <= MaxCount
  BY DEF AccountingExact
<1>10. Cardinality(Live) <= MaxCount
  BY <1>5, <1>7, <1>8, <1>9
<1> QED
  BY <1>2, <1>3, <1>6, <1>8, <1>10

(* The bytes of entries whose projections stay.                             *)
LEMMA SameBytes ==
  ASSUME NEW S, S \subseteq DOMAIN entries, S \subseteq DOMAIN entries',
         \A i \in S : entries'[i].projection = entries[i].projection
  PROVE  Total(EntryBytes', S) = Total(EntryBytes, S)
<1>1. \A i \in S : EntryBytes'[i] = EntryBytes[i]
  BY DEF EntryBytes
<1> QED
  BY <1>1, TotalSame

(* What a step may do to the store: an entry that was issued before, other  *)
(* than those in T, stays as it is or goes, and goes only at its deadline   *)
(* or when the store is closed.                                             *)
Moves(T) ==
  /\ issued \in Nat /\ issued' \in Nat /\ issued <= issued'
  /\ now \in Nat /\ now' \in Nat /\ now <= now'
  /\ closed => closed'
  /\ \A i \in DOMAIN entries' :
       i <= issued /\ i \notin T => i \in DOMAIN entries /\ entries'[i] = entries[i]
  /\ ~ closed' => Live \subseteq DOMAIN entries'

StoreInv == Store /\ AccountingExact

(* sweepLocked. *)
LEMMA SweepStore ==
  ASSUME Shapes, StoreInv, SweepLocked, now' = now, issued' \in {issued, issued + 1},
         closed' = closed
  PROVE  /\ StoreInv' /\ Moves({}) /\ DOMAIN entries' = Live
         /\ \A i \in Live : entries'[i] = entries[i]
<1>1. /\ Live \subseteq DOMAIN entries /\ IsFiniteSet(Live)
      /\ KeptBytes = Total(EntryBytes, Live) /\ KeptBytes \in Nat /\ KeptBytes <= MaxBytes
      /\ Cardinality(Live) \in Nat /\ Cardinality(Live) <= MaxCount
  BY SweptBytes DEF StoreInv
<1>2. DOMAIN entries' = Live /\ \A i \in Live : entries'[i] = entries[i]
  BY DEF SweepLocked, Kept
<1>3. bytes' = KeptBytes
  BY DEF SweepLocked
<1>4. Store'
  <2>1. \A i \in DOMAIN entries' : entries'[i] \in Entry
    BY <1>1, <1>2 DEF StoreInv, Store
  <2>2. DOMAIN entries' \subseteq 1 .. issued'
    <3>1. issued \in Nat /\ DOMAIN entries \subseteq 1 .. issued
      BY DEF Shapes, StoreInv, Store
    <3>2. 1 .. issued \subseteq 1 .. issued'
      BY <3>1
    <3> QED
      BY <1>1, <1>2, <3>1, <3>2
  <2> QED
    BY <2>1, <2>2 DEF Store
<1>5. AccountingExact'
  <2>1. Total(EntryBytes', Live) = Total(EntryBytes, Live)
    BY <1>1, <1>2, SameBytes
  <2>2. Total(EntryBytes', DOMAIN entries') = Total(EntryBytes', Live)
    BY <1>2, Zenon
  <2>3. bytes' = Total(EntryBytes', DOMAIN entries') /\ bytes' <= MaxBytes
    BY <1>1, <1>3, <2>1, <2>2
  <2>4. Cardinality(DOMAIN entries') <= MaxCount
    BY <1>1, <1>2
  <2>5. closed' => DOMAIN entries' = {}
    BY <1>1, <1>2 DEF StoreInv, AccountingExact
  <2> QED
    BY <2>3, <2>4, <2>5 DEF AccountingExact
<1>6. Moves({})
  BY <1>1, <1>2 DEF Moves, Shapes
<1> QED
  BY <1>2, <1>4, <1>5, <1>6 DEF StoreInv

(* firstPage caches a projection. *)
LEMMA CacheStore ==
  ASSUME Shapes, StoreInv, NEW p \in Projection, ~ OverQuota(p), ~ closed,
         entries' = KeptAnd(issued + 1, p), bytes' = KeptBytes + ProjectionBytes(p),
         now' = now, issued' = issued + 1, closed' = closed
  PROVE  /\ StoreInv' /\ Moves({}) /\ DOMAIN entries' = Live \cup {issued + 1}
         /\ entries'[issued + 1] = [projection |-> p, created |-> now, idleUntil |-> now + Idle]
<1> DEFINE id == issued + 1
<1>1. /\ Live \subseteq DOMAIN entries /\ IsFiniteSet(Live)
      /\ KeptBytes = Total(EntryBytes, Live) /\ KeptBytes \in Nat
      /\ Cardinality(Live) \in Nat
  BY SweptBytes DEF StoreInv
<1>0. /\ issued \in Nat /\ now \in Nat /\ Idle \in Nat /\ MaxCount \in Nat
      /\ ProjectionBytes(p) \in Nat
  BY ProjectionsAssumption, SizeNat DEF Shapes
<1>2. id \notin DOMAIN entries /\ id \notin Live
  BY <1>0, <1>1 DEF StoreInv, Store
<1>3. /\ DOMAIN entries' = Live \cup {id}
      /\ entries'[id] = [projection |-> p, created |-> now, idleUntil |-> now + Idle]
      /\ \A i \in Live : entries'[i] = entries[i]
  BY <1>2 DEF KeptAnd
<1>4. Store'
  <2>1. \A i \in Live : entries'[i] \in Entry
    BY <1>1, <1>3 DEF StoreInv, Store
  <2>2. entries'[id] \in Entry
    BY <1>0, <1>3 DEF Entry
  <2>3. DOMAIN entries' \subseteq 1 .. issued'
    BY <1>0, <1>1, <1>3 DEF StoreInv, Store
  <2> QED
    BY <1>3, <2>1, <2>2, <2>3 DEF Store
<1>5. AccountingExact'
  <2>1. Total(EntryBytes', Live) = Total(EntryBytes, Live)
    BY <1>1, <1>3, SameBytes
  <2>2. EntryBytes'[id] = ProjectionBytes(p)
    BY <1>3 DEF EntryBytes
  <2>3. \A i \in Live \cup {id} : EntryBytes'[i] \in Nat
    <3>1. \A i \in Live : EntryBytes'[i] = EntryBytes[i]
      BY <1>1, <1>3 DEF EntryBytes
    <3>2. \A i \in Live : EntryBytes[i] \in Nat
      BY <1>1, StoreFinite DEF StoreInv
    <3> QED
      BY <1>0, <2>2, <3>1, <3>2
  <2>4. Total(EntryBytes', Live \cup {id}) = Total(EntryBytes', Live) + EntryBytes'[id]
    <3> HIDE DEF id
    <3> QED  BY <1>1, <1>2, <2>3, TotalAdd, Zenon
  <2>5. Total(EntryBytes', DOMAIN entries') = Total(EntryBytes', Live \cup {id})
    BY <1>3, Zenon
  <2>6. bytes' = Total(EntryBytes', DOMAIN entries')
    BY <1>1, <2>1, <2>2, <2>4, <2>5
  <2>7. bytes' <= MaxBytes /\ Cardinality(Live) < MaxCount
    <3>1. ~ (Cardinality(Live) >= MaxCount) /\ ~ (KeptBytes + ProjectionBytes(p) > MaxBytes)
      BY DEF OverQuota
    <3>2. MaxBytes \in Nat /\ MaxCount \in Nat
      BY ProjectionsAssumption
    <3> QED
      BY <1>0, <1>1, <3>1, <3>2
  <2>8. Cardinality(Live \cup {id}) = Cardinality(Live) + 1
    BY <1>1, <1>2, FS_AddElement
  <2>9. Cardinality(DOMAIN entries') <= MaxCount
    <3>1. Cardinality(DOMAIN entries') = Cardinality(Live) + 1
      BY <1>3, <2>8, Zenon
    <3> QED
      BY <1>0, <1>1, <2>7, <3>1
  <2> QED
    BY <2>6, <2>7, <2>9 DEF AccountingExact
<1>6. Moves({})
  <2>1. \A i \in DOMAIN entries' : i <= issued => i \in DOMAIN entries /\ entries'[i] = entries[i]
    BY <1>0, <1>1, <1>3
  <2> QED
    BY <1>0, <1>3, <2>1 DEF Moves
<1> QED
  BY <1>3, <1>4, <1>5, <1>6 DEF StoreInv

(* cursorPage renews the deadline of an entry. *)
LEMMA RenewStore ==
  ASSUME Shapes, StoreInv, NEW id \in Live, ~ closed,
         entries' = Renewed(id), bytes' = KeptBytes,
         now' = now, issued' = issued, closed' = closed
  PROVE  /\ StoreInv' /\ Moves({id}) /\ DOMAIN entries' = Live
         /\ entries'[id].projection = entries[id].projection
         /\ entries'[id].created = entries[id].created
         /\ entries'[id].idleUntil = now + Idle
<1>1. /\ Live \subseteq DOMAIN entries /\ IsFiniteSet(Live)
      /\ KeptBytes = Total(EntryBytes, Live) /\ KeptBytes \in Nat /\ KeptBytes <= MaxBytes
      /\ Cardinality(Live) \in Nat /\ Cardinality(Live) <= MaxCount
  BY SweptBytes DEF StoreInv
<1>2. /\ issued \in Nat /\ now \in Nat /\ Idle \in Nat /\ now + Idle \in Nat
  BY ProjectionsAssumption DEF Shapes
<1>3. entries[id] \in Entry
  BY <1>1 DEF StoreInv, Store
<1>4. /\ DOMAIN entries' = Live
      /\ entries'[id] = [entries[id] EXCEPT !.idleUntil = now + Idle]
      /\ \A i \in Live \ {id} : entries'[i] = entries[i]
  BY DEF Renewed, Kept
<1>5. /\ entries'[id] \in Entry
      /\ entries'[id].projection = entries[id].projection
      /\ entries'[id].created = entries[id].created
      /\ entries'[id].idleUntil = now + Idle
  BY <1>2, <1>3, <1>4 DEF Entry
<1>6. Store'
  <2>1. \A i \in DOMAIN entries' : entries'[i] \in Entry
    BY <1>1, <1>4, <1>5 DEF StoreInv, Store
  <2>2. DOMAIN entries' \subseteq 1 .. issued'
    BY <1>1, <1>4 DEF StoreInv, Store
  <2> QED
    BY <2>1, <2>2 DEF Store
<1>7. AccountingExact'
  <2>0. \A i \in Live : entries'[i].projection = entries[i].projection
    BY <1>4, <1>5
  <2>1. Total(EntryBytes', Live) = Total(EntryBytes, Live)
    BY <1>1, <1>4, <2>0, SameBytes
  <2>2. Total(EntryBytes', DOMAIN entries') = Total(EntryBytes', Live)
    BY <1>4, Zenon
  <2>3. bytes' = Total(EntryBytes', DOMAIN entries') /\ bytes' <= MaxBytes
    BY <1>1, <2>1, <2>2
  <2>4. Cardinality(DOMAIN entries') <= MaxCount
    BY <1>1, <1>4
  <2> QED
    BY <2>3, <2>4 DEF AccountingExact
<1>8. Moves({id})
  BY <1>1, <1>2, <1>4 DEF Moves
<1> QED
  BY <1>4, <1>5, <1>6, <1>7, <1>8 DEF StoreInv

-----------------------------------------------------------------------------
(* The clients: those that a step is not about.                             *)

(* Nothing of client l changes.                                             *)
Stays(l) ==
  /\ pc'[l] = pc[l] /\ ask'[l] = ask[l] /\ projection'[l] = projection[l]
  /\ before'[l] = before[l] /\ gathered'[l] = gathered[l]
  /\ used'[l] = used[l] /\ cursor'[l] = cursor[l]
  /\ since'[l] = since[l] /\ served'[l] = served[l]

(* What is said of a request stays true while its client and the            *)
(* generations do.                                                          *)
LEMMA RequestStays ==
  ASSUME NEW l, Request(l), Stays(l)
  PROVE  Request(l)'
BY DEF Request, Stays

(* A paging client keeps what it has, unless its own entry is touched.      *)
LEMMA PagingStays ==
  ASSUME Store, NEW l, Paging(l), Stays(l), NEW T, Moves(T),
         \A c \in Cursors(l) : c.id \notin T
  PROVE  Paging(l)'
<1>1. since'[l] \in Nat /\ served'[l] \in Nat
  BY DEF Paging, Stays
<1>2. Prefix(l)'
  BY DEF Paging, Prefix, Stays
<1>3. Cursors(l)' = Cursors(l)
  BY DEF Cursors, Stays
<1>4. ASSUME NEW c \in Cursors(l)  PROVE  Linked(l, c)'
  <2>1. Linked(l, c) /\ c.id \notin T
    BY DEF Paging
  <2>2. c \in Cursor /\ c.id \in 1 .. issued /\ c.id <= issued /\ c.id \in 1 .. issued'
    BY <2>1 DEF Linked, Moves
  <2>3. c.id \in DOMAIN entries' => c.id \in DOMAIN entries /\ entries'[c.id] = entries[c.id]
    BY <2>1, <2>2 DEF Moves
  <2> QED
    BY <2>1, <2>2, <2>3 DEF Linked, Stays
<1>5. ASSUME cursor'[l] # None, ~ closed', now' < served'[l] + Idle,
             now' < since'[l] + Absolute
      PROVE  cursor'[l].id \in DOMAIN entries'
  <2> DEFINE c == cursor[l]
  <2>1. /\ cursor'[l] = c /\ served'[l] = served[l] /\ since'[l] = since[l]
        /\ served[l] \in Nat /\ since[l] \in Nat
    BY DEF Stays, Paging
  <2>2. Idle \in Nat /\ Absolute \in Nat
    BY ProjectionsAssumption
  <2>3. ~ closed /\ now \in Nat /\ now' \in Nat /\ now <= now'
    BY <1>5 DEF Moves
  <2>4. now < served[l] + Idle /\ now < since[l] + Absolute
    BY <1>5, <2>1, <2>2, <2>3
  <2>5. c # None /\ c.id \in DOMAIN entries
    BY <1>5, <2>1, <2>3, <2>4 DEF Paging
  <2>6. entries[c.id].created = since[l] /\ entries[c.id].idleUntil = served[l] + Idle
    BY <2>5 DEF Paging, Linked, Cursors
  <2>7. now < Deadline(entries[c.id])
    BY <2>4, <2>6 DEF Deadline
  <2>8. c.id \in Live
    BY <2>5, <2>7 DEF Live
  <2> QED
    BY <1>5, <2>1, <2>8 DEF Moves
<1> QED
  BY <1>1, <1>2, <1>3, <1>4, <1>5 DEF Paging

(* A step of client k, seen from all clients.                               *)
LEMMA ClientsStep ==
  ASSUME Store, ClientsInv, NEW k \in Clients, NEW T, Moves(T),
         \A l \in Clients \ {k} : Stays(l),
         \A l \in Clients \ {k} : pc[l] = "paging" => \A c \in Cursors(l) : c.id \notin T,
         Request(k)',
         pc'[k] = "paging" => Paging(k)',
         pc'[k] = "paging" =>
           \A l \in Clients \ {k} : pc[l] = "paging" =>
             \A c \in Cursors(k)', d \in Cursors(l) : c.id # d.id
  PROVE  ClientsInv'
<1>1. ASSUME NEW l \in Clients \ {k}
      PROVE  Request(l)' /\ (pc'[l] = "paging" => Paging(l)') /\ Cursors(l)' = Cursors(l)
  <2>1. Request(l) /\ (pc[l] = "paging" => Paging(l)) /\ Stays(l)
    BY DEF ClientsInv
  <2>2. pc'[l] = pc[l] /\ Cursors(l)' = Cursors(l)
    BY <2>1 DEF Stays, Cursors
  <2>3. pc[l] = "paging" => \A c \in Cursors(l) : c.id \notin T
    OBVIOUS
  <2> QED
    BY <2>1, <2>2, <2>3, PagingStays, RequestStays
<1>2. ASSUME NEW l \in Clients \ {k}  PROVE  pc'[l] = pc[l]
  BY DEF Stays
<1>3. ASSUME NEW l \in Clients, NEW m \in Clients \ {l}, pc'[l] = "paging", pc'[m] = "paging"
      PROVE  Apart(l, m)'
  <2>1. CASE l = k
    BY <1>1, <1>2, <1>3, <2>1 DEF Apart
  <2>2. CASE m = k
    BY <1>1, <1>2, <1>3, <2>2 DEF Apart
  <2>3. CASE l # k /\ m # k
    <3>1. Apart(l, m)
      BY <1>2, <1>3, <2>3 DEF ClientsInv
    <3> QED
      BY <1>1, <2>3, <3>1 DEF Apart
  <2> QED
    BY <2>1, <2>2, <2>3
<1> QED
  BY <1>1, <1>3 DEF ClientsInv

(* A step that is about no client.                                          *)
LEMMA ClientsStay ==
  ASSUME Store, ClientsInv, Moves({}), \A l \in Clients : Stays(l)
  PROVE  ClientsInv'
<1>1. ASSUME NEW l \in Clients
      PROVE  Request(l)' /\ (pc'[l] = "paging" => Paging(l)') /\ Cursors(l)' = Cursors(l)
  <2>1. Request(l) /\ (pc[l] = "paging" => Paging(l)) /\ Stays(l)
    BY DEF ClientsInv
  <2>2. pc'[l] = pc[l] /\ Cursors(l)' = Cursors(l)
    BY <2>1 DEF Stays, Cursors
  <2> QED
    BY <2>1, <2>2, PagingStays, RequestStays
<1>2. \A l \in Clients : pc'[l] = pc[l]
  BY DEF Stays
<1> QED
  BY <1>1, <1>2 DEF ClientsInv, Apart

-----------------------------------------------------------------------------
(* The client that gets a page.                                             *)

ClientShapes ==
  /\ DOMAIN pc = Clients /\ DOMAIN ask = Clients /\ DOMAIN projection = Clients
  /\ DOMAIN before = Clients /\ DOMAIN gathered = Clients /\ DOMAIN used = Clients
  /\ DOMAIN cursor = Clients /\ DOMAIN since = Clients /\ DOMAIN served = Clients
  /\ DOMAIN result = Clients

(* The effects of an answer on its client, and that other clients see none. *)
LEMMA Delivered ==
  ASSUME Shapes, NEW k \in Clients, NEW earlier, NEW page, NEW through, NEW cached,
         Deliver(k, earlier, page, through, cached), UNCHANGED <<ask, projection>>
  PROVE  /\ ClientShapes'
         /\ \A l \in Clients \ {k} : Stays(l)
         /\ pc'[k] = "paging" /\ ask'[k] = ask[k] /\ projection'[k] = projection[k]
         /\ before'[k] = earlier /\ gathered'[k] = earlier \o page.items
         /\ used'[k] = through /\ cursor'[k] = page.next
         /\ since'[k] = cached /\ served'[k] = now
         /\ handed' = handed \cup {c.id : c \in {page.next} \ {None}}
BY DEF Deliver, Answer, Shapes, ClientShapes, Stays

(* What is needed of a page that follows the first off items.               *)
PageOK(page, p, off) ==
  /\ page.items \in Seq(Item)
  /\ Matches(page.items, Flat(p), off)
  /\ off + Len(page.items) <= ItemCount(p)
  /\ Len(page.items) > 0 \/ ItemCount(p) = 0
  /\ page.next = None => off + Len(page.items) = ItemCount(p)
  /\ page.next # None => page.next.offset = off + Len(page.items)

(* Two stretches of a list that meet are one stretch.                       *)
LEMMA MatchesJoined ==
  ASSUME NEW q \in Seq(Item), NEW r \in Seq(Item), NEW F,
         Matches(q, F, 0), Matches(r, F, Len(q))
  PROVE  Matches(q \o r, F, 0)
<1>1. Len(q) \in Nat /\ Len(r) \in Nat
  OBVIOUS
<1>2. /\ Len(q \o r) = Len(q) + Len(r)
      /\ \A i \in 1 .. Len(q) : (q \o r)[i] = q[i]
      /\ \A i \in 1 .. Len(r) : (q \o r)[Len(q) + i] = r[i]
  BY Joined
<1> SUFFICES ASSUME NEW i \in 1 .. Len(q \o r)  PROVE  (q \o r)[i] = F[0 + i]
  BY DEF Matches
<1>3. i \in Nat /\ 1 <= i /\ i <= Len(q) + Len(r) /\ 0 + i = i
  BY <1>1, <1>2
<1>4. CASE i <= Len(q)
  <2>1. i \in 1 .. Len(q)
    BY <1>1, <1>3, <1>4
  <2> QED
    BY <1>2, <2>1 DEF Matches
<1>5. CASE i > Len(q)
  <2> DEFINE j == i - Len(q)
  <2>1. j \in 1 .. Len(r) /\ i = Len(q) + j
    BY <1>1, <1>3, <1>5
  <2> HIDE DEF j
  <2>2. (q \o r)[i] = r[j] /\ r[j] = F[Len(q) + j]
    BY <1>2, <2>1 DEF Matches
  <2> QED
    BY <1>3, <2>1, <2>2
<1> QED
  BY <1>1, <1>3, <1>4, <1>5

(* A page that begins where the earlier ones ended makes a longer prefix.   *)
LEMMA PrefixDelivered ==
  ASSUME NEW k, NEW earlier \in Seq(Item), NEW page,
         projection'[k] \in Projection, PageOK(page, projection'[k], Len(earlier)),
         Matches(earlier, Flat(projection'[k]), 0),
         before'[k] = earlier, gathered'[k] = earlier \o page.items,
         cursor'[k] = page.next, used'[k] # None => used'[k].offset = Len(earlier)
  PROVE  Prefix(k)'
<1>1. page.items \in Seq(Item) /\ Matches(page.items, Flat(projection'[k]), Len(earlier))
  BY DEF PageOK
<1>2. Matches(earlier \o page.items, Flat(projection'[k]), 0)
  BY <1>1, MatchesJoined
<1>3. /\ earlier \o page.items \in Seq(Item)
      /\ Len(earlier \o page.items) = Len(earlier) + Len(page.items)
      /\ Len(earlier) \in Nat /\ Len(page.items) \in Nat
  BY <1>1, Joined
<1>4. /\ Len(earlier) + Len(page.items) <= ItemCount(projection'[k])
      /\ Len(page.items) > 0 \/ ItemCount(projection'[k]) = 0
      /\ page.next = None => Len(earlier) + Len(page.items) = ItemCount(projection'[k])
      /\ page.next # None => page.next.offset = Len(earlier) + Len(page.items)
  BY DEF PageOK
<1>5. Len(earlier) < Len(earlier \o page.items) \/ ItemCount(projection'[k]) = 0
  BY <1>3, <1>4
<1> QED
  BY <1>2, <1>3, <1>4, <1>5 DEF Prefix

(* A good page never is empty, and has no cursor exactly when it is the     *)
(* last.                                                                    *)
LEMMA GoodPageOK ==
  ASSUME NEW p \in Projection, NEW off \in Nat, NEW limit \in Nat, NEW id \in Nat,
         NEW page, GoodPage(page, p, off, limit, id)
  PROVE  /\ PageOK(page, p, off)
         /\ page.next # None => page.next \in Cursor /\ page.next.id = id
         /\ Len(page.items) \in Nat /\ Len(page.items) > 0
         /\ page.next = None <=> off + Len(page.items) = ItemCount(p)
<1>1. ItemCount(p) \in Nat
  BY FlatJoined
<1>2. /\ page.items \in Seq(Item) /\ Len(page.items) > 0 /\ Len(page.items) \in Nat
      /\ off + Len(page.items) <= ItemCount(p)
      /\ Matches(page.items, Flat(p), off)
  BY DEF GoodPage
<1>3. CASE off + Len(page.items) = ItemCount(p)
  <2>1. page.next = None
    BY <1>3 DEF GoodPage
  <2> QED
    BY <1>2, <1>3, <2>1 DEF PageOK
<1>4. CASE off + Len(page.items) # ItemCount(p)
  <2>1. off + Len(page.items) < ItemCount(p)
    BY <1>1, <1>2, <1>4
  <2>2. page.next = [id |-> id, offset |-> off + Len(page.items), limit |-> limit]
    BY <2>1 DEF GoodPage
  <2>3. off + Len(page.items) \in Nat
    BY <1>2
  <2>4. page.next \in Cursor
    BY <2>2, <2>3 DEF Cursor
  <2>5. page.next # None
    BY <2>4, ProjectionsAssumption
  <2> QED
    BY <1>2, <1>4, <2>2, <2>4, <2>5 DEF PageOK
<1> QED
  BY <1>3, <1>4

(* What was built for a client is a projection, and its request valid.      *)
LEMMA BuiltType ==
  ASSUME ClientsInv, NEW k \in Clients, pc[k] \in {"built", "paging"}
  PROVE  projection[k] \in Projection /\ ask[k].limit \in Nat
<1>1. PICK r \in Records : projection[k] = BuildProjection(r, ask[k].include)
  BY DEF ClientsInv, Request
<1>2. BuildProjection(r, ask[k].include) \in Projection
  BY Built, Zenon
<1>3. ask[k].limit \in Nat
  BY DEF ClientsInv, Request
<1> QED
  BY <1>1, <1>2, <1>3

-----------------------------------------------------------------------------
(* The invariant holds initially and after each action.                     *)


(* Packages that come and go leave cached projections alone.                *)
LEMMA RegistryStep ==
  ASSUME IInv, RegistryChanges  PROVE  IInv'
<1>1. Shapes'
  BY DEF IInv, Shapes, RegistryChanges, storeVars, clientVars, pageVars
<1>2. Store' /\ AccountingExact' /\ RetainedForSomeone'
  BY DEF IInv, Store, AccountingExact, RetainedForSomeone, EntryBytes,
         RegistryChanges, storeVars, clientVars, pageVars
<1>3. Moves({}) /\ \A l \in Clients : Stays(l)
  BY DEF IInv, Shapes, Moves, Live, Stays, RegistryChanges, storeVars, clientVars, pageVars
<1>4. ClientsInv'
  BY <1>3, ClientsStay DEF IInv
<1> QED
  BY <1>1, <1>2, <1>4 DEF IInv

(* Time passes: entries get older, and none is changed.                     *)
LEMMA TickStep ==
  ASSUME IInv, Tick  PROVE  IInv'
<1>1. Shapes'
  BY DEF IInv, Shapes, Tick, storeVars, clientVars, pageVars
<1>2. Store' /\ AccountingExact' /\ RetainedForSomeone'
  BY DEF IInv, Store, AccountingExact, RetainedForSomeone, EntryBytes,
         Tick, storeVars, clientVars, pageVars
<1>3. Moves({}) /\ \A l \in Clients : Stays(l)
  BY DEF IInv, Shapes, Moves, Live, Stays, Tick, storeVars, clientVars, pageVars
<1>4. ClientsInv'
  BY <1>3, ClientsStay DEF IInv
<1> QED
  BY <1>1, <1>2, <1>4 DEF IInv

(* Stats sweeps the entries whose time is over.                             *)
LEMMA StatsStep ==
  ASSUME IInv, Stats  PROVE  IInv'
<1>0. /\ SweepLocked /\ now' = now /\ issued' = issued /\ closed' = closed
      /\ handed' = handed
      /\ \A l \in Clients : Stays(l)
  BY DEF Stats, Stays, clientVars, pageVars
<1>1. Shapes'
  BY DEF IInv, Shapes, Stats, clientVars, pageVars
<1>2. StoreInv' /\ Moves({}) /\ DOMAIN entries' = Live
  BY <1>0, SweepStore DEF IInv, StoreInv
<1>3. RetainedForSomeone'
  BY <1>0, <1>2 DEF IInv, RetainedForSomeone, Live
<1>4. ClientsInv'
  BY <1>0, <1>2, ClientsStay DEF IInv
<1> QED
  BY <1>1, <1>2, <1>3, <1>4 DEF IInv, StoreInv

(* Close drops every entry and its bytes.                                   *)
LEMMA CloseStep ==
  ASSUME IInv, Close  PROVE  IInv'
<1>0. /\ entries' = <<>> /\ bytes' = 0 /\ closed' = TRUE
      /\ now' = now /\ issued' = issued /\ handed' = handed
      /\ \A l \in Clients : Stays(l)
  BY DEF Close, Stays, clientVars, pageVars
<1>1. Shapes'
  BY DEF IInv, Shapes, Close, clientVars, pageVars
<1>2. DOMAIN entries' = {}
  BY <1>0
<1>3. Store' /\ RetainedForSomeone'
  BY <1>2 DEF Store, RetainedForSomeone
<1>4. AccountingExact'
  <2>1. Total(EntryBytes', {}) = 0 /\ Cardinality({}) = 0
    BY TotalEmpty, FS_EmptySet
  <2>2. Total(EntryBytes', DOMAIN entries') = Total(EntryBytes', {})
    BY <1>2, Zenon
  <2>3. Cardinality(DOMAIN entries') = Cardinality({})
    BY <1>2, Zenon
  <2>4. MaxCount \in Nat /\ MaxBytes \in Nat
    BY ProjectionsAssumption
  <2> QED
    BY <1>0, <1>2, <2>1, <2>2, <2>3, <2>4 DEF AccountingExact
<1>5. Moves({})
  BY <1>0, <1>2 DEF Moves, IInv, Shapes
<1>6. ClientsInv'
  BY <1>0, <1>5, ClientsStay DEF IInv
<1> QED
  BY <1>1, <1>3, <1>4, <1>6 DEF IInv

(* The store stays as it is.                                                *)
LEMMA StoreUntouched ==
  ASSUME IInv, UNCHANGED <<now, storeVars, handed>>
  PROVE  Store' /\ AccountingExact' /\ RetainedForSomeone' /\ Moves({})
<1>1. Store' /\ AccountingExact' /\ RetainedForSomeone'
  BY DEF IInv, Store, AccountingExact, RetainedForSomeone, EntryBytes, storeVars
<1>2. Moves({})
  BY DEF IInv, Shapes, Moves, Live, storeVars
<1> QED
  BY <1>1, <1>2

(* A client that does not page after its step.                              *)
LEMMA NotPaging ==
  ASSUME IInv, NEW k \in Clients, Moves({}), \A l \in Clients \ {k} : Stays(l),
         Request(k)', pc'[k] # "paging"
  PROVE  ClientsInv'
BY ClientsStep DEF IInv

(* A new request, of a client that is not waiting for a page.               *)
LEMMA DescribeStep ==
  ASSUME IInv, NEW k \in Clients, NEW include, NEW limit, Describe(k, include, limit)
  PROVE  IInv'
<1>1. Shapes'
  BY DEF IInv, Shapes, Describe, Answer, storeVars
<1>2. Store' /\ AccountingExact' /\ RetainedForSomeone' /\ Moves({})
  BY StoreUntouched DEF Describe
<1>3. \A l \in Clients \ {k} : Stays(l)
  BY DEF IInv, Shapes, Describe, Answer, Stays
<1>4. Request(k)' /\ pc'[k] # "paging"
  <2>1. CASE limit \in 1 .. LimitMax /\ ~closed /\ ValidInclude(include)
    <3>1. pc'[k] = "admitted" /\ ask'[k] = [include |-> include, limit |-> limit]
      BY <2>1 DEF IInv, Shapes, Describe, Answer
    <3>2. limit \in Nat
      BY <2>1, ProjectionsAssumption
    <3> QED
      BY <2>1, <3>1, <3>2 DEF Request
  <2>2. CASE ~ (limit \in 1 .. LimitMax /\ ~closed /\ ValidInclude(include))
    <3>1. pc'[k] = "failed"
      BY <2>2 DEF IInv, Shapes, Describe, Answer
    <3> QED
      BY <3>1 DEF Request
  <2> QED
    BY <2>1, <2>2
<1>5. ClientsInv'
  BY <1>2, <1>3, <1>4, NotPaging
<1> QED
  BY <1>1, <1>2, <1>5 DEF IInv

(* The lookup that a request begins with: the projection is of the          *)
(* generation that was current then.                                        *)
LEMMA LookupStep ==
  ASSUME IInv, NEW k \in Clients, Lookup(k)
  PROVE  IInv'
<1>1. Shapes'
  BY DEF IInv, Shapes, Lookup, Answer, storeVars, pageVars
<1>2. Store' /\ AccountingExact' /\ RetainedForSomeone' /\ Moves({})
  BY StoreUntouched DEF Lookup
<1>3. \A l \in Clients \ {k} : Stays(l)
  BY DEF IInv, Shapes, Lookup, Answer, Stays, pageVars
<1>4. Request(k)' /\ pc'[k] # "paging"
  <2>0. ValidInclude(ask[k].include) /\ ask[k].limit \in Nat /\ ask' = ask
    BY DEF IInv, ClientsInv, Request, Lookup
  <2>1. CASE installed = None
    <3>1. pc'[k] = "failed"
      BY <2>1 DEF IInv, Shapes, Lookup, Answer
    <3> QED
      BY <3>1 DEF Request
  <2>2. CASE installed # None
    <3>1. pc'[k] = "built" /\ projection'[k] = BuildProjection(installed, ask[k].include)
      BY <2>2 DEF IInv, Shapes, Lookup, Answer
    <3>2. installed \in Records
      BY <2>2 DEF IInv, Shapes
    <3> QED
      BY <2>0, <3>1, <3>2 DEF Request
  <2> QED
    BY <2>1, <2>2
<1>5. ClientsInv'
  BY <1>2, <1>3, <1>4, NotPaging
<1> QED
  BY <1>1, <1>2, <1>5 DEF IInv

(* firstPage on a closed store.                                             *)
LEMMA FirstPageClosedStep ==
  ASSUME IInv, NEW k \in Clients, FirstPageClosed(k)
  PROVE  IInv'
<1>1. Shapes'
  BY DEF IInv, Shapes, FirstPageClosed, Answer, storeVars, pageVars
<1>2. Store' /\ AccountingExact' /\ RetainedForSomeone' /\ Moves({})
  BY StoreUntouched DEF FirstPageClosed
<1>3. \A l \in Clients \ {k} : Stays(l)
  BY DEF IInv, Shapes, FirstPageClosed, Answer, Stays, pageVars
<1>4. pc'[k] = "failed"
  BY DEF IInv, Shapes, FirstPageClosed, Answer
<1>5. ClientsInv'
  BY <1>2, <1>3, <1>4, NotPaging DEF Request
<1> QED
  BY <1>1, <1>2, <1>5 DEF IInv

(* firstPage when everything does not fit and, after the sweep, the store   *)
(* has no room or no handle can be made.                                    *)
LEMMA FirstPageRefusedStep ==
  ASSUME IInv, NEW k \in Clients, FirstPageRefused(k)
  PROVE  IInv'
<1>0. /\ SweepLocked /\ now' = now /\ issued' = issued /\ closed' = closed
      /\ handed' = handed
  BY DEF FirstPageRefused
<1>1. Shapes'
  BY DEF IInv, Shapes, FirstPageRefused, Answer, pageVars
<1>2. StoreInv' /\ Moves({}) /\ DOMAIN entries' = Live
  BY <1>0, SweepStore DEF IInv, StoreInv
<1>3. RetainedForSomeone'
  BY <1>0, <1>2 DEF IInv, RetainedForSomeone, Live
<1>4. \A l \in Clients \ {k} : Stays(l)
  BY DEF IInv, Shapes, FirstPageRefused, Answer, Stays, pageVars
<1>5. pc'[k] = "failed"
  BY DEF IInv, Shapes, FirstPageRefused, Answer
<1>6. ClientsInv'
  BY <1>2, <1>4, <1>5, NotPaging DEF Request
<1> QED
  BY <1>1, <1>2, <1>3, <1>6 DEF IInv, StoreInv

(* The request of a client that gets a page is the one it had.              *)
LEMMA RequestKept ==
  ASSUME IInv, NEW k \in Clients, pc[k] \in {"built", "paging"},
         ask'[k] = ask[k], projection'[k] = projection[k]
  PROVE  Request(k)'
<1>1. /\ ValidInclude(ask[k].include) /\ ask[k].limit \in Nat
      /\ \E r \in Records : projection[k] = BuildProjection(r, ask[k].include)
  BY DEF IInv, ClientsInv, Request
<1> QED
  BY <1>1 DEF Request

(* Before the first page nothing was delivered.                             *)
LEMMA EmptyMatches ==
  ASSUME NEW F
  PROVE  <<>> \in Seq(Item) /\ Len(<<>>) = 0 /\ Matches(<<>>, F, 0)
BY DEF Matches

(* firstPage when everything fits: nothing is cached.                       *)
LEMMA FirstPageWholeStep ==
  ASSUME IInv, NEW k \in Clients, FirstPageWhole(k)
  PROVE  IInv'
<1> DEFINE p == projection[k]
           page == WholePage(k)
<1>0. /\ SweepLocked /\ now' = now /\ issued' = issued /\ closed' = closed
      /\ Deliver(k, <<>>, page, None, now) /\ UNCHANGED <<ask, projection>>
      /\ pc[k] = "built" /\ installed' = installed
  BY DEF FirstPageWhole
<1>1. p \in Projection /\ ItemCount(p) \in Nat
  BY <1>0, BuiltType, FlatJoined DEF IInv
<1>2. /\ page.next = None /\ page.items \in Seq(Item) /\ Len(page.items) = ItemCount(p)
      /\ Matches(page.items, Flat(p), 0)
  <2>1. 0 + ItemCount(p) <= ItemCount(p) /\ 0 \in Nat
    BY <1>1
  <2> HIDE DEF p
  <2>2. page = PageProjection(p, 0, ItemCount(p), None)
    BY DEF WholePage, p
  <2> HIDE DEF page
  <2> QED
    BY <1>1, <2>1, <2>2, PageOf
<1> HIDE DEF page
<1>3. /\ ClientShapes'
      /\ \A l \in Clients \ {k} : Stays(l)
      /\ pc'[k] = "paging" /\ ask'[k] = ask[k] /\ projection'[k] = p
      /\ before'[k] = <<>> /\ gathered'[k] = <<>> \o page.items
      /\ used'[k] = None /\ cursor'[k] = page.next
      /\ since'[k] = now /\ served'[k] = now
      /\ handed' = handed \cup {c.id : c \in {page.next} \ {None}}
  BY <1>0, Delivered DEF IInv
<1>4. StoreInv' /\ Moves({}) /\ DOMAIN entries' = Live
  BY <1>0, SweepStore DEF IInv, StoreInv
<1>5. RetainedForSomeone'
  BY <1>3, <1>4 DEF IInv, RetainedForSomeone, Live
<1>6. Shapes'
  BY <1>0, <1>3 DEF IInv, Shapes, ClientShapes
<1>7. PageOK(page, p, 0)
  BY <1>1, <1>2 DEF PageOK
<1>8. Prefix(k)'
  <2>1. <<>> \in Seq(Item) /\ Len(<<>>) = 0 /\ Matches(<<>>, Flat(p), 0)
    BY EmptyMatches
  <2> HIDE DEF p
  <2> QED
    BY <1>1, <1>3, <1>7, <2>1, PrefixDelivered
<1>9. Cursors(k)' = {}
  BY <1>2, <1>3 DEF Cursors
<1>10. Paging(k)'
  BY <1>2, <1>3, <1>8, <1>9 DEF Paging, IInv, Shapes
<1>11. Request(k)'
  BY <1>0, <1>3, RequestKept
<1>12. ClientsInv'
  BY <1>3, <1>4, <1>9, <1>10, <1>11, ClientsStep DEF IInv
<1> QED
  BY <1>4, <1>5, <1>6, <1>12 DEF IInv, StoreInv

(* firstPage when items are left: the projection is cached under a new      *)
(* identifier and accounted for.                                            *)
LEMMA FirstPageCachedStep ==
  ASSUME IInv, NEW k \in Clients, FirstPageCached(k)
  PROVE  IInv'
<1> DEFINE p == projection[k]
           id == issued + 1
           pages == BoundedPages(p, 0, ask[k].limit, id)
<1>0. /\ pc[k] = "built" /\ ~ closed /\ ~ OverQuota(p) /\ issued' = id
      /\ now' = now /\ closed' = closed /\ installed' = installed
      /\ UNCHANGED <<ask, projection>>
  BY DEF FirstPageCached
<1>1. /\ p \in Projection /\ ItemCount(p) \in Nat /\ ask[k].limit \in Nat
      /\ issued \in Nat /\ id \in Nat /\ id \in 1 .. id /\ now \in Nat
  BY <1>0, BuiltType, FlatJoined DEF IInv, Shapes
<1>2. IF \E page \in pages : Len(page.items) < ItemCount(p)
      THEN entries' = KeptAnd(id, p) /\ bytes' = KeptBytes + ProjectionBytes(p)
      ELSE SweepLocked
  BY DEF FirstPageCached
<1>3. \/ pages = {} /\ Answer(k, "failed", "quota") /\ UNCHANGED <<pageVars, handed>>
      \/ \E page \in pages : Deliver(k, <<>>, page, None, now)
  BY DEF FirstPageCached
<1>4. ASSUME SweepLocked
      PROVE  StoreInv' /\ Moves({}) /\ DOMAIN entries' = Live
  BY <1>0, <1>4, SweepStore DEF IInv, StoreInv
<1> HIDE DEF p, id, pages
<1>5. CASE pages = {} /\ Answer(k, "failed", "quota") /\ UNCHANGED <<pageVars, handed>>
  <2>1. SweepLocked
    BY <1>2, <1>5
  <2>2. StoreInv' /\ Moves({}) /\ DOMAIN entries' = Live
    BY <1>4, <2>1
  <2>3. \A l \in Clients \ {k} : Stays(l)
    BY <1>0, <1>5 DEF IInv, Shapes, Answer, Stays, pageVars
  <2>4. pc'[k] = "failed"
    BY <1>5 DEF IInv, Shapes, Answer
  <2>5. Shapes'
    BY <1>0, <1>1, <1>5 DEF IInv, Shapes, Answer, pageVars
  <2>6. RetainedForSomeone'
    BY <1>5, <2>2 DEF IInv, RetainedForSomeone, Live
  <2>7. ClientsInv'
    BY <2>2, <2>3, <2>4, NotPaging DEF Request
  <2> QED
    BY <2>2, <2>5, <2>6, <2>7 DEF IInv, StoreInv
<1>6. ASSUME NEW page \in pages, Deliver(k, <<>>, page, None, now)
      PROVE  IInv'
  <2>1. GoodPage(page, p, 0, ask[k].limit, id)
    BY <1>1, BoundedPageGood DEF pages
  <2>2. /\ PageOK(page, p, 0)
        /\ page.next # None => page.next \in Cursor /\ page.next.id = id
        /\ Len(page.items) \in Nat /\ Len(page.items) > 0
        /\ page.next = None <=> Len(page.items) = ItemCount(p)
    <3>1. /\ PageOK(page, p, 0)
          /\ page.next # None => page.next \in Cursor /\ page.next.id = id
      <4> DEFINE lim == ask[k].limit
      <4>1. lim \in Nat /\ GoodPage(page, p, 0, lim, id)
        BY <1>1, <2>1
      <4> HIDE DEF lim
      <4>2. \A off \in Nat : GoodPage(page, p, off, lim, id) =>
              /\ PageOK(page, p, off)
              /\ page.next # None => page.next \in Cursor /\ page.next.id = id
        BY <1>1, <4>1, GoodPageOK
      <4> QED
        BY <4>1, <4>2
    <3>2. Len(page.items) \in Nat /\ Len(page.items) > 0 /\ 0 + Len(page.items) = Len(page.items)
      BY <2>1 DEF GoodPage
    <3>3. page.next = None => 0 + Len(page.items) = ItemCount(p)
      BY <3>1 DEF PageOK
    <3>4. 0 + Len(page.items) = ItemCount(p) => page.next = None
      BY <2>1 DEF GoodPage
    <3> QED
      BY <3>1, <3>2, <3>3, <3>4
  <2>3. /\ ClientShapes'
        /\ \A l \in Clients \ {k} : Stays(l)
        /\ pc'[k] = "paging" /\ ask'[k] = ask[k] /\ projection'[k] = p
        /\ before'[k] = <<>> /\ gathered'[k] = <<>> \o page.items
        /\ used'[k] = None /\ cursor'[k] = page.next
        /\ since'[k] = now /\ served'[k] = now
        /\ handed' = handed \cup {c.id : c \in {page.next} \ {None}}
    BY <1>0, <1>6, Delivered DEF IInv, p
  <2>4. Shapes'
    BY <1>0, <1>1, <2>3 DEF IInv, Shapes, ClientShapes
  <2>5. Prefix(k)'
    <3>1. <<>> \in Seq(Item) /\ Len(<<>>) = 0 /\ Matches(<<>>, Flat(p), 0)
      BY EmptyMatches
    <3> QED
      BY <1>1, <2>2, <2>3, <3>1, PrefixDelivered
  <2>6. Request(k)'
    BY <1>0, <2>3, RequestKept DEF p
  <2>7. Cursors(k)' = {page.next} \ {None}
    BY <2>3 DEF Cursors
  <2>8. \A l \in Clients \ {k} : pc[l] = "paging" =>
          \A c \in Cursors(k)', d \in Cursors(l) : c.id # d.id
    <3> SUFFICES ASSUME NEW l \in Clients \ {k}, pc[l] = "paging",
                        NEW c \in Cursors(k)', NEW d \in Cursors(l)
                 PROVE  c.id # d.id
      OBVIOUS
    <3>1. c.id = id
      BY <2>2, <2>7
    <3>2. d.id \in 1 .. issued
      BY DEF IInv, ClientsInv, Paging, Linked
    <3> QED
      BY <1>1, <3>1, <3>2 DEF id
  <2>9. ASSUME StoreInv', Moves({}), RetainedForSomeone', Paging(k)'
        PROVE  IInv'
    <3>1. ClientsInv'
      BY <2>3, <2>6, <2>8, <2>9, ClientsStep DEF IInv
    <3> QED
      BY <2>4, <2>9, <3>1 DEF IInv, StoreInv
  <2>10. CASE page.next = None
    <3>1. ~ \E other \in pages : Len(other.items) < ItemCount(p)
      <4>1. ASSUME NEW other \in pages  PROVE  other = page
        BY <1>1, OneBoundedPage DEF pages
      <4> QED
        BY <1>1, <2>2, <2>10, <4>1
    <3>2. StoreInv' /\ Moves({}) /\ DOMAIN entries' = Live
      BY <1>2, <1>4, <3>1
    <3>3. RetainedForSomeone'
      BY <2>3, <3>2 DEF IInv, RetainedForSomeone, Live
    <3>4. Cursors(k)' = {}
      BY <2>7, <2>10
    <3>5. Paging(k)'
      BY <1>1, <2>3, <2>5, <2>10, <3>4 DEF Paging
    <3> QED
      BY <2>9, <3>2, <3>3, <3>5
  <2>11. CASE page.next # None
    <3>0. Len(page.items) < ItemCount(p)
      BY <1>1, <2>2, <2>11 DEF PageOK
    <3>1. entries' = KeptAnd(id, p) /\ bytes' = KeptBytes + ProjectionBytes(p)
      BY <1>2, <3>0
    <3>2. /\ StoreInv' /\ Moves({}) /\ DOMAIN entries' = Live \cup {id}
          /\ entries'[id] = [projection |-> p, created |-> now, idleUntil |-> now + Idle]
      BY <1>0, <1>1, <3>1, CacheStore DEF IInv, StoreInv, id
    <3>3. page.next \in Cursor /\ page.next.id = id
      BY <2>2, <2>11
    <3>4. RetainedForSomeone'
      BY <2>3, <2>11, <3>2, <3>3 DEF IInv, RetainedForSomeone, Live
    <3>5. Linked(k, page.next)'
      BY <1>0, <1>1, <2>3, <3>2, <3>3 DEF Linked
    <3>6. Paging(k)'
      BY <1>1, <2>3, <2>5, <2>7, <3>2, <3>3, <3>5 DEF Paging
    <3> QED
      BY <2>9, <3>2, <3>4, <3>6
  <2> QED
    BY <2>10, <2>11
<1> QED
  BY <1>3, <1>5, <1>6

(* A cursor whose entry is live is served from the client's own projection, *)
(* before either of its deadlines.                                          *)
LEMMA CursorLive ==
  ASSUME IInv, NEW k \in Clients, pc[k] = "paging", NEW c \in Cursors(k), c.id \in Live
  PROVE  /\ entries[c.id].projection = projection[k]
         /\ entries[c.id].created = since[k]
         /\ now < served[k] + Idle /\ now < since[k] + Absolute
<1>1. c.id \in DOMAIN entries /\ now < Deadline(entries[c.id])
  BY DEF Live
<1>2. Paging(k)
  BY DEF IInv, ClientsInv
<1>3. /\ entries[c.id].projection = projection[k] /\ entries[c.id].created = since[k]
      /\ entries[c.id].idleUntil = served[k] + Idle
  BY <1>1, <1>2 DEF Paging, Linked
<1>4. /\ since[k] \in Nat /\ served[k] \in Nat /\ Idle \in Nat /\ Absolute \in Nat
      /\ now \in Nat
  BY <1>2, ProjectionsAssumption DEF Paging, IInv, Shapes
<1>5. now < (IF served[k] + Idle < since[k] + Absolute
             THEN served[k] + Idle ELSE since[k] + Absolute)
  BY <1>1, <1>3 DEF Deadline
<1>6. now < served[k] + Idle /\ now < since[k] + Absolute
  BY <1>4, <1>5
<1> QED
  BY <1>3, <1>6

(* cursorPage for an entry that is alive: the page of that entry at the     *)
(* offset of the cursor, and the entry is renewed.                          *)
LEMMA CursorPageServedStep ==
  ASSUME IInv, NEW k \in Clients, pc[k] = "paging", NEW c \in Cursors(k),
         CursorPageServed(k, c)
  PROVE  IInv'
<1> DEFINE p == projection[k]
           earlier == IF c = used[k] THEN before[k] ELSE gathered[k]
           off == c.offset
           lim == c.limit
           id == c.id
<1>0. /\ ~ closed /\ now' = now /\ closed' = closed /\ installed' = installed
      /\ issued' = issued /\ UNCHANGED <<ask, projection>>
  BY DEF CursorPageServed
<1>1. PICK page \in Pages(c) : /\ entries' = Renewed(id) /\ bytes' = KeptBytes
                              /\ Deliver(k, earlier, page, c, since[k])
  BY DEF CursorPageServed
<1>2. /\ id \in Live /\ Inside(c)
      /\ page \in BoundedPages(entries[id].projection, off, lim, id)
  BY <1>1 DEF Pages
<1>3. entries[id].projection = p /\ entries[id].created = since[k]
  BY <1>2, CursorLive
<1>4. Paging(k) /\ Linked(k, c) /\ Prefix(k)
  BY DEF IInv, ClientsInv, Paging
<1>5. /\ c \in Cursor /\ id \in 1 .. issued /\ id \in Nat /\ off \in Nat /\ lim \in Nat
      /\ issued \in Nat /\ now \in Nat /\ since[k] \in Nat
  BY <1>4 DEF Linked, Cursor, Paging, IInv, Shapes
<1>6. p \in Projection /\ ItemCount(p) \in Nat
  BY BuiltType, FlatJoined DEF IInv
<1>7. /\ earlier \in Seq(Item) /\ Matches(earlier, Flat(p), 0) /\ Len(earlier) = off
  <2>0. c \in {used[k], cursor[k]} /\ c # None
    BY DEF Cursors
  <2>1. CASE c = used[k]
    BY <1>4, <2>0, <2>1 DEF Prefix
  <2>2. CASE c # used[k]
    BY <1>4, <2>0, <2>2 DEF Prefix
  <2> QED
    BY <2>1, <2>2
<1> HIDE DEF p, earlier, off, lim, id
<1>8. off <= ItemCount(p)
  <2>1. off \in 1 .. ItemCount(p) - 1
    BY <1>2, <1>3 DEF Inside, off, id
  <2> QED
    BY <1>5, <1>6, <2>1
<1>9. GoodPage(page, p, off, lim, id)
  <2>1. page \in BoundedPages(p, off, lim, id)
    BY <1>2, <1>3
  <2> QED
    BY <1>5, <1>6, <1>8, <2>1, BoundedPageGood
<1>10. /\ PageOK(page, p, off)
       /\ page.next # None => page.next \in Cursor /\ page.next.id = id
  BY <1>5, <1>6, <1>9, GoodPageOK
<1>11. /\ ClientShapes'
       /\ \A l \in Clients \ {k} : Stays(l)
       /\ pc'[k] = "paging" /\ ask'[k] = ask[k] /\ projection'[k] = p
       /\ before'[k] = earlier /\ gathered'[k] = earlier \o page.items
       /\ used'[k] = c /\ cursor'[k] = page.next
       /\ since'[k] = since[k] /\ served'[k] = now
       /\ handed' = handed \cup {d.id : d \in {page.next} \ {None}}
  BY <1>0, <1>1, Delivered DEF IInv, p
<1>12. /\ StoreInv' /\ Moves({id}) /\ DOMAIN entries' = Live
       /\ entries'[id].projection = p
       /\ entries'[id].created = since[k]
       /\ entries'[id].idleUntil = now + Idle
  BY <1>0, <1>1, <1>2, <1>3, RenewStore DEF IInv, StoreInv
<1>13. RetainedForSomeone'
  BY <1>11, <1>12 DEF IInv, RetainedForSomeone, Live
<1>14. Shapes'
  BY <1>0, <1>11 DEF IInv, Shapes, ClientShapes
<1>15. Prefix(k)'
  <2>1. used'[k].offset = Len(earlier)
    BY <1>7, <1>11 DEF off
  <2>2. projection'[k] \in Projection /\ PageOK(page, projection'[k], Len(earlier))
    BY <1>6, <1>7, <1>10, <1>11
  <2> QED
    BY <1>7, <1>11, <2>1, <2>2, PrefixDelivered
<1>16. Cursors(k)' \subseteq {c, page.next} \ {None}
  BY <1>11 DEF Cursors
<1>17. \A d \in Cursors(k)' : d \in Cursor /\ d.id = id
  BY <1>5, <1>10, <1>16 DEF id
<1>18. \A d \in Cursors(k)' : Linked(k, d)'
  <2> SUFFICES ASSUME NEW d \in Cursors(k)'  PROVE  Linked(k, d)'
    OBVIOUS
  <2>1. d \in Cursor /\ d.id = id
    BY <1>17
  <2>2. d.id \in 1 .. issued'
    BY <1>0, <1>5, <2>1
  <2> QED
    BY <1>11, <1>12, <2>1, <2>2 DEF Linked
<1>19. Paging(k)'
  <2>1. cursor'[k] # None => cursor'[k].id \in DOMAIN entries'
    BY <1>2, <1>10, <1>11, <1>12
  <2> QED
    BY <1>5, <1>11, <1>15, <1>18, <2>1 DEF Paging
<1>20. Request(k)'
  BY <1>11, RequestKept DEF p
<1>21. \A l \in Clients \ {k} : pc[l] = "paging" => \A d \in Cursors(l) : d.id # id
  BY DEF IInv, ClientsInv, Apart, id
<1>22. ClientsInv'
  <2>1. \A l \in Clients \ {k} : pc[l] = "paging" => \A d \in Cursors(l) : d.id \notin {id}
    BY <1>21
  <2>2. \A l \in Clients \ {k} : pc[l] = "paging" =>
          \A d \in Cursors(k)', e \in Cursors(l) : d.id # e.id
    BY <1>17, <1>21
  <2> QED
    BY <1>11, <1>12, <1>19, <1>20, <2>1, <2>2, ClientsStep DEF IInv
<1> QED
  BY <1>12, <1>13, <1>14, <1>22 DEF IInv, StoreInv

(* cursorPage on a closed store, for an entry that is gone or with a cursor *)
(* that does not fit it.                                                    *)
LEMMA CursorPageRefusedStep ==
  ASSUME IInv, NEW k \in Clients, NEW c, NEW limit, CursorPageRefused(k, c, limit)
  PROVE  IInv'
<1>0. /\ now' = now /\ issued' = issued /\ closed' = closed /\ handed' = handed
      /\ installed' = installed
  BY DEF CursorPageRefused
<1>1. \A l \in Clients : Stays(l)
  BY DEF IInv, Shapes, CursorPageRefused, Answer, Stays, pageVars
<1>2. Shapes'
  BY DEF IInv, Shapes, CursorPageRefused, Answer, pageVars
<1>3. CASE UNCHANGED <<entries, bytes>>
  <2>1. Store' /\ AccountingExact' /\ RetainedForSomeone' /\ Moves({})
    BY <1>0, <1>3, StoreUntouched DEF storeVars
  <2>2. ClientsInv'
    BY <1>1, <2>1, ClientsStay DEF IInv
  <2> QED
    BY <1>2, <2>1, <2>2 DEF IInv
<1>4. CASE SweepLocked
  <2>1. StoreInv' /\ Moves({}) /\ DOMAIN entries' = Live
    BY <1>0, <1>4, SweepStore DEF IInv, StoreInv
  <2>2. RetainedForSomeone'
    BY <1>0, <2>1 DEF IInv, RetainedForSomeone, Live
  <2>3. ClientsInv'
    BY <1>1, <2>1, ClientsStay DEF IInv
  <2> QED
    BY <1>2, <2>1, <2>2, <2>3 DEF IInv, StoreInv
<1> QED
  BY <1>3, <1>4 DEF CursorPageRefused

(* An empty store satisfies the invariant.                                  *)
LEMMA InitInv == Init => IInv
<1> SUFFICES ASSUME Init  PROVE  IInv
  OBVIOUS
<1>1. Shapes
  <2>1. closed \in BOOLEAN
    BY Zenon DEF Init
  <2> QED
    BY <2>1 DEF Init, Shapes
<1>2. DOMAIN entries = {}
  BY DEF Init
<1>3. Store /\ RetainedForSomeone
  BY <1>2 DEF Store, RetainedForSomeone
<1>4. AccountingExact
  <2>1. Total(EntryBytes, {}) = 0 /\ Cardinality({}) = 0
    BY TotalEmpty, FS_EmptySet
  <2>2. Total(EntryBytes, DOMAIN entries) = Total(EntryBytes, {})
    BY <1>2, Zenon
  <2>3. Cardinality(DOMAIN entries) = Cardinality({})
    BY <1>2, Zenon
  <2>4. MaxCount \in Nat /\ MaxBytes \in Nat /\ bytes = 0
    BY ProjectionsAssumption DEF Init
  <2> QED
    BY <1>2, <2>1, <2>2, <2>3, <2>4 DEF AccountingExact
<1>5. \A k \in Clients : pc[k] = "idle"
  BY DEF Init
<1>6. ClientsInv
  BY <1>5 DEF ClientsInv, Request
<1> QED
  BY <1>1, <1>3, <1>4, <1>6 DEF IInv

(* So does a step that changes nothing here.                                *)
LEMMA StutterStep ==
  ASSUME IInv, UNCHANGED vars  PROVE  IInv'
<1>1. Shapes'
  BY DEF IInv, Shapes, vars, storeVars, clientVars, pageVars
<1>2. Store' /\ AccountingExact' /\ RetainedForSomeone' /\ Moves({})
  <2>1. UNCHANGED <<now, storeVars, handed>>
    BY DEF vars, clientVars
  <2> QED
    BY <2>1, StoreUntouched
<1>3. \A l \in Clients : Stays(l)
  BY DEF Stays, vars, clientVars, pageVars
<1>4. ClientsInv'
  BY <1>2, <1>3, ClientsStay DEF IInv
<1> QED
  BY <1>1, <1>2, <1>4 DEF IInv

(* cursorPage, whether it serves or refuses.                                *)
LEMMA CursorPageStep ==
  ASSUME IInv, NEW k \in Clients, NEW c, NEW limit, CursorPage(k, c, limit)
  PROVE  IInv'
<1>1. pc[k] = "paging" /\ c \in Cursors(k)
  BY DEF CursorPage, Cursors
<1>2. CASE CursorPageServed(k, c)
  BY <1>1, <1>2, CursorPageServedStep
<1>3. CASE CursorPageRefused(k, c, limit)
  BY <1>3, CursorPageRefusedStep
<1> QED
  BY <1>2, <1>3 DEF CursorPage

(* IInv is inductive: what the store holds and what the clients have stay   *)
(* in step, whatever the registry, the clock and the other clients do.      *)
THEOREM InductiveInvariant == Spec => []IInv
<1>1. ASSUME IInv, [Next]_vars  PROVE  IInv'
  <2>1. CASE RegistryChanges
    BY <1>1, <2>1, RegistryStep
  <2>2. CASE Tick
    BY <1>1, <2>2, TickStep
  <2>3. CASE Stats
    BY <1>1, <2>3, StatsStep
  <2>4. CASE Close
    BY <1>1, <2>4, CloseStep
  <2>5. ASSUME NEW k \in Clients, NEW include \in Includes, NEW limit \in Limits,
               Describe(k, include, limit)
        PROVE  IInv'
    BY <1>1, <2>5, DescribeStep
  <2>6. ASSUME NEW k \in Clients, Lookup(k)  PROVE  IInv'
    BY <1>1, <2>6, LookupStep
  <2>7. ASSUME NEW k \in Clients, FirstPageClosed(k)  PROVE  IInv'
    BY <1>1, <2>7, FirstPageClosedStep
  <2>8. ASSUME NEW k \in Clients, FirstPageWhole(k)  PROVE  IInv'
    BY <1>1, <2>8, FirstPageWholeStep
  <2>9. ASSUME NEW k \in Clients, FirstPageRefused(k)  PROVE  IInv'
    BY <1>1, <2>9, FirstPageRefusedStep
  <2>10. ASSUME NEW k \in Clients, FirstPageCached(k)  PROVE  IInv'
    BY <1>1, <2>10, FirstPageCachedStep
  <2>11. ASSUME NEW k \in Clients, NEW c \in {used[k], cursor[k]}, NEW limit \in Limits,
                CursorPage(k, c, limit)
         PROVE  IInv'
    BY <1>1, <2>11, CursorPageStep
  <2>12. CASE UNCHANGED vars
    BY <1>1, <2>12, StutterStep
  <2> QED
    BY <1>1, <2>1, <2>2, <2>3, <2>4, <2>5, <2>6, <2>7, <2>8, <2>9, <2>10, <2>11, <2>12
       DEF Next
<1> QED
  BY <1>1, InitInv, PTL DEF Spec

(* The byte count and the quotas of the cache are exact after every step,   *)
(* sweeps, renewals and Close included.                                     *)
THEOREM AccountingCorrect == Spec => []AccountingExact
<1>1. IInv => AccountingExact
  BY DEF IInv
<1> QED
  BY <1>1, InductiveInvariant, PTL

(* No projection is cached for which no client has a cursor.                *)
THEOREM RetainedCorrect == Spec => []RetainedForSomeone
<1>1. IInv => RetainedForSomeone
  BY DEF IInv
<1> QED
  BY <1>1, InductiveInvariant, PTL

(* A cursor that is within its idle and its absolute time finds its entry,  *)
(* and in it the projection its client's pages were cut from.               *)
THEOREM HonouredCorrect == Spec => []CursorHonoured
<1>1. IInv => CursorHonoured
  <2> SUFFICES ASSUME IInv, NEW k \in Clients, pc[k] = "paging", cursor[k] # None,
                      ~ closed, now < served[k] + Idle, now < since[k] + Absolute
               PROVE  /\ cursor[k].id \in DOMAIN entries
                      /\ entries[cursor[k].id].projection = projection[k]
    BY DEF CursorHonoured
  <2>1. Paging(k)
    BY DEF IInv, ClientsInv
  <2>2. cursor[k].id \in DOMAIN entries
    BY <2>1 DEF Paging
  <2>3. Linked(k, cursor[k])
    BY <2>1 DEF Paging, Cursors
  <2> QED
    BY <2>2, <2>3 DEF Linked
<1> QED
  BY <1>1, InductiveInvariant, PTL

(* The pages of a client tile its projection: one generation, in order, no  *)
(* gap, and all of it once there is no cursor.                              *)
LEMMA PrefixTiles ==
  ASSUME IInv, NEW k \in Clients, pc[k] = "paging"
  PROVE  /\ Cardinality({item.record : item \in Range(gathered[k])}) <= 1
         /\ Range(gathered[k]) \subseteq Wanted(k)
         /\ \A i, j \in DOMAIN gathered[k] : i < j => Before(gathered[k][i], gathered[k][j])
         /\ \A wanted \in Wanted(k) \ Range(gathered[k]) :
              cursor[k] # None /\ \A got \in Range(gathered[k]) : Before(got, wanted)
         /\ gathered[k] # before[k] \/ Wanted(k) = {}
<1> DEFINE include == ask[k].include
           p == projection[k]
           F == Flat(p)
           q == gathered[k]
           records == {item.record : item \in Range(q)}
<1>1. PICK r \in Records : p = BuildProjection(r, include)
  BY DEF IInv, ClientsInv, Request
<1>2. Range(include) \subseteq Range(Sections)
  BY DEF IInv, ClientsInv, Request, ValidInclude
<1>3. Ordered(F) /\ OfGeneration(F, r, include) /\ Full(F, r, include)
  BY <1>1, <1>2, FlatOfBuilt
<1>4. p \in Projection
  BY BuiltType DEF IInv
<1>5. F \in Seq(Item) /\ Len(F) = ItemCount(p) /\ Len(F) \in Nat
  BY <1>4, FlatJoined
<1>6. Prefix(k)
  BY DEF IInv, ClientsInv, Paging
<1>7. q \in Seq(Item) /\ before[k] \in Seq(Item) /\ Len(q) <= Len(F)
  BY <1>5, <1>6 DEF Prefix
<1>8. DOMAIN q = 1 .. Len(q) /\ Len(q) \in Nat /\ DOMAIN F = 1 .. Len(F)
  BY <1>5, <1>7
<1>9. Matches(q, F, 0)
  BY <1>6 DEF Prefix
<1>10. Len(before[k]) < Len(q) \/ Len(F) = 0
  BY <1>5, <1>6 DEF Prefix
<1>11. cursor[k] = None => Len(q) = Len(F)
  BY <1>5, <1>6 DEF Prefix
<1>w. Wanted(k) = {item \in Item : /\ item.record \in records
                                   /\ item.section \in Range(include)
                                   /\ item.id \in Contents[item.record][item.section]}
  BY DEF Wanted
<1> HIDE DEF include, p, F, q, records
<1>12. \A i \in 1 .. Len(q) : q[i] = F[i] /\ i \in 1 .. Len(F)
  <2> TAKE i \in 1 .. Len(q)
  <2>1. i \in 1 .. Len(F) /\ 0 + i = i
    BY <1>5, <1>7, <1>8
  <2>2. q[i] = F[0 + i]
    BY <1>9 DEF Matches
  <2> QED
    BY <2>1, <2>2
<1>13. \A item \in Range(q) : \E i \in 1 .. Len(q) : item = F[i] /\ i \in 1 .. Len(F)
  BY <1>8, <1>12 DEF Range
<1>14. \A item \in Range(q) :
         /\ item.record = r /\ item.section \in Range(include)
         /\ item.id \in Contents[r][item.section]
         /\ item = [record |-> r, section |-> item.section, id |-> item.id]
  BY <1>3, <1>13 DEF OfGeneration
<1>15. records \subseteq {r} /\ (Range(q) # {} => r \in records)
  BY <1>14 DEF records
<1>16. Cardinality(records) <= 1
  <2>1. IsFiniteSet({r}) /\ Cardinality({r}) = 1
    BY FS_Singleton
  <2> QED
    BY <1>15, <2>1, FS_Subset
<1>17. \A w \in Wanted(k) :
         /\ r \in records /\ w.section \in Range(include) /\ w.id \in Contents[r][w.section]
         /\ w = [record |-> r, section |-> w.section, id |-> w.id]
  <2> TAKE w \in Wanted(k)
  <2>1. w \in Item /\ w.record = r /\ r \in records
    BY <1>w, <1>15
  <2>2. w = [record |-> w.record, section |-> w.section, id |-> w.id]
    BY <2>1 DEF Item
  <2> QED
    BY <1>w, <2>1, <2>2
<1>18. Range(q) \subseteq Wanted(k)
  <2> SUFFICES ASSUME NEW item \in Range(q)  PROVE  item \in Wanted(k)
    OBVIOUS
  <2>1. item \in Item
    BY <1>7, <1>8 DEF Range
  <2> QED
    BY <1>w, <1>14, <1>15, <2>1
<1>19. \A i, j \in DOMAIN q : i < j => Before(q[i], q[j])
  BY <1>3, <1>8, <1>12 DEF Ordered
<1>20. ASSUME NEW w \in Wanted(k) \ Range(q)
       PROVE  cursor[k] # None /\ \A got \in Range(q) : Before(got, w)
  <2>1. w \in Range(F)
    BY <1>3, <1>17 DEF Full
  <2>2. PICK j \in 1 .. Len(F) : w = F[j]
    BY <1>8, <2>1 DEF Range
  <2>3. j \notin 1 .. Len(q)
    BY <1>8, <1>12, <2>2 DEF Range
  <2>4. j > Len(q)
    BY <1>5, <1>8, <2>3
  <2>5. cursor[k] # None
    BY <1>5, <1>8, <1>11, <2>4
  <2>6. ASSUME NEW got \in Range(q)  PROVE  Before(got, w)
    <3>1. PICK i \in 1 .. Len(q) : got = F[i] /\ i \in 1 .. Len(F)
      BY <1>13
    <3>2. i < j
      BY <1>8, <2>4
    <3> QED
      BY <1>3, <2>2, <3>1, <3>2 DEF Ordered
  <2> QED
    BY <2>5, <2>6
<1>21. q # before[k] \/ Wanted(k) = {}
  <2>1. CASE Len(before[k]) < Len(q)
    BY <1>8, <2>1
  <2>2. CASE Len(F) = 0
    <3>1. Range(q) = {}
      BY <1>5, <1>8, <1>13, <2>2
    <3>2. records = {}
      BY <3>1 DEF records
    <3> QED
      BY <1>17, <3>2
  <2> QED
    BY <1>10, <2>1, <2>2
<1> QED
  BY <1>16, <1>18, <1>19, <1>20, <1>21 DEF records, q

(* Whatever is reinstalled and whichever cursor is sent twice, the pages a  *)
(* client has put together are a beginning of one generation's description. *)
THEOREM TilesCorrect == Spec => []PagesTile
<1>1. IInv => PagesTile
  BY PrefixTiles DEF PagesTile
<1> QED
  BY <1>1, InductiveInvariant, PTL

(* No step serves a page to a paging client after its idle or its absolute  *)
(* time.                                                                    *)
THEOREM ServedCorrect == Spec => ServedWhileAlive
<1> DEFINE Alive == \A k \in Clients :
             pc[k] = "paging" /\ pc'[k] = "paging"
               /\ <<served[k], gathered[k]>>' # <<served[k], gathered[k]>>
               => now < served[k] + Idle /\ now < since[k] + Absolute
<1>1. ASSUME IInv, [Next]_vars  PROVE  [Alive]_vars
  <2> SUFFICES ASSUME Next, NEW k \in Clients, pc[k] = "paging", pc'[k] = "paging",
                      <<served[k], gathered[k]>>' # <<served[k], gathered[k]>>
               PROVE  now < served[k] + Idle /\ now < since[k] + Absolute
    BY <1>1
  <2>0. Shapes
    BY <1>1 DEF IInv
  <2>1. ~ RegistryChanges /\ ~ Tick /\ ~ Stats /\ ~ Close
    BY DEF RegistryChanges, Tick, Stats, Close, clientVars, pageVars
  <2>2. ASSUME NEW l \in Clients, NEW include, NEW limit, Describe(l, include, limit)
        PROVE  FALSE
    BY <2>0, <2>2 DEF Describe, Answer, Shapes
  <2>3. ASSUME NEW l \in Clients, Lookup(l) \/ FirstPageClosed(l) \/ FirstPageRefused(l)
        PROVE  FALSE
    BY <2>3 DEF Lookup, FirstPageClosed, FirstPageRefused, pageVars
  <2>4. ASSUME NEW l \in Clients, FirstPageWhole(l)  PROVE  FALSE
    BY <2>0, <2>4 DEF FirstPageWhole, Deliver, Shapes
  <2>5. ASSUME NEW l \in Clients, FirstPageCached(l)  PROVE  FALSE
    BY <2>0, <2>5 DEF FirstPageCached, Deliver, pageVars, Shapes
  <2>6. ASSUME NEW l \in Clients, NEW c, NEW limit, CursorPage(l, c, limit)
        PROVE  now < served[k] + Idle /\ now < since[k] + Absolute
    <3>1. CursorPageServed(l, c) /\ pc[l] = "paging" /\ c \in Cursors(l)
      BY <2>6 DEF CursorPage, CursorPageRefused, pageVars, Cursors
    <3>2. l = k
      BY <2>0, <3>1 DEF CursorPageServed, Deliver, Shapes
    <3>3. c.id \in Live
      BY <3>1 DEF CursorPageServed, Pages
    <3> QED
      BY <1>1, <3>1, <3>2, <3>3, CursorLive
  <2> QED
    BY <2>1, <2>2, <2>3, <2>4, <2>5, <2>6 DEF Next
<1>2. ServedWhileAlive <=> [][Alive]_vars
  BY DEF ServedWhileAlive
<1> HIDE DEF Alive
<1> QED
  BY <1>1, <1>2, InductiveInvariant, PTL DEF Spec
===============================================================================
