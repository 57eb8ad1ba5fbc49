-------------------------------- MODULE Search --------------------------------
(***************************************************************************)
(* Lexical search over the installed capabilities, internal/capability/     *)
(* search.go: how one record matches a query, and how matches are ranked.   *)
(*                                                                         *)
(* A text is any value; Exact gives its normalised full text and Tokens the *)
(* set of its normalised tokens.  Only the lengths and the overlap of token *)
(* sets matter to a score.                                                  *)
(***************************************************************************)
EXTENDS CapabilityRegistry, Counting, Sequences, SequencesExt

CONSTANTS Queries,       (* texts clients search for                       *)
          Exact,         (* text -> its normalised full text              *)
          Tokens,        (* text -> the set of its tokens                 *)
          TokenBytes,    (* token -> its length in bytes                  *)
          Name,          (* record -> its display name                    *)
          Description,   (* record -> its description                     *)
          Tags,          (* record -> the set of its tags                 *)
          OperationList, (* record -> its operations, in package order:   *)
                         (*   [id, qualified, description]                *)
          SkillList,     (* record -> its skills: [name, description]     *)
          PathOrder      (* every hierarchy path but the root, sorted     *)

ASSUME SearchAssumption ==
  /\ \A t \in DOMAIN TokenBytes : TokenBytes[t] \in Nat \ {0}
  /\ \A t \in DOMAIN Tokens : IsFiniteSet(Tokens[t]) /\ Tokens[t] \subseteq DOMAIN TokenBytes
  /\ Queries \subseteq DOMAIN Tokens
  /\ \A r \in Records :
       /\ {Name[r], Description[r]} \subseteq DOMAIN Tokens
       /\ \A o \in Range(OperationList[r]) : o.description \in DOMAIN Tokens
       /\ \A s \in Range(SkillList[r]) : {s.name, s.description} \subseteq DOMAIN Tokens
       /\ SkillList[r] \in Seq(Range(SkillList[r]))
       /\ OperationList[r] \in Seq(Range(OperationList[r]))
       /\ {OperationList[r][i].id : i \in DOMAIN OperationList[r]} = Operations[r]
       /\ \A i, j \in DOMAIN OperationList[r] :
            OperationList[r][i].id = OperationList[r][j].id => i = j
       /\ Places[r] \subseteq DOMAIN Parent
  /\ PathOrder \in Seq(DOMAIN Parent)
  /\ DOMAIN Parent = {PathOrder[i] : i \in DOMAIN PathOrder}
  /\ IsInjective(PathOrder)

ExactScore == 1000000
MinimumScore == 375000

(* The order of capability IDs.                                             *)
Position(c) == CHOOSE i \in DOMAIN PathOrder : PathOrder[i] = c

SearchTokenBytes(ts) == Total(TokenBytes, ts)

(* Query coverage, field coverage and overlap, weighted.                    *)
Score(overlap, query, field) ==
  IF overlap = 0 THEN 0
  ELSE (500000 * overlap) \div query + (250000 * overlap) \div field
         + (IF 25000 * overlap > 250000 THEN 250000 ELSE 25000 * overlap)

LexicalSearchScore(q, f) ==
  Score(SearchTokenBytes(Tokens[q] \cap Tokens[f]),
        SearchTokenBytes(Tokens[q]), SearchTokenBytes(Tokens[f]))

(* bestLexicalMatch: the first of the best fields, if it is good enough.    *)
(* A match is a set with one element, no match the empty set.               *)
FirstBest(score) ==
  {i \in DOMAIN score :
     /\ score[i] >= MinimumScore
     /\ \A j \in DOMAIN score : score[j] < score[i] \/ (score[j] = score[i] /\ i <= j)}

BestLexicalMatch(q, tier, kind, fields) ==
  {[tier |-> tier, score |-> LexicalSearchScore(q, fields[i].text), kind |-> kind,
    field |-> fields[i].name] :
     i \in FirstBest([j \in DOMAIN fields |-> LexicalSearchScore(q, fields[j].text)])}

ExactSearchMatch(q, texts, tier, kind, field) ==
  {[tier |-> tier, score |-> ExactScore, kind |-> kind, field |-> field] :
     t \in {Exact[t] : t \in texts} \cap {Exact[q]}}

(* hasExactSearchIdentifierLocked, over the whole registry.                 *)
QualifiedIdentifier(q) ==
  \E r \in Installed :
    \/ Exact[IdOf[r]] = Exact[q]
    \/ \E i \in DOMAIN OperationList[r] : Exact[OperationList[r][i].qualified] = Exact[q]

CapabilityFields(r) == <<[name |-> "capability_name", text |-> Name[r]],
                         [name |-> "capability_description", text |-> Description[r]]>>
OperationFields(r) ==
  [i \in DOMAIN OperationList[r] |->
     [name |-> "operation_description", text |-> OperationList[r][i].description]]
SkillFields(r) ==
  [i \in 1 .. 2 * Len(SkillList[r]) |->
     LET s == SkillList[r][(i + 1) \div 2]
     IN  IF i % 2 = 1 THEN [name |-> "skill_name", text |-> s.name]
         ELSE [name |-> "skill_description", text |-> s.description]]

(* The kinds of matches, in the order matchCapability looks for them.       *)
MatchKinds(q, r) ==
  LET operations == Range(OperationList[r])
      skills == Range(SkillList[r])
  IN  <<ExactSearchMatch(q, {IdOf[r]}, 1, "exact_capability_id", "capability_id"),
        ExactSearchMatch(q, {o.qualified : o \in operations}, 1, "exact_operation_id", "operation_id"),
        ExactSearchMatch(q, {Name[r]}, 2, "exact_capability_name", "capability_name"),
        ExactSearchMatch(q, Tags[r], 3, "exact_tag", "tag"),
        ExactSearchMatch(q, {o.id : o \in operations}, 3, "exact_local_operation_id", "local_operation_id"),
        ExactSearchMatch(q, {s.name : s \in skills}, 3, "exact_skill_name", "skill_name"),
        BestLexicalMatch(q, 4, "lexical_capability", CapabilityFields(r)),
        BestLexicalMatch(q, 5, "lexical_operation", OperationFields(r)),
        BestLexicalMatch(q, 5, "lexical_skill", SkillFields(r))>>

(* matchCapability: the first kind of match that applies; a query that      *)
(* names something installed matches nothing but what it names.             *)
Matches == [q \in Queries |-> [r \in Records |-> MatchKinds(q, r)]]
MatchCapability(q, r, qualified) ==
  LET kinds == Matches[q][r]
      tried == IF qualified THEN 1 .. 2 ELSE 1 .. 9
  IN  UNION {kinds[i] : i \in {k \in tried : \A j \in 1 .. k - 1 : kinds[j] = {}}}

(* capabilityInPath.                                                        *)
Above[n \in DOMAIN Parent] ==
  {n} \cup IF Parent[n] = Root THEN {} ELSE Above[Parent[n]]
CapabilityInPath(c, n) == n = Root \/ n \in Above[c]

(* The order of the results, decided by the ID in the end.                  *)
RankedBefore(a, b) ==
  \/ a.tier < b.tier
  \/ a.tier = b.tier /\ a.score > b.score
  \/ a.tier = b.tier /\ a.score = b.score /\ Position(a.id) < Position(b.id)

FirstResults(ranked, limit) == SubSeq(ranked, 1, IF limit < Len(ranked) THEN limit ELSE Len(ranked))

(* What matches among the records of scope, ranked.                         *)
Ranked(q, scope, qualified) ==
  LET result(r, m) == [id |-> IdOf[r], tier |-> m.tier, score |-> m.score,
                       kind |-> m.kind, field |-> m.field]
      found == UNION {{result(r, m) : m \in MatchCapability(q, r, qualified)} : r \in scope}
  IN  SortedBy(found, {p \in found \X found : RankedBefore(p[1], p[2])})

(* Faulty variant: only the selected path is searched for the identifier.   *)
SearchScopedIdentifier(q, n, limit) ==
  LET scope == {r \in Installed : CapabilityInPath(IdOf[r], n)}
      qualified == QualifiedIdentifier(q) /\ \E r \in scope : MatchCapability(q, r, TRUE) # {}
  IN  FirstResults(Ranked(q, scope, qualified), limit)

(* The results of searchAndBrowse: what matches in the path, ranked, and no *)
(* more than limit of it.  A query without tokens finds nothing.            *)
SearchResults(q, n, limit) ==
  LET scope == IF Tokens[q] = {} THEN {} ELSE {r \in Installed : CapabilityInPath(IdOf[r], n)}
  IN  FirstResults(Ranked(q, scope, QualifiedIdentifier(q)), limit)
-----------------------------------------------------------------------------
(* docs/MILESTONE_3_SEARCH_CONTRACT.md, the table of match kinds: row by    *)
(* row the fields of a record that count.                                   *)
ContractTier == <<1, 1, 2, 3, 3, 3, 4, 5, 5>>
ContractFields(r) ==
  LET operations == Range(OperationList[r])
      skills == Range(SkillList[r])
  IN  {<<1, IdOf[r]>>, <<3, Name[r]>>, <<7, Name[r]>>, <<7, Description[r]>>}
      \cup {<<4, t>> : t \in Tags[r]}
      \cup (UNION {{<<2, o.qualified>>, <<5, o.id>>, <<8, o.description>>} : o \in operations})
      \cup (UNION {{<<6, s.name>>, <<9, s.name>>, <<9, s.description>>} : s \in skills})

(* What a field is worth, and nothing when it does not qualify.             *)
FieldScore(q, f) ==
  CASE f[1] <= 6 /\ Exact[f[2]] = Exact[q]                             -> ExactScore
    [] f[1] > 6 /\ LexicalSearchScore(q, f[2]) >= MinimumScore          -> LexicalSearchScore(q, f[2])
    [] OTHER                                                           -> 0

(* The fields of a record that qualify for a query, and those that name it. *)
Evidence ==
  [q \in Queries |-> [r \in Records |-> {f \in ContractFields(r) : FieldScore(q, f) > 0}]]
Names(q, r) == \E f \in Evidence[q][r] : f[1] <= 2

(* The rank of a record: the first row with a field that qualifies, and the *)
(* best score in that row.                                                  *)
ContractRank(q, r) ==
  LET row == Min({f[1] : f \in Evidence[q][r]})
  IN  [id |-> IdOf[r], tier |-> ContractTier[row],
       score |-> Max({FieldScore(q, f) : f \in {e \in Evidence[q][r] : e[1] = row}})]

(* The records a query may find below path n: "A query whose normalized     *)
(* full text matches an installed capability ID or fully qualified          *)
(* operation ID anywhere in the catalog is exact-only".                     *)
ContractScope(q, n) ==
  {r \in Installed :
     /\ n = Root \/ n \in Above[IdOf[r]]
     /\ Evidence[q][r] # {}
     /\ (\E s \in Installed : Names(q, s)) => Names(q, r)}
===============================================================================
