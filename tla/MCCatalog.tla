------------------------------- MODULE MCCatalog ------------------------------
(***************************************************************************)
(* The three records of MCCapabilityRegistry with what search and browsing  *)
(* read of them.  The two operations of r3 go to tools of the same name at  *)
(* different providers.  The query "math" names r3's capability and is a    *)
(* tag of r1, "plus" is an operation of r3 and the name of r1, and "adds    *)
(* numbers" is found in descriptions only: in operations of r1 and r3,      *)
(* which are equally good, and in a skill of r2.                            *)
(***************************************************************************)
EXTENDS MCCapabilityRegistry, Catalog

CONSTANTS b1, l1, l2  (* the browser and its two lookups *)

MCLookups == b1 :> <<l1, l2>>

MCFold == [t \in {"math", "math.add", "ops", "math/plus", "math/add", "math.add/add",
                  "add", "plus", "adds numbers", "Sum", "sum", "numbers", "none", "+"} |->
             IF t = "Sum" THEN "sum" ELSE t]
MCTokens == [t \in DOMAIN MCFold |->
               CASE t = "adds numbers" -> {"adds", "numbers"}
                 [] t = "+" -> {}
                 [] t \in {"Sum", "sum"} -> {"sum"}
                 [] OTHER -> {t}]
MCTokenBytes == [t \in UNION {MCTokens[u] : u \in DOMAIN MCTokens} |->
                   CASE t = "numbers" -> 7 [] t = "math/plus" -> 9 [] OTHER -> 4]
MCName == (r1 :> "plus") @@ (r2 :> "Sum") @@ (r3 :> "math")
MCDescription == (r1 :> "none") @@ (r2 :> "numbers") @@ (r3 :> "none")
MCTags == (r1 :> {"math"}) @@ (r2 :> {}) @@ (r3 :> {"none"})
MCOperationList ==
  (r1 :> <<[id |-> "add", qualified |-> "math.add/add", description |-> "adds numbers"]>>) @@
  (r2 :> <<[id |-> "add", qualified |-> "math.add/add", description |-> "none"]>>) @@
  (r3 :> <<[id |-> "plus", qualified |-> "math/plus", description |-> "adds numbers"],
           [id |-> "add", qualified |-> "math/add", description |-> "numbers"]>>)
MCSkillList == (r1 :> <<>>) @@ (r2 :> <<[name |-> "sum", description |-> "adds numbers"]>>) @@
               (r3 :> <<>>)
MCPathOrder == <<"math", "math.add", "ops">>
MCQueries == {"math", "plus", "adds numbers"}
MCRequests == {[query |-> "adds numbers", path |-> "/", limit |-> 2, childLimit |-> 2],
               [query |-> "plus", path |-> "/", limit |-> 1, childLimit |-> 1],
               [query |-> "plus", path |-> "math", limit |-> 2, childLimit |-> 1],
               [query |-> "math", path |-> "math.add", limit |-> 1, childLimit |-> 0]}
MCAskedPaths == {"/", "math"}
MCSegment == ("math" :> "math") @@ ("math.add" :> "add") @@ ("ops" :> "ops")
MCTarget == (r1 :> ("add" :> "plus")) @@ (r2 :> ("add" :> "sum")) @@
            (r3 :> (("plus" :> "calc") @@ ("add" :> "calc")))
MCToolPath == (r1 :> ("add" :> "math.plus")) @@ (r2 :> ("add" :> "ops.sum")) @@
              (r3 :> (("plus" :> "math.plus") @@ ("add" :> "math.add")))
MCListedPathCapability ==
  MCPathCapability @@ ("ops.sum" :> "ops")
MCListedPathOperation ==
  MCPathOperation @@ ("ops.sum" :> "sum")
===============================================================================
