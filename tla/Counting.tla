-------------------------------- MODULE Counting -------------------------------
(***************************************************************************)
(* Sums and sorted lists, both defined by counting the elements of a set.   *)
(* Defined by recursion (MapThenSumSet, SortSeq) they are the same, but     *)
(* these can be reasoned about from the theorems on cardinality.            *)
(***************************************************************************)
EXTENDS Naturals, FiniteSets

(* The sum of f[x] over the elements x of S: x contributes f[x] units, and  *)
(* the sum is how many there are.                                           *)
Units(f, S) == UNION {{x} \X (1 .. f[x]) : x \in S}
Total(f, S) == Cardinality(Units(f, S))

(* The numbers of S in order: at place i the one that i of them do not      *)
(* exceed.                                                                  *)
Sorted(S) ==
  [i \in 1 .. Cardinality(S) |-> CHOOSE x \in S : Cardinality({y \in S : y <= x}) = i]

(* The elements of S in the strict order that R, a set of pairs, gives      *)
(* them: at place i the one that i - 1 others precede.                      *)
SortedBy(S, R) ==
  [i \in 1 .. Cardinality(S) |->
     CHOOSE x \in S : Cardinality({y \in S : <<y, x>> \in R}) = i - 1]
===============================================================================
