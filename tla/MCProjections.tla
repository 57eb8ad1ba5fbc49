----------------------------- MODULE MCProjections -----------------------------
(* Two generations of a capability.  r1 takes three pages; the operation of r2  *)
(* is too large for any response, so that paging stops in front of it, at the  *)
(* first page or at a later one.                                               *)
EXTENDS Projections, TLC

CONSTANTS r1, r2

MCContents == r1 :> [skills |-> {1, 2}, operations |-> {1}, references |-> {3}] @@
              r2 :> [skills |-> {1}, operations |-> {4}, references |-> {2}]
MCItemBytes == <<1, 1, 3, 4>>
MCIncludes == {<<"skills">>, <<"references", "operations">>,
               <<"references", "operations", "skills">>, <<"skills", "skills">>}
ClientSymmetry == Permutations(Clients)
===============================================================================
