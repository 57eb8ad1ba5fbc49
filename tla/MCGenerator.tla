------------------------------ MODULE MCGenerator -----------------------------
(***************************************************************************)
(* Two provider lists that are accepted, one with a provider without tools  *)
(* and one with tools of the same name at two providers, and two lists that *)
(* are refused, because tool names differ in case only or have a dot.  The  *)
(* user can create a directory with the name of a tool, or one called root  *)
(* and in it one with a dot in its name, and write a plain overview or one  *)
(* that looks like a generated one.  The output directory is called like a  *)
(* tool.                                                                    *)
(***************************************************************************)
EXTENDS Generator

MCNameOrder == <<"A", "a", "c", "root", "s", "t", "x.y">>
MCFold == [n \in Range(MCNameOrder) |-> IF n = "A" THEN "a" ELSE n]
MCParts == [n \in Range(MCNameOrder) |-> IF n = "x.y" THEN <<"x", "y">> ELSE <<n>>]
MCTools == [n \in {"A", "a", "c", "x.y"} |->
              [name |-> n, description |-> IF n = "c" THEN "" ELSE "d"]]
MCInputs == {<<[name |-> "s", tools |-> <<MCTools["c"]>>], [name |-> "t", tools |-> <<>>]>>,
             <<[name |-> "s", tools |-> <<MCTools["a"]>>], [name |-> "t", tools |-> <<MCTools["a"]>>]>>,
             <<[name |-> "s", tools |-> <<MCTools["a"], MCTools["A"]>>]>>,
             <<[name |-> "s", tools |-> <<MCTools["x.y"]>>]>>}
MCNewDirectories == {<<"a">>, <<"root", "x.y">>}
MCSymmetry == Permutations(Commands)
===============================================================================
