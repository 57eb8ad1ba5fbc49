------------------------- MODULE MCCapabilityRegistry -------------------------
(***************************************************************************)
(* Three package records.  r1 and r2 are two versions of math.add; the one  *)
(* operation keeps its ID and moves to another parent and provider tool.    *)
(* r3 is the two-operation capability math: its path math.plus is also r1's *)
(* legacy spelling, and its path math.add the ID of the other capability.   *)
(* No package has the operation of the path math.times.                     *)
(***************************************************************************)
EXTENDS CapabilityRegistry, TLC

CONSTANTS r1, r2, r3

MCRecords == {r1, r2, r3}
MCCapabilities == {"math", "math.add"}
MCIdOf == (r1 :> "math.add") @@ (r2 :> "math.add") @@ (r3 :> "math")
MCOperations == (r1 :> {"add"}) @@ (r2 :> {"add"}) @@ (r3 :> {"plus", "add"})
MCLegacyPaths == (r1 :> {"math.plus", "math.plus.plus"}) @@
                 (r2 :> {"ops.sum", "ops.sum.sum"}) @@ (r3 :> {})
MCPaths == {"math", "math.add", "math.plus", "math.times"}
MCPathCapability == ("math" :> None) @@ ("math.add" :> "math") @@ ("math.plus" :> "math") @@
                    ("math.times" :> "math")
MCPathOperation == ("math" :> "math") @@ ("math.add" :> "add") @@ ("math.plus" :> "plus") @@
                   ("math.times" :> "times")
MCParent == ("math" :> "") @@ ("math.add" :> "math") @@ ("ops" :> "")
MCPlaces == (r1 :> {"math", "math.add"}) @@ (r2 :> {"math", "math.add", "ops"}) @@
            (r3 :> {"math"})
===============================================================================
