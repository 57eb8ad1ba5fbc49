------------------------------ MODULE MCReadLeases ------------------------------
(***************************************************************************)
(* ReadLeases on one two-byte artifact and one of a kind that is not read.  *)
(* Three of the requests are distinct attempts on the first, one of which   *)
(* asks for all of it; one starts beyond its end.                           *)
(***************************************************************************)
EXTENDS ReadLeases, TLC

CONSTANTS big, schema, s1, s2, t1, t2

MCArtifacts == {big, schema}
MCBytes == big :> 2 @@ schema :> 1
MCReadable == {big}

Request(scope, attempt, artifact, offset, max) ==
  [scope |-> scope, attempt |-> attempt, artifact |-> artifact,
   offset |-> offset, max |-> max]

MCRequests == {Request(s1, t1, big, 0, 1), Request(s1, t2, big, 0, 1),
               Request(s1, t1, big, 0, 2), Request(s1, t1, big, 3, 1),
               Request(s1, t1, schema, 0, 1)}

ReaderSymmetry == Permutations(Readers)
================================================================================
