-------------------------- MODULE MCCodecPlanCache --------------------------
(***************************************************************************)
(* Artifacts whose plans fit singly, fit only in some pairs, or not at all *)
(* (MaxFields = 4), in a table of two; the threads are interchangeable.    *)
(***************************************************************************)
EXTENDS CodecPlanCache, TLC

CONSTANTS empty, small, medium, large, huge

MCArtifacts == {empty, small, medium, large, huge}
MCFields == empty :> 0 @@ small :> 1 @@ medium :> 2 @@ large :> 3 @@ huge :> 5

MCSymmetry == Permutations(Threads) \cup Permutations(Plans)

=============================================================================
