------------------------------- MODULE MCTrace -------------------------------
(***************************************************************************)
(* Instances of TraceContext for TLC.  Bounds: four spans on one strand,   *)
(* three where two strands interleave.                                     *)
(***************************************************************************)
EXTENDS BlameProps, TLC

CONSTANTS k1, k2, s1, s2, s3, s4, o1, null, MaxShared

Alike == Permutations(Span)

Used == {s \in Span : span[s].pc # "unused"}
Alone == \A k \in Strand \ {Main} : strand[k].pc = "off"

MCNext == Next /\ (Alone' \/ Cardinality(Used') <= MaxShared)

MCSpec == Init /\ [][MCNext]_vars
=============================================================================
