--------------------------- MODULE MCAIDecisions ---------------------------
(* Instances of AIDecisions for TLC. The live collections of a run set are   *)
(* interchangeable: no definition or safety property tells them apart.       *)
EXTENDS AIDecisions, TLC

CollectorSymmetry == Permutations(Collections \cap LiveRuns)
============================================================================
