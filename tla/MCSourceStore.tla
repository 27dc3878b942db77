--------------------------- MODULE MCSourceStore ---------------------------
(* Two callers, two artifacts of two and one bytes.  Callers, media types   *)
(* and redaction requests are interchangeable.                              *)
EXTENDS SourceStore, TLC

CONSTANTS a1, a2

MCBytes == (a1 :> <<7, 8>>) @@ (a2 :> <<7>>)

Symmetry == Permutations(Callers) \cup Permutations(Media) \cup Permutations(Requests)
=============================================================================
