------------------------ MODULE MCDurableEventStore ------------------------
(* Small instances of DurableEventStore.  Callers, contents and redaction   *)
(* requests are interchangeable; no liveness property is checked here.      *)
EXTENDS DurableEventStore, TLC

Symmetry == Permutations(Callers) \cup Permutations(Contents)
              \cup Permutations(Requests) \cup Permutations(EventIds)
=============================================================================
