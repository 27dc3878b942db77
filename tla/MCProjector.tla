---------------------------- MODULE MCProjector ----------------------------
(* Small instances of Projector: events 1, 2 (and 3) in canonical order.    *)
EXTENDS Projector
=============================================================================
