--------------------------- MODULE EventContract ---------------------------
(***************************************************************************)
(* What the durable event store promises a client that reads through get:  *)
(* every deterministic event identity is a register that is written at     *)
(* most once and may then be erased, for ever.                             *)
(*                                                                         *)
(* cell[e] is None before the first acceptance, then the accepted content, *)
(* then Redacted.  acked holds the commits whose callers were told that    *)
(* the event is accepted: an acknowledgement is given only for the content *)
(* the cell holds, or (a commit racing an erasure) for an erased cell.     *)
(***************************************************************************)
CONSTANTS EventIds, Contents, None, Redacted

VARIABLES cell, acked

cvars == <<cell, acked>>

CInit ==
  /\ cell = [e \in EventIds |-> None]
  /\ acked = {}

\* An empty identity takes its one content.
Accept(e, v) ==
  /\ cell[e] = None
  /\ cell' = [cell EXCEPT ![e] = v]
  /\ UNCHANGED acked

\* A caller learns that its event is accepted.
Acknowledge(e, v) ==
  /\ cell[e] \in {v, Redacted}
  /\ acked' = acked \cup {<<e, v>>}
  /\ UNCHANGED cell

\* Erasure is final, and only something that was accepted can be erased.
Erase(e) ==
  /\ cell[e] \in Contents
  /\ cell' = [cell EXCEPT ![e] = Redacted]
  /\ UNCHANGED acked

CNext ==
  \E e \in EventIds :
    \/ \E v \in Contents : Accept(e, v) \/ Acknowledge(e, v)
    \/ Erase(e)

CSpec == CInit /\ [][CNext]_cvars
=============================================================================
