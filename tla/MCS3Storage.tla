---------------------------- MODULE MCS3Storage ----------------------------
(* A small bucket.  Clients, contents, media types and redaction requests   *)
(* are interchangeable; events are not (they have a key order).             *)
EXTENDS S3Storage, TLC

Symmetry == Permutations(Clients) \cup Permutations(Contents)
              \cup Permutations(Media) \cup Permutations(Requests)

\* The two stores use disjoint key prefixes and no call touches both, so the
\* behaviours of one beside those of the other are not multiplied out.
Busy(S) == (\E k \in Keys : k[2] \in S /\ exists(k))
             \/ (\E c \in Clients : call[c].id \in S)
             \/ (\E w \in late : w.key[2] \in S)

OneStore == ~(Busy(EventIds) /\ Busy(Artifacts))

\* Only the first event is redacted; the second makes the listing have pages.
OneErasable ==
  \A c \in Clients : call[c].id = 2 => call[c].request = None

MCSpec == Init /\ [][Next /\ (OneStore /\ OneErasable)']_vars
=============================================================================
