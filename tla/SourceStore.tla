---------------------------- MODULE SourceStore ----------------------------
(***************************************************************************)
(* Source snapshots, citations and the redaction policy (source.py), over  *)
(* the filesystem artifact store.                                          *)
(*                                                                         *)
(* A snapshot identity is the hash of the source, the digest of the bytes  *)
(* and the observation (retrieved_at and version_metadata); role, quality  *)
(* and derivation are not part of it.  The bytes of an artifact are a      *)
(* sequence, a passage hash is the passage itself.                         *)
(***************************************************************************)
EXTENDS ArtifactStore, Naturals, Sequences, FiniteSetsExt

CONSTANTS Sources,       \* normalized locators, or explicit source ids
          Observations,  \* <<retrieved_at, version_metadata>>
          Bytes,         \* content of each artifact
          MaxParents,    \* bound: parents named by one derivation
          MaxCited       \* bound: citations handed out

VARIABLES snapshot,      \* published snapshots
          cited          \* citations handed out, with what they stood for

vars == <<avars, snapshot, cited>>

SnapshotIds == Sources \X Artifacts \X Observations
Roles == {"primary", "derived"}
Parents == {P \in SUBSET SnapshotIds : Cardinality(P) <= MaxParents}

\* The part of a snapshot record that is not determined by its identity.
Snapshots == [role : Roles, parents : Parents]

artifact_for_snapshot(s) == s[2]
get_snapshot(s) == snapshot[s]

ASSUME BytesAssumption == \A a \in Artifacts : Bytes[a] \in Seq(Nat)

ASSUME SnapshotAssumption == None \notin Snapshots \cup (SnapshotIds \X Snapshots)

\* Offsets up to one past the end of the longest artifact.
Offsets == 0..1 + Max({Len(Bytes[a]) : a \in Artifacts})

Span == (Nat \X Nat) \cup {None}

TypeOK ==
  /\ ArtifactTypeOK
  /\ call \in [Callers -> [pc : ArtifactPcs, art : Artifacts \cup {None},
                          media : Media \cup {None}, request : Requests \cup {None},
                          after : (SnapshotIds \X Snapshots) \cup {None}]]
  /\ snapshot \in [SnapshotIds -> Snapshots \cup {None}]
  /\ \A x \in cited : /\ x.snapshot \in SnapshotIds /\ x.role \in Roles
                      /\ x.span \in Span /\ x.passage \in Seq(Nat)

Init ==
  /\ ArtifactInit
  /\ snapshot = [s \in SnapshotIds |-> None]
  /\ cited = {}
-----------------------------------------------------------------------------
\* Defect: the parents a derivation names are not looked up.
SnapshotBegin_unchecked(c, s, role, P, m) ==
  /\ (role = "derived") <=> (P # {})
  /\ PutBegin(c, artifact_for_snapshot(s), m, <<s, [role |-> role, parents |-> P]>>)
  /\ UNCHANGED <<snapshot, cited>>

\* put_snapshot: a derived or reconstructed snapshot names parents and each of
\* them exists, any other role claims no derivation; then put_bytes.
SnapshotBegin(c, s, role, P, m) ==
  /\ (role = "derived") <=> (P # {})
  /\ \A p \in P : get_snapshot(p) # None
  /\ PutBegin(c, artifact_for_snapshot(s), m, <<s, [role |-> role, parents |-> P]>>)
  /\ UNCHANGED <<snapshot, cited>>

\* The record is published once; a different record under the same identity
\* raises SourceSnapshotConflict.
SnapshotPublish(c) ==
  LET s == call[c].after[1]  new == call[c].after[2] IN
  /\ call[c].pc = "returned"
  /\ snapshot' = [snapshot EXCEPT ![s] = IF @ = None THEN new ELSE @]
  /\ Return(c)
  /\ UNCHANGED <<files, stored, erased, overlapped, cited>>
-----------------------------------------------------------------------------
\* A span lies inside the artifact and is not empty; None is the whole of it.
ValidSpans(a) ==
  {None} \cup {p \in (0..Len(Bytes[a])) \X (0..Len(Bytes[a])) : p[2] > p[1]}

Passage(a, span) ==
  IF span = None THEN Bytes[a] ELSE SubSeq(Bytes[a], span[1] + 1, span[2])

\* create_citation: the citation, and what its creator saw.
CreateCitation(s, span) ==
  LET a == artifact_for_snapshot(s) IN
  /\ get_snapshot(s) # None
  /\ read_bytes(a) = a
  /\ span \in ValidSpans(a)
  /\ Cardinality(cited) < MaxCited
  /\ cited' = cited \cup {[snapshot |-> s, artifact |-> a, span |-> span,
                           passage |-> Passage(a, span),
                           role |-> get_snapshot(s).role]}
  /\ UNCHANGED <<avars, snapshot>>

\* resolve_citation: the passage, or the error raised instead.
resolve_citation(x, roles) ==
  LET s == x.snapshot  a == artifact_for_snapshot(s) IN
  IF get_snapshot(s) = None THEN "missing"
  ELSE IF a # x.artifact THEN "integrity"
  ELSE IF get_snapshot(s).role \notin roles THEN "laundering"
  ELSE IF read_bytes(a) # a THEN read_bytes(a)
  ELSE IF x.span # None /\ Passage(a, x.span) # x.passage THEN "integrity"
  ELSE Passage(a, x.span)
-----------------------------------------------------------------------------
\* snapshot_is_redacted raises FileNotFoundError for an unknown snapshot,
\* which event_visible skips.
snapshot_is_redacted(s) == get_snapshot(s) # None /\ is_redacted(artifact_for_snapshot(s))

\* RedactionPolicy.event_visible for an event with these references.
event_visible(evidence_refs, snapshot_refs) ==
  /\ \A a \in evidence_refs : ~is_redacted(a)
  /\ \A s \in snapshot_refs : ~snapshot_is_redacted(s)

\* export_snapshot: the snapshot's bytes, or the tombstone in their place.
export_snapshot(s) ==
  IF snapshot_is_redacted(s) THEN redaction[artifact_for_snapshot(s)]
  ELSE read_bytes(artifact_for_snapshot(s))
-----------------------------------------------------------------------------
Next ==
  \/ ArtifactNext /\ UNCHANGED <<snapshot, cited>>
  \/ \E c \in Callers :
       \/ \E s \in SnapshotIds, role \in Roles, P \in Parents, m \in Media :
            SnapshotBegin(c, s, role, P, m)
       \/ SnapshotPublish(c)
  \/ \E s \in SnapshotIds, span \in (Offsets \X Offsets) \cup {None} : CreateCitation(s, span)

Spec == Init /\ [][Next]_vars
-----------------------------------------------------------------------------
(***************************************************************************)
(* Properties                                                              *)
(***************************************************************************)

\* Every published snapshot can be exported: as its bytes, or as the tombstone
\* of its artifact, never as a missing file (put_snapshot stores the artifact
\* before it publishes, redact publishes before it unlinks).
SnapshotHasEvidence ==
  \A s \in SnapshotIds :
    snapshot[s] # None => export_snapshot(s) # "missing"

\* The snapshots s is derived from, directly or through published ones: the
\* least set that holds the parents of s and those of its published members.
Ancestors(s) ==
  LET Closed(A) == /\ snapshot[s].parents \subseteq A
                   /\ \A p \in A : snapshot[p] # None => snapshot[p].parents \subseteq A
  IN  {p \in SnapshotIds : \A A \in SUBSET SnapshotIds : Closed(A) => p \in A}

\* No chain of derivations turns back on itself, although the identity of a
\* snapshot does not cover its derivation: every derived snapshot goes back to
\* snapshots that are not derived (put_snapshot by several processes).
DerivationIsGrounded ==
  \A s \in SnapshotIds : snapshot[s] # None /\ snapshot[s].role = "derived" =>
    /\ \A p \in Ancestors(s) : snapshot[p] # None /\ p # s
    /\ \E p \in Ancestors(s) : snapshot[p] # None /\ snapshot[p].role # "derived"

\* A citation resolves for ever to the passage it was created for, or to the
\* redaction of its source, and for ever fails where only other source roles
\* are allowed (resolve_citation against later put_snapshot and redact calls).
CitationIsStable ==
  \A x \in cited :
    /\ resolve_citation(x, {x.role}) \in {x.passage, "redacted"}
    /\ resolve_citation(x, Roles \ {x.role}) = "laundering"

\* An event hidden from exports and projections because of what it cites never
\* becomes visible again, even when a late put brings the bytes back or a
\* snapshot it names is published later (event_visible).
HiddenStaysHidden ==
  [][\A A \in SUBSET Artifacts, S \in Parents :
       ~event_visible(A, S) => ~event_visible(A, S)']_vars

\* What knowledge cites stays evidence: snapshots have their bytes or their
\* tombstone, derivations their origin and citations their passage, whatever is
\* put, cited and redacted beside them.
EvidenceIsStable ==
  TypeOK /\ SnapshotHasEvidence /\ DerivationIsGrounded /\ CitationIsStable
=============================================================================
