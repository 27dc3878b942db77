--------------------------- MODULE ArtifactStore ---------------------------
(***************************************************************************)
(* The filesystem artifact store (adapters/filesystem/artifact_store.py).  *)
(*                                                                         *)
(* An artifact is its content: the blob is addressed by the digest of its  *)
(* bytes and a collision is not modelled.  publish_immutable is one step   *)
(* (DurableEventStore has its parts); a call is cut where other processes  *)
(* and crashes can come between.  Manifests and tombstones are never       *)
(* removed, so the comparison that follows a lost race to publish one is   *)
(* part of the same step.                                                  *)
(*                                                                         *)
(* call[c].after is what c does with the manifest put_bytes returns: None  *)
(* for a direct caller, else the work of the store that called it.         *)
(***************************************************************************)
CONSTANTS Callers,    \* processes using the store
          Artifacts,  \* contents, and the identities derived from them
          Media,      \* media types
          Requests,   \* <<reason, authority, redacted_at, request_ref>>
          None        \* no file, no argument

VARIABLES blob,       \* artifacts whose bytes are on disk
          manifest,   \* media type in the published manifest
          redaction,  \* request and media type in the published tombstone
          call,       \* what each caller is executing
          stored,     \* <<a, m>>: some put_bytes returned
          erased,     \* artifacts for which some redact returned
          overlapped  \* those for which a put was under way at that time

\* Identities, tombstones and the errors raised in their place are told apart.
ASSUME ArtifactAssumption ==
  /\ None \notin Media
  /\ Artifacts \cap {"redacted", "missing"} = {}
  /\ \A r \in Requests, m \in Media : <<r, m>> # None /\ <<r, m>> # "missing"

files == <<blob, manifest, redaction>>
avars == <<files, call, stored, erased, overlapped>>

Idle == [pc |-> "idle", art |-> None, media |-> None, request |-> None,
         after |-> None]

ArtifactPcs == {"idle", "put_blob", "put_compare", "put_manifest", "returned",
                "redact_publish", "redact_unlink"}

ArtifactTypeOK ==
  /\ blob \subseteq Artifacts
  /\ manifest \in [Artifacts -> Media \cup {None}]
  /\ redaction \in [Artifacts -> (Requests \X Media) \cup {None}]
  /\ \A c \in Callers : /\ call[c].art \in Artifacts \cup {None}
                        /\ call[c].media \in Media \cup {None}
                        /\ call[c].request \in Requests \cup {None}
  /\ stored \subseteq Artifacts \X Media
  /\ erased \subseteq Artifacts /\ overlapped \subseteq Artifacts

ArtifactInit ==
  /\ blob = {}
  /\ manifest = [a \in Artifacts |-> None]
  /\ redaction = [a \in Artifacts |-> None]
  /\ call = [c \in Callers |-> Idle]
  /\ stored = {} /\ erased = {} /\ overlapped = {}

\* Defect: redaction is told from the absence of the bytes.
is_redacted_gone(a) == redaction[a] # None /\ a \notin blob

is_redacted(a) == redaction[a] # None

\* read_bytes and verify: the bytes, or the error raised instead of them.
read_bytes(a) ==
  IF is_redacted(a) THEN "redacted"
  ELSE IF manifest[a] = None \/ a \notin blob THEN "missing" ELSE a

Goto(c, pc) == call' = [call EXCEPT ![c].pc = pc]
Return(c) == call' = [call EXCEPT ![c] = Idle]
-----------------------------------------------------------------------------
\* put_bytes, called directly or by a store that continues with after.
PutBegin(c, a, m, after) ==
  /\ call[c].pc = "idle"
  /\ ~is_redacted(a)
  /\ call' = [call EXCEPT ![c] = [pc |-> "put_blob", art |-> a, media |-> m,
                                  request |-> None, after |-> after]]
  /\ UNCHANGED <<files, stored, erased, overlapped>>

PutBlob(c) ==
  LET a == call[c].art IN
  /\ call[c].pc = "put_blob"
  /\ blob' = blob \cup {a}
  /\ Goto(c, IF a \in blob THEN "put_compare" ELSE "put_manifest")
  /\ UNCHANGED <<manifest, redaction, stored, erased, overlapped>>

\* The existing blob has the same content, or was unlinked meanwhile.
PutCompare(c) ==
  /\ call[c].pc = "put_compare"
  /\ IF call[c].art \in blob THEN Goto(c, "put_manifest") ELSE Return(c)
  /\ UNCHANGED <<files, stored, erased, overlapped>>

\* The same bytes under another media type raise ArtifactIntegrityError.
PutManifest(c) ==
  LET a == call[c].art  m == call[c].media IN
  /\ call[c].pc = "put_manifest"
  /\ IF manifest[a] \in {None, m}
     THEN /\ manifest' = [manifest EXCEPT ![a] = m]
          /\ stored' = stored \cup {<<a, m>>}
          /\ IF call[c].after = None THEN Return(c) ELSE Goto(c, "returned")
     ELSE Return(c) /\ UNCHANGED <<manifest, stored>>
  /\ UNCHANGED <<blob, redaction, erased, overlapped>>

\* redact needs the manifest, whose fields the tombstone copies.
RedactBegin(c, a, r) ==
  /\ call[c].pc = "idle"
  /\ manifest[a] # None
  /\ call' = [call EXCEPT ![c] = [pc |-> "redact_publish", art |-> a,
                                  media |-> manifest[a], request |-> r,
                                  after |-> None]]
  /\ UNCHANGED <<files, stored, erased, overlapped>>

\* Defect: an existing identical tombstone is returned at once, as the event
\* store does.
RedactPublish_early(c) ==
  LET a == call[c].art  t == <<call[c].request, call[c].media>> IN
  /\ call[c].pc = "redact_publish"
  /\ IF redaction[a] = None
     THEN /\ redaction' = [redaction EXCEPT ![a] = t]
          /\ Goto(c, "redact_unlink") /\ UNCHANGED erased
     ELSE /\ erased' = IF redaction[a] = t THEN erased \cup {a} ELSE erased
          /\ Return(c) /\ UNCHANGED redaction
  /\ UNCHANGED <<blob, manifest, stored, overlapped>>

\* The first tombstone stays; an identical request goes on, another raises.
RedactPublish(c) ==
  LET a == call[c].art  t == <<call[c].request, call[c].media>> IN
  /\ call[c].pc = "redact_publish"
  /\ IF redaction[a] \in {None, t}
     THEN redaction' = [redaction EXCEPT ![a] = t] /\ Goto(c, "redact_unlink")
     ELSE Return(c) /\ UNCHANGED redaction
  /\ UNCHANGED <<blob, manifest, stored, erased, overlapped>>

\* Putters of a that tested is_redacted before the tombstone was there.
Putting(a) == \E d \in Callers : call[d].pc = "put_blob" /\ call[d].art = a

RedactUnlink(c) ==
  LET a == call[c].art IN
  /\ call[c].pc = "redact_unlink"
  /\ blob' = blob \ {a}
  /\ erased' = erased \cup {a}
  /\ overlapped' = IF Putting(a) THEN overlapped \cup {a} ELSE overlapped
  /\ Return(c)
  /\ UNCHANGED <<manifest, redaction, stored>>

Crash(c) ==
  /\ call[c].pc # "idle"
  /\ Return(c)
  /\ UNCHANGED <<files, stored, erased, overlapped>>

ArtifactNext ==
  \E c \in Callers :
    \/ \E a \in Artifacts : \/ \E m \in Media : PutBegin(c, a, m, None)
                            \/ \E r \in Requests : RedactBegin(c, a, r)
    \/ PutBlob(c) \/ PutCompare(c) \/ PutManifest(c)
    \/ RedactPublish(c) \/ RedactUnlink(c)
    \/ Crash(c)
-----------------------------------------------------------------------------
(***************************************************************************)
(* Properties                                                              *)
(***************************************************************************)

\* An artifact whose put_bytes returned keeps its manifest and stays readable
\* until its tombstone is published, with putters and redactors dying anywhere.
StoredIsReadable ==
  \A p \in stored : manifest[p[1]] = p[2] /\ read_bytes(p[1]) \in {p[1], "redacted"}

\* Once redact has returned, the first time or on a retry after a crash, the
\* bytes are gone and stay gone, unless a put that had passed its own
\* is_redacted test was under way at that moment.
ErasedStaysGone == (erased \ overlapped) \cap blob = {}

\* Stored artifacts are readable until their redaction, and what was erased
\* stays so, with putters and redactors dying between any two file operations.
ArtifactsKeepTheirWord == ArtifactTypeOK /\ StoredIsReadable /\ ErasedStaysGone
=============================================================================
