-------------------------- MODULE SharedChatIngest --------------------------
(***************************************************************************)
(* From a crawled share page to a committed event: the capture receipt     *)
(* (shared_chat_capture.py), the import script                             *)
(* (scripts/ingest_shared_chat_reconstructions.py) and what it publishes   *)
(* through the conversation store (conversation.py) and the event store.   *)
(*                                                                         *)
(* A crawl discovers conversation nodes; Capture turns what was found into *)
(* a receipt and a new version of the manifest under the same capture,     *)
(* conversation and lineage identities.  Importers run ingest_manifest     *)
(* over the version they read, one publication at a time, and any of them  *)
(* may die or be started again at any time.                                *)
(***************************************************************************)
EXTENDS CaptureGraph

CONSTANTS Importers,      \* runs of the script over one output root
          Nodes,          \* for each capture, node ids its page may name
          Exposed,        \* those it may expose; the others stay dangling
          Continuations,  \* continuation accounts a crawl may end with
          Conversations,  \* 1..n: the conversations of the manifest, in order
          Captured,       \* those that come with a capture receipt
          MaxVersions,    \* bound: captures, hence versions of the manifest
          None            \* nothing published

ASSUME ChatAssumption ==
  /\ \A v \in 1..MaxVersions : Exposed[v] \subseteq Nodes[v] /\ Nodes[v] \subseteq Nat
  /\ 1 \in Conversations /\ Conversations \subseteq Nat
  /\ Captured \subseteq Conversations
  /\ MaxVersions \in Nat /\ None \notin Nat /\ NoNode \notin Nat

VARIABLES nodes,      \* the graph crawled so far
          manifest,   \* receipts of the versions captured so far
          redacted,   \* versions whose source bytes were redacted
          stored,     \* versions whose source bytes are in the artifact store
          receipt,    \* published receipt of each captured conversation
          envelope,   \* published envelope, by the version it was built from
          lineage,    \* published lineage
          event,      \* committed conversation.ingested event
          importer,   \* what each run is doing
          raised      \* <<conversation, step, version>> at which a run ended

published == <<receipt, envelope, lineage, event>>
ingest_vars == <<nodes, manifest, redacted, stored, published, importer, raised>>

Versions == 1..MaxVersions
Steps == {"source", "receipt", "require", "envelope", "lineage", "event"}
Idle == [pc |-> "idle", at |-> 0, version |-> 0]

IngestTypeOK ==
  /\ DOMAIN nodes \subseteq UNION {Exposed[v] : v \in Versions}
  /\ Len(manifest) <= MaxVersions
  /\ redacted \subseteq stored /\ stored \subseteq Versions
  /\ receipt \in [Captured -> {None} \cup Versions]
  /\ {envelope, lineage, event} \subseteq [Conversations -> {None} \cup Versions]
  /\ importer \in [Importers -> [pc : {"idle"} \cup Steps,
                                 at : {0} \cup Conversations,
                                 version : {0} \cup Versions]]
  /\ raised \subseteq Conversations \X Steps \X Versions

IngestInit ==
  /\ nodes = <<>>
  /\ manifest = <<>>
  /\ redacted = {} /\ stored = {}
  /\ receipt = [c \in Captured |-> None]
  /\ envelope = [c \in Conversations |-> None]
  /\ lineage = envelope /\ event = envelope
  /\ importer = [i \in Importers |-> Idle]
  /\ raised = {}
-----------------------------------------------------------------------------
(***************************************************************************)
(* Capture                                                                 *)
(***************************************************************************)

\* The page exposes one more node.
Discover(n, node) ==
  /\ Len(manifest) < MaxVersions
  /\ n \in Exposed[Len(manifest) + 1] \ DOMAIN nodes
  /\ nodes' = [m \in DOMAIN nodes \cup {n} |-> IF m = n THEN node ELSE nodes[m]]
  /\ UNCHANGED <<manifest, redacted, stored, published, importer, raised>>

\* The source bytes of a version, known by their content.
Bytes(v) == <<v>>

\* What a receipt may say of the bytes that its manifest entry points to.
Declared(v) ==
  [sha256 : {Bytes(v), <<>>}, byte_count : {1}, artifact_id : {NoNode, Bytes(v)}]
    \cup {[sha256 |-> Bytes(v), byte_count |-> 2, artifact_id |-> NoNode]}

\* The receipt of the crawl enters the manifest.  The two calls of
\* bind_shared_chat_capture_source for a version agree, since its bytes are
\* what add_source stores in between.
Capture(current, continuation, declared) ==
  LET r == build_receipt(nodes, current, continuation)
      bound == bind_source(r, declared, Bytes(Len(manifest) + 1)).bound
  IN
  /\ Len(manifest) < MaxVersions
  /\ manifest' = Append(manifest, [complete |-> require_complete(r), bound |-> bound])
  /\ nodes' = <<>>
  /\ UNCHANGED <<redacted, stored, published, importer, raised>>
-----------------------------------------------------------------------------
(***************************************************************************)
(* ingest_manifest                                                         *)
(***************************************************************************)
At(i) == importer[i].at
Version(i) == importer[i].version
Receipt(i) == manifest[Version(i)]

Goto(i, pc) == importer' = [importer EXCEPT ![i].pc = pc]

\* An exception ends the run: the conversations after this one are not tried.
Raise(i) ==
  /\ importer' = [importer EXCEPT ![i] = Idle]
  /\ raised' = raised \cup {<<At(i), importer[i].pc, Version(i)>>}

Start(i) ==
  /\ importer[i].pc = "idle" /\ manifest # <<>>
  /\ importer' = [importer EXCEPT ![i] = [pc |-> "source", at |-> 1,
                                          version |-> Len(manifest)]]
  /\ UNCHANGED <<nodes, manifest, redacted, stored, published, raised>>

\* The source bytes of a version can be read.
Readable(v) == v \in stored \ redacted

\* bind_shared_chat_capture_source, then add_source, which raises for redacted
\* bytes; without a receipt the source is added by _build_envelope.
AddSource(i) ==
  /\ importer[i].pc = "source"
  /\ IF \/ Version(i) \in redacted
        \/ At(i) \in Captured /\ ~Receipt(i).bound
     THEN Raise(i) /\ UNCHANGED stored
     ELSE /\ stored' = stored \cup {Version(i)}
          /\ Goto(i, IF At(i) \in Captured THEN "receipt" ELSE "envelope")
          /\ UNCHANGED raised
  /\ UNCHANGED <<nodes, manifest, redacted, published>>

\* What publish_immutable and the comparison of what exists leave behind:
\* version v under the name, or the other version found there.
Published(file, c, v) == [file EXCEPT ![c] = IF @ = None THEN v ELSE @]

\* One publication of a run: an existing different file raises.
Publish(i, file, next) ==
  IF file[At(i)] \in {None, Version(i)}
  THEN Goto(i, next) /\ UNCHANGED raised
  ELSE Raise(i)

PublishReceipt(i) ==
  /\ importer[i].pc = "receipt"
  /\ receipt' = Published(receipt, At(i), Version(i))
  /\ Publish(i, receipt, "require")
  /\ UNCHANGED <<nodes, manifest, redacted, stored, envelope, lineage, event>>

\* Defect: completeness is not required.
RequireComplete_skip(i) ==
  /\ importer[i].pc = "require"
  /\ Goto(i, "envelope")
  /\ UNCHANGED <<nodes, manifest, redacted, stored, published, raised>>

\* require_complete_shared_chat_capture, after the receipt is on disk.
RequireComplete(i) ==
  /\ importer[i].pc = "require"
  /\ IF Receipt(i).complete THEN Goto(i, "envelope") /\ UNCHANGED raised
     ELSE Raise(i)
  /\ UNCHANGED <<nodes, manifest, redacted, stored, published>>

\* _build_envelope and ConversationStore.commit: spans and provenance are
\* checked against the readable source bytes, then the envelope is published.
CommitEnvelope(i) ==
  /\ importer[i].pc = "envelope"
  /\ IF Readable(Version(i))
     THEN /\ envelope' = Published(envelope, At(i), Version(i))
          /\ Publish(i, envelope, "lineage")
     ELSE Raise(i) /\ UNCHANGED envelope
  /\ UNCHANGED <<nodes, manifest, redacted, stored, receipt, lineage, event>>

\* _build_lineage resolves its spans; the lineage is published.
PublishLineage(i) ==
  /\ importer[i].pc = "lineage"
  /\ IF Readable(Version(i))
     THEN /\ lineage' = Published(lineage, At(i), Version(i))
          /\ Publish(i, lineage, "event")
     ELSE Raise(i) /\ UNCHANGED lineage
  /\ UNCHANGED <<nodes, manifest, redacted, stored, receipt, envelope, event>>

\* event_store.commit under the key conversation-ingested:<id> (EventContract),
\* then the next conversation of the manifest.
CommitEvent(i) ==
  /\ importer[i].pc = "event"
  /\ event' = Published(event, At(i), Version(i))
  /\ IF event[At(i)] \notin {None, Version(i)} THEN Raise(i)
     ELSE /\ importer' = [importer EXCEPT ![i] =
                            IF At(i) + 1 \in Conversations
                            THEN [importer[i] EXCEPT !.pc = "source", !.at = At(i) + 1]
                            ELSE Idle]
          /\ UNCHANGED raised
  /\ UNCHANGED <<nodes, manifest, redacted, stored, receipt, envelope, lineage>>
-----------------------------------------------------------------------------
Crash(i) ==
  /\ importer[i].pc # "idle"
  /\ importer' = [importer EXCEPT ![i] = Idle]
  /\ UNCHANGED <<nodes, manifest, redacted, stored, published, raised>>

\* ArtifactStore.redact of the source bytes of a version.
RedactSource(v) ==
  /\ v \in stored
  /\ redacted' = redacted \cup {v}
  /\ UNCHANGED <<nodes, manifest, stored, published, importer, raised>>

\* The capture under way, and the ids its page may name.
Page == IF Len(manifest) < MaxVersions THEN Nodes[Len(manifest) + 1] ELSE {}

Crawl ==
  \/ \E n \in Page, node \in [parent : Page \cup {NoNode},
                              children : SUBSET Page, message : BOOLEAN] :
       Discover(n, node)
  \/ \E current \in Page \cup {NoNode}, k \in Continuations,
        d \in Declared(Len(manifest) + 1) : Capture(current, k, d)

Import(i) ==
  \/ Start(i) \/ AddSource(i) \/ PublishReceipt(i) \/ RequireComplete(i)
  \/ CommitEnvelope(i) \/ PublishLineage(i) \/ CommitEvent(i) \/ Crash(i)

IngestNext ==
  \/ Crawl
  \/ \E i \in Importers : Import(i)
  \/ \E v \in Versions : RedactSource(v)

IngestSpec == IngestInit /\ [][IngestNext]_ingest_vars
-----------------------------------------------------------------------------
(***************************************************************************)
(* Properties                                                              *)
(***************************************************************************)

\* A receipt says complete exactly when the crawled graph is a forest spanned
\* by its roots, has a message, names no undiscovered current node and its
\* continuations all ended well, whatever order the page exposed it in
\* (_graph_unresolved_refs and _active_branch against a reference definition).
CompleteMeansWhole ==
  \A current \in Page \cup {NoNode}, k \in Continuations :
    require_complete(build_receipt(nodes, current, k)) <=>
      /\ IsForest(nodes)
      /\ \E n \in DOMAIN nodes : nodes[n].message
      /\ current \in DOMAIN nodes \cup {NoNode}
      /\ continuation_is_terminal_success(k)

\* The builder's own validation never refuses what the builder derived, on any
\* graph (build_shared_chat_capture_receipt).
BuiltReceiptIsValid ==
  \A current \in Page \cup {NoNode}, k \in Continuations :
    receipt_is_valid(build_receipt(nodes, current, k))

\* A committed event stands on one version of everything: the envelope and the
\* lineage published under its identities, the stored or redacted source, and,
\* where there is a receipt, the complete receipt of that very capture; runs
\* over different versions never mix, however they interleave and die.
IngestedIsBacked ==
  \A c \in Conversations : event[c] # None =>
    /\ envelope[c] = event[c] /\ lineage[c] = event[c]
    /\ event[c] \in stored
    /\ c \in Captured => /\ receipt[c] = event[c]
                         /\ manifest[event[c]].complete /\ manifest[event[c]].bound

\* Rerunning is harmless: as long as one good version was captured and its
\* source is not redacted, no run ends with an exception, whatever runs before
\* or beside it left behind.
RerunsSucceed ==
  Len(manifest) = 1 /\ manifest[1].complete /\ manifest[1].bound /\ redacted = {}
    => raised = {}

\* A capture receipt is honest on every graph: complete exactly for a whole
\* conversation, and never refused by the validation its builder runs.
CaptureIsHonest == CompleteMeansWhole /\ BuiltReceiptIsValid

\* Imports leave consistent publications: each committed event stands on one
\* version of its parts, and running an import again is harmless.
ImportsAreSound == IngestTypeOK /\ IngestedIsBacked /\ RerunsSucceed
=============================================================================
