----------------------------- MODULE S3Storage -----------------------------
(***************************************************************************)
(* The S3 adapters (adapters/s3/storage.py): the event store and the       *)
(* artifact store over one bucket of immutable objects.                    *)
(*                                                                         *)
(* Each call is cut at its requests.  A request is answered (its action    *)
(* below), or the client gives up on it (timeout, lost reply, dead         *)
(* process): the call raises RemoteStoreUnavailable while the request      *)
(* stays on the network and may still be applied at any later time.        *)
(*                                                                         *)
(* Manifests and tombstones are never deleted, so the read that follows a  *)
(* failed conditional put of one (put_immutable) is part of the same step; *)
(* after the put of an event or a blob it is a step of its own.            *)
(***************************************************************************)
EXTENDS Naturals, FiniteSets

CONSTANTS Clients,     \* processes using the bucket
          EventIds,    \* deterministic event identities, numbered in key order
          Contents,    \* canonical bytes of events
          Artifacts,   \* artifact contents: the blob key is their digest
          Media,       \* media types
          Requests,    \* <<reason, authority, redacted_at, request_ref>>
          PageSize,    \* objects in one list_objects_v2 response
          MaxLate,     \* bound: abandoned requests still on the network
          None,        \* no object, no argument
          Redacted     \* what readers are told of an erased identity

ASSUME PageAssumption ==
  /\ IsFiniteSet(EventIds) /\ EventIds = 1..Cardinality(EventIds)
  /\ PageSize \in Nat \ {0}

VARIABLES object,      \* the bucket
          call,        \* what each client is executing
          late,        \* abandoned write requests that may still be applied
          acked,       \* <<e, v>>: some commit of v returned
          stored,      \* <<a, m>>: some put_bytes returned
          erased,      \* keys of bytes some redact deleted and returned for
          overlapped,  \* those for which a write was outstanding at that time
          scan         \* the enumeration in progress (iter_events)

history == <<acked, stored, erased, overlapped>>
vars == <<object, call, late, history, scan>>

Keys == ({"event", "tombstone"} \X EventIds)
          \cup ({"blob", "manifest", "redaction"} \X Artifacts)

Bodies == Contents \cup Artifacts \cup Media \cup (Requests \X (Contents \cup Media))

ASSUME BucketAssumption ==
  None \notin Bodies /\ Redacted \notin Contents \cup {None} /\ MaxLate \in Nat

WritePcs == {"commit_put", "redact_put", "redact_delete",
             "put_blob", "put_manifest", "erase_put", "erase_delete"}
ReadPcs == {"commit_reply", "commit_read", "redact_check", "redact_read",
            "put_blob_read"}

Calls == [pc : {"idle"} \cup WritePcs \cup ReadPcs,
          id : EventIds \cup Artifacts \cup {None},
          body : Contents \cup Media \cup {None},
          request : Requests \cup {None}]

Idle == [pc |-> "idle", id |-> None, body |-> None, request |-> None]

\* A write on the wire: body None is delete_object, any other body is
\* put_object with If-None-Match.
Writes == [key : Keys, body : Bodies \cup {None}]

Scans == [on : BOOLEAN, after : Nat, keys : SUBSET EventIds,
          due : SUBSET EventIds]

TypeOK ==
  /\ object \in [Keys -> Bodies \cup {None}]
  /\ call \in [Clients -> Calls]
  /\ late \subseteq Writes /\ Cardinality(late) <= MaxLate
  /\ acked \subseteq EventIds \X Contents
  /\ stored \subseteq Artifacts \X Media
  /\ erased \subseteq Keys /\ overlapped \subseteq Keys
  /\ scan \in Scans

NoScan == [on |-> FALSE, after |-> 0, keys |-> {}, due |-> {}]

Init ==
  /\ object = [k \in Keys |-> None]
  /\ call = [c \in Clients |-> Idle]
  /\ late = {}
  /\ acked = {} /\ stored = {} /\ erased = {} /\ overlapped = {}
  /\ scan = NoScan
-----------------------------------------------------------------------------
exists(k) == object[k] # None

\* The write request a client is about to make.
Write(c) ==
  LET i == call[c].id  pc == call[c].pc IN
  CASE pc = "commit_put"    -> [key |-> <<"event", i>>, body |-> call[c].body]
    [] pc = "put_blob"      -> [key |-> <<"blob", i>>, body |-> i]
    [] pc = "put_manifest"  -> [key |-> <<"manifest", i>>, body |-> call[c].body]
    [] pc = "redact_put"    -> [key |-> <<"tombstone", i>>,
                                body |-> <<call[c].request, call[c].body>>]
    [] pc = "erase_put"     -> [key |-> <<"redaction", i>>,
                                body |-> <<call[c].request, call[c].body>>]
    [] pc = "redact_delete" -> [key |-> <<"event", i>>, body |-> None]
    [] pc = "erase_delete"  -> [key |-> <<"blob", i>>, body |-> None]

\* The bucket applies a write: a conditional put leaves an existing object
\* alone (412 PreconditionFailed), a delete of nothing succeeds.
Apply(w) ==
  object' = [object EXCEPT ![w.key] =
               IF w.body = None \/ @ = None THEN w.body ELSE @]

\* put_immutable created the object, or finds byte-identical content.
Replay(w) == object[w.key] \in {None, w.body}

Goto(c, pc) == call' = [call EXCEPT ![c].pc = pc]
Return(c) == call' = [call EXCEPT ![c] = Idle]
Start(c, pc, i, b, r) ==
  call' = [call EXCEPT ![c] = [pc |-> pc, id |-> i, body |-> b, request |-> r]]

\* Puts of k past their is_redacted test, in a client or on the network.
Outstanding(k) ==
  \/ \E c \in Clients : /\ call[c].pc \in {"commit_put", "put_blob"}
                        /\ Write(c).key = k
  \/ \E w \in late : w.key = k /\ w.body # None
-----------------------------------------------------------------------------
(***************************************************************************)
(* S3DurableEventStore                                                     *)
(***************************************************************************)

\* commit: is_redacted raises EventRedactedError before anything is written.
CommitBegin(c, e, v) ==
  /\ call[c].pc = "idle"
  /\ ~exists(<<"tombstone", e>>)
  /\ Start(c, "commit_put", e, v, None)
  /\ UNCHANGED <<object, late, history, scan>>

CommitPut(c) ==
  /\ call[c].pc = "commit_put"
  /\ Apply(Write(c))
  /\ Goto(c, IF exists(Write(c).key) THEN "commit_read" ELSE "commit_reply")
  /\ UNCHANGED <<late, history, scan>>

\* The reply to the put that created the object: commit returns.
CommitReply(c) ==
  /\ call[c].pc = "commit_reply"
  /\ acked' = acked \cup {<<call[c].id, call[c].body>>}
  /\ Return(c)
  /\ UNCHANGED <<object, late, stored, erased, overlapped, scan>>

\* Defect: any existing object counts as a replay.
CommitRead_trust(c) ==
  /\ call[c].pc = "commit_read"
  /\ acked' = acked \cup {<<call[c].id, call[c].body>>}
  /\ Return(c)
  /\ UNCHANGED <<object, late, stored, erased, overlapped, scan>>

\* Equal bytes are a replay; other bytes raise IdempotencyConflict, an object
\* deleted meanwhile FileNotFoundError.
CommitRead(c) ==
  LET p == <<call[c].id, call[c].body>> IN
  /\ call[c].pc = "commit_read"
  /\ acked' = IF object[<<"event", p[1]>>] = p[2] THEN acked \cup {p} ELSE acked
  /\ Return(c)
  /\ UNCHANGED <<object, late, stored, erased, overlapped, scan>>

\* redact returns an existing tombstone of the same request as it is, raises
\* EventRedactionConflict on another one, and deletes nothing in either case.
RedactBegin(c, e, r) ==
  /\ call[c].pc = "idle"
  /\ ~exists(<<"tombstone", e>>)
  /\ Start(c, "redact_check", e, None, r)
  /\ UNCHANGED <<object, late, history, scan>>

\* get: is_redacted, then the read of the event.
RedactCheck(c) ==
  /\ call[c].pc = "redact_check"
  /\ IF exists(<<"tombstone", call[c].id>>) THEN Return(c) ELSE Goto(c, "redact_read")
  /\ UNCHANGED <<object, late, history, scan>>

RedactRead(c) ==
  LET v == object[<<"event", call[c].id>>] IN
  /\ call[c].pc = "redact_read"
  /\ IF v = None THEN Return(c)
     ELSE call' = [call EXCEPT ![c].pc = "redact_put", ![c].body = v]
  /\ UNCHANGED <<object, late, history, scan>>

\* The tombstone; another one raises EventRedactionConflict.
RedactPut(c) ==
  /\ call[c].pc = "redact_put"
  /\ Apply(Write(c))
  /\ IF Replay(Write(c)) THEN Goto(c, "redact_delete") ELSE Return(c)
  /\ UNCHANGED <<late, history, scan>>

\* The bytes are deleted and redact returns.
Deleted(c) ==
  LET k == Write(c).key IN
  /\ Apply(Write(c))
  /\ Return(c)
  /\ erased' = erased \cup {k}
  /\ overlapped' = IF Outstanding(k) THEN overlapped \cup {k} ELSE overlapped
  /\ UNCHANGED <<late, acked, stored, scan>>

RedactDelete(c) == call[c].pc = "redact_delete" /\ Deleted(c)
-----------------------------------------------------------------------------
(***************************************************************************)
(* S3ArtifactStore                                                         *)
(***************************************************************************)

\* Defect: put_bytes does not look for a tombstone.
PutBegin_unchecked(c, a, m) ==
  /\ call[c].pc = "idle"
  /\ Start(c, "put_blob", a, m, None)
  /\ UNCHANGED <<object, late, history, scan>>

\* put_bytes: is_redacted raises ArtifactRedactedError.
PutBegin(c, a, m) ==
  /\ call[c].pc = "idle"
  /\ ~exists(<<"redaction", a>>)
  /\ Start(c, "put_blob", a, m, None)
  /\ UNCHANGED <<object, late, history, scan>>

PutBlob(c) ==
  LET w == Write(c) IN
  /\ call[c].pc = "put_blob"
  /\ Apply(w)
  /\ Goto(c, IF exists(w.key) THEN "put_blob_read" ELSE "put_manifest")
  /\ UNCHANGED <<late, history, scan>>

\* The blob is content-addressed, so what is read is equal; a blob deleted
\* meanwhile raises FileNotFoundError.
PutBlobRead(c) ==
  /\ call[c].pc = "put_blob_read"
  /\ IF exists(<<"blob", call[c].id>>) THEN Goto(c, "put_manifest") ELSE Return(c)
  /\ UNCHANGED <<object, late, history, scan>>

\* The manifest names the media type: the same bytes under another media type
\* raise ArtifactIntegrityError.
PutManifest(c) ==
  LET w == Write(c) IN
  /\ call[c].pc = "put_manifest"
  /\ Apply(w)
  /\ stored' = IF Replay(w) THEN stored \cup {<<call[c].id, w.body>>} ELSE stored
  /\ Return(c)
  /\ UNCHANGED <<late, acked, erased, overlapped, scan>>

\* redact copies the manifest into the tombstone; without a manifest it raises
\* FileNotFoundError.
EraseBegin(c, a, r) ==
  LET m == object[<<"manifest", a>>] IN
  /\ call[c].pc = "idle" /\ m # None
  /\ Start(c, "erase_put", a, m, r)
  /\ UNCHANGED <<object, late, history, scan>>

\* Unlike the event store, a retry of the same request deletes again.
ErasePut(c) ==
  /\ call[c].pc = "erase_put"
  /\ Apply(Write(c))
  /\ IF Replay(Write(c)) THEN Goto(c, "erase_delete") ELSE Return(c)
  /\ UNCHANGED <<late, history, scan>>

EraseDelete(c) == call[c].pc = "erase_delete" /\ Deleted(c)
-----------------------------------------------------------------------------
(***************************************************************************)
(* iter_events: iter_keys collects page after page (a response lists the   *)
(* next PageSize keys after the continuation token), then each listed      *)
(* event is read in key order; a listed event that is gone by then raises. *)
(***************************************************************************)
ScanBegin ==
  /\ ~scan.on
  /\ scan' = [on |-> TRUE, after |-> 0, keys |-> {},
              due |-> {p[1] : p \in acked}]
  /\ UNCHANGED <<object, call, late, history>>

Listed(n) == {e \in EventIds : e > n /\ exists(<<"event", e>>)}

Page(n) == {e \in Listed(n) : Cardinality({d \in Listed(n) : d <= e}) <= PageSize}

\* Defect: only the first page of a truncated listing is read.
ScanPage_first ==
  /\ scan.on /\ scan.after = 0
  /\ scan' = [scan EXCEPT !.keys = Page(0), !.after = 1 + Cardinality(EventIds)]
  /\ UNCHANGED <<object, call, late, history>>

\* One list_objects_v2 request; the last one (IsTruncated false) moves the
\* token past every key.
ScanPage ==
  LET page == Page(scan.after)  truncated == Listed(scan.after) # page IN
  /\ scan.on /\ scan.after <= Cardinality(EventIds)
  /\ scan' = [scan EXCEPT !.keys = @ \cup page,
                          !.after = IF truncated
                                    THEN CHOOSE e \in page : \A d \in page : d <= e
                                    ELSE 1 + Cardinality(EventIds)]
  /\ UNCHANGED <<object, call, late, history>>

\* The listed events are read; a missing one or any failed request aborts.
ScanEnd ==
  /\ scan.on
  /\ scan' = NoScan
  /\ UNCHANGED <<object, call, late, history>>
-----------------------------------------------------------------------------
(***************************************************************************)
(* The network and the clients' deaths                                     *)
(***************************************************************************)
Abandon(c) ==
  /\ call[c].pc # "idle"
  /\ \/ UNCHANGED late
     \/ /\ call[c].pc \in WritePcs
        /\ Cardinality(late) < MaxLate
        /\ late' = late \cup {Write(c)}
  /\ Return(c)
  /\ UNCHANGED <<object, history, scan>>

ApplyLate(w) ==
  /\ w \in late
  /\ Apply(w)
  /\ late' = late \ {w}
  /\ UNCHANGED <<call, history, scan>>

EventStoreStep(c) ==
  \/ \E e \in EventIds : \/ \E v \in Contents : CommitBegin(c, e, v)
                         \/ \E r \in Requests : RedactBegin(c, e, r)
  \/ CommitPut(c) \/ CommitReply(c) \/ CommitRead(c)
  \/ RedactCheck(c) \/ RedactRead(c) \/ RedactPut(c) \/ RedactDelete(c)

ArtifactStoreStep(c) ==
  \/ \E a \in Artifacts : \/ \E m \in Media : PutBegin(c, a, m)
                          \/ \E r \in Requests : EraseBegin(c, a, r)
  \/ PutBlob(c) \/ PutBlobRead(c) \/ PutManifest(c)
  \/ ErasePut(c) \/ EraseDelete(c)

Next ==
  \/ \E c \in Clients : EventStoreStep(c) \/ ArtifactStoreStep(c) \/ Abandon(c)
  \/ \E w \in late : ApplyLate(w)
  \/ ScanBegin \/ ScanPage \/ ScanEnd

Spec == Init /\ [][Next]_vars
-----------------------------------------------------------------------------
get(e) == IF exists(<<"tombstone", e>>) THEN Redacted ELSE object[<<"event", e>>]

read_bytes(a) ==
  IF exists(<<"redaction", a>>) THEN Redacted
  ELSE IF exists(<<"manifest", a>>) THEN object[<<"blob", a>>] ELSE None

Contract == INSTANCE EventContract WITH cell <- [e \in EventIds |-> get(e)]
-----------------------------------------------------------------------------
(***************************************************************************)
(* Properties                                                              *)
(***************************************************************************)

\* The S3 event store keeps the same promise as the filesystem one, with
\* requests abandoned by their clients and applied at any later time (commit,
\* redact, put_immutable).
ImplementsContract == Contract!CSpec

\* An artifact whose put_bytes returned keeps its manifest, and its bytes stay
\* readable until its redaction is announced by a tombstone, whatever requests
\* other clients have left on the network.
StoredIsReadable ==
  \A p \in stored : /\ object[<<"manifest", p[1]>>] = p[2]
                    /\ read_bytes(p[1]) \in {p[1], Redacted}

\* Nothing in the bucket is ever rewritten, manifests and tombstones are never
\* lost, and the bytes of an identity are deleted only when its tombstone is
\* published (put_immutable, redact of both stores), late requests included.
DeletesOnlyBehindTombstones ==
  [][\A k \in Keys : object[k] # None /\ object'[k] # object[k] =>
       /\ object'[k] = None
       /\ \/ k[1] = "event" /\ exists(<<"tombstone", k[2]>>)
          \/ k[1] = "blob" /\ exists(<<"redaction", k[2]>>)]_vars

\* Bytes for which a redact deleted and returned never come back, unless a
\* write that had passed its own is_redacted test was still under way then.
ErasedStaysGone == \A k \in erased \ overlapped : object[k] = None

\* An enumeration that has listed its last page has every event committed
\* before it began and not redacted since, over any number of pages and
\* whatever is committed or deleted while it runs (iter_keys, iter_events).
ScanIsComplete ==
  scan.on /\ scan.after > Cardinality(EventIds) =>
    \A e \in scan.due : e \in scan.keys \/ exists(<<"tombstone", e>>)

\* Stored artifacts are readable until their redaction, nothing is deleted
\* before a tombstone says so, and what was erased stays so, over a network
\* that keeps and reorders abandoned requests.
ObjectsKeepTheirWord ==
  [](TypeOK /\ StoredIsReadable /\ ErasedStaysGone) /\ DeletesOnlyBehindTombstones
=============================================================================
