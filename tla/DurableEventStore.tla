------------------------- MODULE DurableEventStore -------------------------
(***************************************************************************)
(* The filesystem event store (adapters/filesystem/event_store.py) and its *)
(* publication primitive (adapters/filesystem/io.py).                      *)
(*                                                                         *)
(* Each call is cut at the system calls another process, a crash or a      *)
(* power loss can come between: the existence test of the tombstone, the   *)
(* atomic link that publishes a file, the fsync of its directory, the read *)
(* of an existing file and the unlink.  A file is visible from its link    *)
(* (event, tombstone) and survives a power loss once its directory entry   *)
(* is on disk (eventDisk, tombstoneDisk).  The sync of the directory is     *)
(* best effort: fsync_directory returns silently when the directory cannot *)
(* be opened, and the call goes on as if it were on disk.  An fsync that   *)
(* fails raises: the call ends there, as in Crash.                         *)
(*                                                                         *)
(* An event identity is deterministic in (pack_id, idempotency_key), so    *)
(* the contents a caller may commit under one identity are the events that *)
(* share a key.  Schema and contract validation happen before any of these *)
(* steps and change nothing; callers here commit valid events.             *)
(***************************************************************************)
EXTENDS Naturals

CONSTANTS Callers,    \* processes or threads using the store
          EventIds,   \* deterministic event identities
          Contents,   \* canonical bytes of events
          Requests,   \* <<reason, authority, redacted_at, request_ref>>
          None,       \* no file, no argument
          Redacted,   \* what the contract shows for an erased identity
          MaxOutages  \* bound: power losses

\* The minimal audit record: the request and the hash of the erased bytes.
Tombstones == [request : Requests, hash : Contents]

ASSUME ConstantsAssumption ==
  /\ None \notin Contents \cup Requests \cup Tombstones \cup EventIds
  /\ Redacted \notin Contents \cup {None}
  /\ MaxOutages \in Nat

VARIABLES event,          \* event file visible at _event_path
          eventDisk,      \* event file a power loss would leave
          tombstone,      \* redaction file visible at _redaction_path
          tombstoneDisk,  \* redaction file a power loss would leave
          call,           \* what each caller is executing
          acked,          \* <<e, v>>: some commit of v returned
          ackedSynced,    \* the same, only commits that published v themselves
                          \* and whose directory was synced
          erased,         \* identities for which some redact returned
          unsynced,       \* identities whose redaction went on to the unlink
                          \* without a sync of its tombstone
          outages         \* power losses so far

files == <<event, eventDisk, tombstone, tombstoneDisk>>
history == <<acked, ackedSynced, erased, unsynced, outages>>
vars == <<files, call, history>>

CommitPcs == {"commit_publish", "commit_fsync", "commit_compare"}
RedactPcs == {"redact_read", "redact_publish", "redact_fsync", "redact_unlink"}

Calls == [pc : {"idle"} \cup CommitPcs \cup RedactPcs,
          id : EventIds \cup {None},
          content : Contents \cup {None},
          request : Requests \cup {None}]

Idle == [pc |-> "idle", id |-> None, content |-> None, request |-> None]

TypeOK ==
  /\ event \in [EventIds -> Contents \cup {None}]
  /\ eventDisk \in [EventIds -> Contents \cup {None}]
  /\ tombstone \in [EventIds -> Tombstones \cup {None}]
  /\ tombstoneDisk \in [EventIds -> Tombstones \cup {None}]
  /\ call \in [Callers -> Calls]
  /\ acked \subseteq EventIds \X Contents
  /\ ackedSynced \subseteq EventIds \X Contents
  /\ erased \subseteq EventIds
  /\ unsynced \subseteq EventIds
  /\ outages \in 0..MaxOutages

Init ==
  /\ event = [e \in EventIds |-> None]
  /\ eventDisk = [e \in EventIds |-> None]
  /\ tombstone = [e \in EventIds |-> None]
  /\ tombstoneDisk = [e \in EventIds |-> None]
  /\ call = [c \in Callers |-> Idle]
  /\ acked = {}
  /\ ackedSynced = {}
  /\ erased = {}
  /\ unsynced = {}
  /\ outages = 0

is_redacted(e) == tombstone[e] # None

Goto(c, pc) == call' = [call EXCEPT ![c].pc = pc]
Return(c) == call' = [call EXCEPT ![c] = Idle]
-----------------------------------------------------------------------------
(***************************************************************************)
(* commit                                                                  *)
(***************************************************************************)

\* commit is called; is_redacted raises EventRedactedError (a stuttering
\* step here) before anything is written.
CommitBegin(c, e, v) ==
  /\ call[c].pc = "idle"
  /\ ~is_redacted(e)
  /\ call' = [call EXCEPT ![c] = [pc |-> "commit_publish", id |-> e,
                                  content |-> v, request |-> None]]
  /\ UNCHANGED <<files, history>>

\* Defect: publication replaces an existing file instead of linking.
CommitPublish_replace(c) ==
  /\ call[c].pc = "commit_publish"
  /\ event' = [event EXCEPT ![call[c].id] = call[c].content]
  /\ Goto(c, "commit_fsync")
  /\ UNCHANGED <<eventDisk, tombstone, tombstoneDisk, history>>

\* publish_immutable: the fsynced temporary file is linked to its name, or
\* the name already exists and the published file is left alone.
CommitPublish(c) ==
  LET e == call[c].id IN
  /\ call[c].pc = "commit_publish"
  /\ IF event[e] = None
     THEN /\ event' = [event EXCEPT ![e] = call[c].content]
          /\ Goto(c, "commit_fsync")
     ELSE /\ UNCHANGED event
          /\ Goto(c, "commit_compare")
  /\ UNCHANGED <<eventDisk, tombstone, tombstoneDisk, history>>

\* Defect: the directory is opened and closed, and never synced.
CommitFsync_skip(c) ==
  LET p == <<call[c].id, call[c].content>> IN
  /\ call[c].pc = "commit_fsync"
  /\ acked' = acked \cup {p} /\ ackedSynced' = ackedSynced \cup {p}
  /\ Return(c)
  /\ UNCHANGED <<files, erased, unsynced, outages>>

\* fsync_directory writes the directory as it is now, or cannot open it and
\* returns silently; commit returns either way.
CommitFsync(c) ==
  LET e == call[c].id  p == <<e, call[c].content>> IN
  /\ call[c].pc = "commit_fsync"
  /\ \/ /\ eventDisk' = [eventDisk EXCEPT ![e] = event[e]]
        /\ ackedSynced' = ackedSynced \cup {p}
     \/ UNCHANGED <<eventDisk, ackedSynced>>
  /\ acked' = acked \cup {p}
  /\ Return(c)
  /\ UNCHANGED <<event, tombstone, tombstoneDisk, erased, unsynced, outages>>

\* Defect: any existing file counts as an idempotent replay.
CommitCompare_trust(c) ==
  /\ call[c].pc = "commit_compare"
  /\ acked' = acked \cup {<<call[c].id, call[c].content>>}
  /\ Return(c)
  /\ UNCHANGED <<files, ackedSynced, erased, unsynced, outages>>

\* The name existed: equal bytes are an idempotent replay, different bytes
\* raise IdempotencyConflict, a file unlinked meanwhile FileNotFoundError.
CommitCompare(c) ==
  LET e == call[c].id IN
  /\ call[c].pc = "commit_compare"
  /\ acked' = IF event[e] = call[c].content
              THEN acked \cup {<<e, call[c].content>>}
              ELSE acked
  /\ Return(c)
  /\ UNCHANGED <<files, ackedSynced, erased, unsynced, outages>>
-----------------------------------------------------------------------------
(***************************************************************************)
(* redact                                                                  *)
(***************************************************************************)

\* A tombstone of the same request is returned as it is; one of another
\* request raises EventRedactionConflict.  Neither touches the event file.
RedactBegin(c, e, r) ==
  /\ call[c].pc = "idle"
  /\ IF is_redacted(e)
     THEN /\ erased' = IF tombstone[e].request = r
                       THEN erased \cup {e} ELSE erased
          /\ UNCHANGED call
     ELSE /\ call' = [call EXCEPT ![c] = [pc |-> "redact_read", id |-> e,
                                          content |-> None, request |-> r]]
          /\ UNCHANGED erased
  /\ UNCHANGED <<files, acked, ackedSynced, unsynced, outages>>

\* Defect: the tombstone is prepared without hashing the event.
RedactRead_nohash(c) ==
  /\ call[c].pc = "redact_read"
  /\ Goto(c, "redact_publish")
  /\ UNCHANGED <<files, history>>

\* The event to be erased is read for its hash (FileNotFoundError if absent).
RedactRead(c) ==
  LET e == call[c].id IN
  /\ call[c].pc = "redact_read"
  /\ IF event[e] = None
     THEN Return(c)
     ELSE call' = [call EXCEPT ![c].pc = "redact_publish",
                               ![c].content = event[e]]
  /\ UNCHANGED <<files, history>>

\* Defect: a redaction that finds another tombstone goes on to delete.
RedactPublish_proceed(c) ==
  LET e == call[c].id IN
  /\ call[c].pc = "redact_publish"
  /\ tombstone' = IF tombstone[e] # None THEN tombstone
                  ELSE [tombstone EXCEPT ![e] = [request |-> call[c].request,
                                                 hash |-> call[c].content]]
  /\ Goto(c, "redact_fsync")
  /\ UNCHANGED <<event, eventDisk, tombstoneDisk, history>>

\* Defect: the later redaction rewrites the tombstone.
RedactPublish_rewrite(c) ==
  /\ call[c].pc = "redact_publish"
  /\ tombstone' = [tombstone EXCEPT ![call[c].id] = [request |-> call[c].request,
                                                     hash |-> call[c].content]]
  /\ Goto(c, "redact_fsync")
  /\ UNCHANGED <<event, eventDisk, tombstoneDisk, history>>

\* publish_immutable of the tombstone; losing to another redaction raises
\* EventRedactionConflict.
RedactPublish(c) ==
  LET e == call[c].id IN
  /\ call[c].pc = "redact_publish"
  /\ IF tombstone[e] = None
     THEN /\ tombstone' = [tombstone EXCEPT ![e] =
                             [request |-> call[c].request,
                              hash |-> call[c].content]]
          /\ Goto(c, "redact_fsync")
     ELSE /\ UNCHANGED tombstone
          /\ Return(c)
  /\ UNCHANGED <<event, eventDisk, tombstoneDisk, history>>

\* The tombstone reaches the disk, or its directory cannot be opened; the
\* unlink follows either way.
RedactFsync(c) ==
  LET e == call[c].id IN
  /\ call[c].pc = "redact_fsync"
  /\ \/ /\ tombstoneDisk' = [tombstoneDisk EXCEPT ![e] = tombstone[e]]
        /\ UNCHANGED unsynced
     \/ /\ unsynced' = unsynced \cup {e}
        /\ UNCHANGED tombstoneDisk
  /\ Goto(c, "redact_unlink")
  /\ UNCHANGED <<event, eventDisk, tombstone, acked, ackedSynced, erased, outages>>

\* The sensitive bytes are unlinked (the directory is not fsynced) and redact
\* returns.
RedactUnlink(c) ==
  LET e == call[c].id IN
  /\ call[c].pc = "redact_unlink"
  /\ event' = [event EXCEPT ![e] = None]
  /\ erased' = erased \cup {e}
  /\ Return(c)
  /\ UNCHANGED <<eventDisk, tombstone, tombstoneDisk, acked, ackedSynced, unsynced, outages>>
-----------------------------------------------------------------------------
(***************************************************************************)
(* The environment: processes die, the kernel writes directories back when *)
(* it likes, the machine loses power.                                      *)
(***************************************************************************)
Crash(c) ==
  /\ call[c].pc # "idle"
  /\ Return(c)
  /\ UNCHANGED <<files, history>>

WriteBack(e) ==
  /\ \/ eventDisk' = [eventDisk EXCEPT ![e] = event[e]] /\ UNCHANGED tombstoneDisk
     \/ tombstoneDisk' = [tombstoneDisk EXCEPT ![e] = tombstone[e]] /\ UNCHANGED eventDisk
  /\ UNCHANGED <<event, tombstone, call, history>>

PowerLoss ==
  /\ outages < MaxOutages
  /\ outages' = outages + 1
  /\ event' = eventDisk
  /\ tombstone' = tombstoneDisk
  /\ call' = [c \in Callers |-> Idle]
  /\ UNCHANGED <<eventDisk, tombstoneDisk, acked, ackedSynced, erased, unsynced>>
-----------------------------------------------------------------------------
Commit(c) == CommitPublish(c) \/ CommitFsync(c) \/ CommitCompare(c)
Redact(c) == RedactRead(c) \/ RedactPublish(c) \/ RedactFsync(c) \/ RedactUnlink(c)

Next ==
  \/ \E c \in Callers, e \in EventIds :
       \/ \E v \in Contents : CommitBegin(c, e, v)
       \/ \E r \in Requests : RedactBegin(c, e, r)
  \/ \E c \in Callers : Commit(c) \/ Redact(c)

\* Processes may die between any two steps of a call.
CrashNext == Next \/ \E c \in Callers : Crash(c)

\* The machine may also lose power.
PowerNext == CrashNext \/ (\E e \in EventIds : WriteBack(e)) \/ PowerLoss
PowerSpec == Init /\ [][PowerNext]_vars
-----------------------------------------------------------------------------
(***************************************************************************)
(* What readers see: get hides an identity with a tombstone, iter_events   *)
(* lists every event file.                                                 *)
(***************************************************************************)
get(e) == IF is_redacted(e) THEN Redacted ELSE event[e]

iter_events == {e \in EventIds : event[e] # None}

Contract == INSTANCE EventContract WITH cell <- [e \in EventIds |-> get(e)]
-----------------------------------------------------------------------------
(***************************************************************************)
(* Properties                                                              *)
(***************************************************************************)

\* With processes dying anywhere inside commit and redact, a client of get
\* sees the contract until the machine loses power: one content per identity,
\* then possibly erasure, and no acknowledgement of a content the identity
\* does not hold.
ImplementsContract ==
  Contract!CInit /\ [][outages' = 0 => Contract!CNext]_(Contract!cvars)

\* A commit that returned is still readable, with the bytes the caller sent,
\* unless the identity was redacted (commit, redact and their crashes).
AckedContentIsPermanent ==
  \A p \in acked : get(p[1]) \in {p[2], Redacted}

\* An erasure that redact reported is never undone for a reader: no commit,
\* competing redaction or crash makes get serve the identity again.
AckedErasureIsPermanent == \A e \in erased : get(e) = Redacted

\* Whatever a call has acknowledged holds for every later reader, until the
\* machine loses power: a committed content until its redaction, a reported
\* erasure for ever (commit, redact and the deaths of their processes).
AcknowledgementsHold ==
  outages = 0 => AckedContentIsPermanent /\ AckedErasureIsPermanent

\* Tombstone before delete (redact): event bytes disappear only when a
\* tombstone of that identity is published, and only the very bytes whose
\* hash that tombstone records; the tombstone is on disk by then, unless the
\* one redaction of the identity could not open its directory.  A power loss
\* may still take what was not synced.
DeletesWhatTheTombstoneNames ==
  [][\A e \in EventIds :
       event[e] # None /\ event'[e] # event[e] /\ outages' = outages =>
         /\ event'[e] = None
         /\ tombstone[e] # None /\ tombstone[e].hash = event[e]
         /\ tombstoneDisk[e] = tombstone[e] \/ e \in unsynced]_vars

\* A power loss takes nothing from a caller whose commit published the event
\* and synced its directory: the bytes are on disk unless a tombstone is, or
\* a redaction went on without one (fsync_directory in publish_immutable).
SyncedAckSurvivesPowerLoss ==
  \A p \in ackedSynced :
    \/ eventDisk[p[1]] = p[2]
    \/ tombstoneDisk[p[1]] # None
    \/ p[1] \in unsynced

\* An audit tombstone that reached the disk is never lost or rewritten, over
\* any number of crashes, power losses and competing redactions.
DiskTombstoneIsFinal ==
  [][\A e \in EventIds :
       tombstoneDisk[e] # None => tombstoneDisk'[e] = tombstoneDisk[e]]_vars
=============================================================================
