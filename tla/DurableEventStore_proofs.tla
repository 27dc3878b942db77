---------------------- MODULE DurableEventStore_proofs ----------------------
(***************************************************************************)
(* Proofs about DurableEventStore for any callers, identities, contents    *)
(* and redaction requests.                                                 *)
(*                                                                         *)
(* StoreInv is inductive for every specification of the module, power loss *)
(* included.  Its heart is what a redaction in progress knows: from the    *)
(* moment it read the event until its unlink, the event file holds the     *)
(* bytes it read unless somebody else's tombstone is there; and only the   *)
(* one caller whose link of the tombstone succeeded ever unlinks, with the  *)
(* tombstone on disk unless its own sync was skipped.                      *)
(***************************************************************************)
EXTENDS DurableEventStore, TLAPS

Redacting(c) == call[c].pc \in {"redact_fsync", "redact_unlink"}

\* What a caller in the middle of a call may rely on.
CallInv(c) ==
  LET e == call[c].id  v == call[c].content IN
  /\ call[c].pc \in CommitPcs => e \in EventIds /\ v \in Contents
  /\ call[c].pc \in RedactPcs => e \in EventIds /\ call[c].request \in Requests
  /\ call[c].pc = "commit_fsync" =>
       event[e] = v \/ (tombstone[e] # None /\ (tombstoneDisk[e] # None \/ e \in unsynced))
  /\ call[c].pc = "redact_publish" =>
       v \in Contents /\ (event[e] = v \/ tombstone[e] # None)
  /\ Redacting(c) =>
       /\ v \in Contents
       /\ tombstone[e] = [request |-> call[c].request, hash |-> v]
       /\ event[e] = v
  /\ call[c].pc = "redact_unlink" => tombstoneDisk[e] = tombstone[e] \/ e \in unsynced

OneRedactor ==
  \A c, d \in Callers :
    Redacting(c) /\ Redacting(d) /\ call[c].id = call[d].id => c = d

DiskInv ==
  /\ \A e \in EventIds : tombstoneDisk[e] # None => tombstone[e] = tombstoneDisk[e]
  /\ \A p \in ackedSynced :
       event[p[1]] = p[2] \/ tombstoneDisk[p[1]] # None \/ p[1] \in unsynced

StoreInv ==
  /\ TypeOK
  /\ \A c \in Callers : CallInv(c)
  /\ OneRedactor
  /\ DiskInv
  /\ SyncedAckSurvivesPowerLoss
-----------------------------------------------------------------------------

LEMMA IdleTyped == Idle \in Calls
BY DEF Idle, Calls

LEMMA GotoTyped ==
  ASSUME TypeOK, NEW c \in Callers, NEW pc \in CommitPcs \cup RedactPcs, Goto(c, pc)
  PROVE  call' \in [Callers -> Calls]
BY DEF TypeOK, Calls, Goto

LEMMA ReturnTyped ==
  ASSUME TypeOK, NEW c \in Callers, Return(c)
  PROVE  call' \in [Callers -> Calls]
BY IdleTyped DEF TypeOK, Return

LEMMA CommitBeginInv ==
  ASSUME NEW c \in Callers, NEW e \in EventIds, NEW v \in Contents, StoreInv, CommitBegin(c, e, v)
  PROVE  StoreInv'
<1> USE ConstantsAssumption DEF StoreInv
<1>0. call[c] \in Calls /\ CallInv(c)
  BY DEF TypeOK
<1>1. TypeOK'
  BY <1>0 DEF TypeOK, Calls, CommitBegin, is_redacted, files, history, CommitPcs, RedactPcs, Tombstones
<1>2. ASSUME NEW d \in Callers PROVE CallInv(d)'
  <2>1. CASE d = c
    BY <1>0, <2>1 DEF TypeOK, Calls, CallInv, DiskInv, Redacting, CommitBegin, is_redacted, files, history, CommitPcs, RedactPcs, Tombstones
  <2>2. CASE d # c
    BY <1>0, <2>2 DEF TypeOK, Calls, CallInv, OneRedactor, DiskInv, Redacting, CommitBegin, is_redacted, files, history, CommitPcs, RedactPcs, Tombstones
  <2>. QED BY <2>1, <2>2
<1>3. OneRedactor'
  BY <1>0 DEF TypeOK, Calls, CallInv, OneRedactor, Redacting, CommitBegin, is_redacted, files, history, CommitPcs, RedactPcs, Tombstones
<1>4. DiskInv'
  BY <1>0 DEF TypeOK, DiskInv, CallInv, Redacting, CommitBegin, is_redacted, files, history, CommitPcs, RedactPcs, Tombstones
<1>5. SyncedAckSurvivesPowerLoss'
  BY <1>0 DEF TypeOK, DiskInv, CallInv, SyncedAckSurvivesPowerLoss, Redacting, CommitBegin, is_redacted, files, history, CommitPcs, RedactPcs, Tombstones
<1>. QED BY <1>1, <1>2, <1>3, <1>4, <1>5

LEMMA CommitPublishInv ==
  ASSUME NEW c \in Callers, StoreInv, CommitPublish(c)
  PROVE  StoreInv'
<1> USE ConstantsAssumption DEF StoreInv
<1>0. call[c] \in Calls /\ CallInv(c) /\ call[c].id \in EventIds /\ call[c].content \in Contents
  BY DEF TypeOK, CallInv, Redacting, CommitPcs, RedactPcs, CommitPublish
<1>1. TypeOK'
  BY <1>0, GotoTyped DEF TypeOK, CommitPublish, files, history, CommitPcs, RedactPcs, Tombstones
<1>2. ASSUME NEW d \in Callers PROVE CallInv(d)'
  <2>1. CASE d = c
    <3>1. CASE event[call[c].id] = None
      <4>1. call'[c] = [call[c] EXCEPT !.pc = "commit_fsync"]
        BY <1>0, <3>1 DEF TypeOK, CommitPublish, Goto
      <4>2. event'[call[c].id] = call[c].content
        BY <1>0, <3>1 DEF TypeOK, CommitPublish
      <4>3. /\ call'[c].pc = "commit_fsync" /\ call'[c].id = call[c].id
            /\ call'[c].content = call[c].content
        BY <1>0, <4>1 DEF Calls
      <4>. QED BY <1>0, <2>1, <4>2, <4>3 DEF CallInv, Redacting, CommitPcs, RedactPcs
    <3>2. CASE event[call[c].id] # None
      <4>1. call'[c] = [call[c] EXCEPT !.pc = "commit_compare"]
        BY <1>0, <3>2 DEF TypeOK, CommitPublish, Goto
      <4>. QED BY <1>0, <2>1, <4>1 DEF Calls, CallInv, Redacting, CommitPcs, RedactPcs
    <3>. QED BY <3>1, <3>2
  <2>2. CASE d # c
    BY <1>0, <2>2 DEF TypeOK, Calls, CallInv, OneRedactor, DiskInv, Redacting, CommitPublish, Goto, files, history, CommitPcs, RedactPcs, Tombstones
  <2>. QED BY <2>1, <2>2
<1>3. OneRedactor'
  BY <1>0 DEF TypeOK, Calls, CallInv, OneRedactor, Redacting, CommitPublish, Goto, files, history, CommitPcs, RedactPcs, Tombstones
<1>4. DiskInv'
  BY <1>0 DEF TypeOK, DiskInv, CallInv, Redacting, CommitPublish, Goto, files, history, CommitPcs, RedactPcs, Tombstones
<1>5. SyncedAckSurvivesPowerLoss'
  BY <1>0 DEF TypeOK, DiskInv, CallInv, SyncedAckSurvivesPowerLoss, Redacting, CommitPublish, Goto, files, history, CommitPcs, RedactPcs, Tombstones
<1>. QED BY <1>1, <1>2, <1>3, <1>4, <1>5

LEMMA CommitFsyncInv ==
  ASSUME NEW c \in Callers, StoreInv, CommitFsync(c)
  PROVE  StoreInv'
<1> USE ConstantsAssumption DEF StoreInv
<1>0. call[c] \in Calls /\ CallInv(c) /\ call[c].id \in EventIds /\ call[c].content \in Contents
  BY DEF TypeOK, CallInv, Redacting, CommitPcs, RedactPcs, CommitFsync
<1>1. TypeOK'
  BY <1>0, ReturnTyped DEF TypeOK, CommitFsync, files, history, CommitPcs, RedactPcs, Tombstones
<1>2. ASSUME NEW d \in Callers PROVE CallInv(d)'
  <2>1. CASE d = c
    BY <1>0, <2>1 DEF TypeOK, Calls, CallInv, DiskInv, Redacting, CommitFsync, Return, Idle, files, history, CommitPcs, RedactPcs, Tombstones
  <2>2. CASE d # c
    BY <1>0, <2>2 DEF TypeOK, Calls, CallInv, OneRedactor, DiskInv, Redacting, CommitFsync, Return, Idle, files, history, CommitPcs, RedactPcs, Tombstones
  <2>. QED BY <2>1, <2>2
<1>3. OneRedactor'
  BY <1>0 DEF TypeOK, Calls, CallInv, OneRedactor, Redacting, CommitFsync, Return, Idle, files, history, CommitPcs, RedactPcs, Tombstones
<1>4. DiskInv'
  BY <1>0 DEF TypeOK, DiskInv, CallInv, Redacting, CommitFsync, Return, Idle, files, history, CommitPcs, RedactPcs, Tombstones
<1>5. SyncedAckSurvivesPowerLoss'
  BY <1>0 DEF TypeOK, DiskInv, CallInv, SyncedAckSurvivesPowerLoss, Redacting, CommitFsync, Return, Idle, files, history, CommitPcs, RedactPcs, Tombstones
<1>. QED BY <1>1, <1>2, <1>3, <1>4, <1>5

LEMMA CommitCompareInv ==
  ASSUME NEW c \in Callers, StoreInv, CommitCompare(c)
  PROVE  StoreInv'
<1> USE ConstantsAssumption DEF StoreInv
<1>0. call[c] \in Calls /\ CallInv(c) /\ call[c].id \in EventIds /\ call[c].content \in Contents
  BY DEF TypeOK, CallInv, Redacting, CommitPcs, RedactPcs, CommitCompare
<1>1. TypeOK'
  BY <1>0, ReturnTyped DEF TypeOK, CommitCompare, files, history, CommitPcs, RedactPcs, Tombstones
<1>2. ASSUME NEW d \in Callers PROVE CallInv(d)'
  <2>1. CASE d = c
    BY <1>0, <2>1 DEF TypeOK, Calls, CallInv, DiskInv, Redacting, CommitCompare, Return, Idle, files, history, CommitPcs, RedactPcs, Tombstones
  <2>2. CASE d # c
    BY <1>0, <2>2 DEF TypeOK, Calls, CallInv, OneRedactor, DiskInv, Redacting, CommitCompare, Return, Idle, files, history, CommitPcs, RedactPcs, Tombstones
  <2>. QED BY <2>1, <2>2
<1>3. OneRedactor'
  BY <1>0 DEF TypeOK, Calls, CallInv, OneRedactor, Redacting, CommitCompare, Return, Idle, files, history, CommitPcs, RedactPcs, Tombstones
<1>4. DiskInv'
  BY <1>0 DEF TypeOK, DiskInv, CallInv, Redacting, CommitCompare, Return, Idle, files, history, CommitPcs, RedactPcs, Tombstones
<1>5. SyncedAckSurvivesPowerLoss'
  BY <1>0 DEF TypeOK, DiskInv, CallInv, SyncedAckSurvivesPowerLoss, Redacting, CommitCompare, Return, Idle, files, history, CommitPcs, RedactPcs, Tombstones
<1>. QED BY <1>1, <1>2, <1>3, <1>4, <1>5

LEMMA RedactBeginInv ==
  ASSUME NEW c \in Callers, NEW e \in EventIds, NEW r \in Requests, StoreInv, RedactBegin(c, e, r)
  PROVE  StoreInv'
<1> USE ConstantsAssumption DEF StoreInv
<1>0. call[c] \in Calls /\ CallInv(c)
  BY DEF TypeOK
<1>1. TypeOK'
  <2>1. CASE is_redacted(e)
    BY <2>1 DEF TypeOK, RedactBegin, files
  <2>2. CASE ~is_redacted(e)
    <3>1. [pc |-> "redact_read", id |-> e, content |-> None, request |-> r] \in Calls
      BY DEF Calls, RedactPcs
    <3>2. call' \in [Callers -> Calls]
      BY <2>2, <3>1 DEF TypeOK, RedactBegin
    <3>. QED BY <2>2, <3>2 DEF TypeOK, RedactBegin, files
  <2>. QED BY <2>1, <2>2
<1>2. ASSUME NEW d \in Callers PROVE CallInv(d)'
  <2>1. CASE d = c
    BY <1>0, <2>1 DEF TypeOK, Calls, CallInv, DiskInv, Redacting, RedactBegin, is_redacted, files, history, CommitPcs, RedactPcs, Tombstones
  <2>2. CASE d # c
    BY <1>0, <2>2 DEF TypeOK, Calls, CallInv, OneRedactor, DiskInv, Redacting, RedactBegin, is_redacted, files, history, CommitPcs, RedactPcs, Tombstones
  <2>. QED BY <2>1, <2>2
<1>3. OneRedactor'
  BY <1>0 DEF TypeOK, Calls, CallInv, OneRedactor, Redacting, RedactBegin, is_redacted, files, history, CommitPcs, RedactPcs, Tombstones
<1>4. DiskInv'
  BY <1>0 DEF TypeOK, DiskInv, CallInv, Redacting, RedactBegin, is_redacted, files, history, CommitPcs, RedactPcs, Tombstones
<1>5. SyncedAckSurvivesPowerLoss'
  BY <1>0 DEF TypeOK, DiskInv, CallInv, SyncedAckSurvivesPowerLoss, Redacting, RedactBegin, is_redacted, files, history, CommitPcs, RedactPcs, Tombstones
<1>. QED BY <1>1, <1>2, <1>3, <1>4, <1>5

LEMMA RedactReadInv ==
  ASSUME NEW c \in Callers, StoreInv, RedactRead(c)
  PROVE  StoreInv'
<1> USE ConstantsAssumption DEF StoreInv
<1>0. call[c] \in Calls /\ CallInv(c)
  BY DEF TypeOK
<1>1. TypeOK'
  BY <1>0, ReturnTyped DEF TypeOK, Calls, RedactRead, Return, Idle, files, history, CommitPcs, RedactPcs, Tombstones
<1>2. ASSUME NEW d \in Callers PROVE CallInv(d)'
  <2>1. CASE d = c
    BY <1>0, <2>1 DEF TypeOK, Calls, CallInv, DiskInv, Redacting, RedactRead, Return, Idle, files, history, CommitPcs, RedactPcs, Tombstones
  <2>2. CASE d # c
    BY <1>0, <2>2 DEF TypeOK, Calls, CallInv, OneRedactor, DiskInv, Redacting, RedactRead, Return, Idle, files, history, CommitPcs, RedactPcs, Tombstones
  <2>. QED BY <2>1, <2>2
<1>3. OneRedactor'
  BY <1>0 DEF TypeOK, Calls, CallInv, OneRedactor, Redacting, RedactRead, Return, Idle, files, history, CommitPcs, RedactPcs, Tombstones
<1>4. DiskInv'
  BY <1>0 DEF TypeOK, DiskInv, CallInv, Redacting, RedactRead, Return, Idle, files, history, CommitPcs, RedactPcs, Tombstones
<1>5. SyncedAckSurvivesPowerLoss'
  BY <1>0 DEF TypeOK, DiskInv, CallInv, SyncedAckSurvivesPowerLoss, Redacting, RedactRead, Return, Idle, files, history, CommitPcs, RedactPcs, Tombstones
<1>. QED BY <1>1, <1>2, <1>3, <1>4, <1>5

LEMMA RedactPublishInv ==
  ASSUME NEW c \in Callers, StoreInv, RedactPublish(c)
  PROVE  StoreInv'
<1> USE ConstantsAssumption DEF StoreInv
<1>0. call[c] \in Calls /\ CallInv(c) /\ call[c].id \in EventIds /\ call[c].content \in Contents
  BY DEF TypeOK, CallInv, Redacting, CommitPcs, RedactPcs, RedactPublish
<1>1. TypeOK'
  <2>1. [request |-> call[c].request, hash |-> call[c].content] \in Tombstones
    BY <1>0 DEF CallInv, RedactPublish, RedactPcs, Tombstones
  <2>2. CASE tombstone[call[c].id] = None
    BY <1>0, <2>1, <2>2, GotoTyped DEF TypeOK, RedactPublish, history, RedactPcs
  <2>3. CASE tombstone[call[c].id] # None
    BY <1>0, <2>3, ReturnTyped DEF TypeOK, RedactPublish, history
  <2>. QED BY <2>2, <2>3
<1>2. ASSUME NEW d \in Callers PROVE CallInv(d)'
  <2>1. CASE d = c
    BY <1>0, <2>1 DEF TypeOK, Calls, CallInv, DiskInv, Redacting, RedactPublish, Goto, Return, Idle, files, history, CommitPcs, RedactPcs, Tombstones
  <2>2. CASE d # c
    BY <1>0, <2>2 DEF TypeOK, Calls, CallInv, OneRedactor, DiskInv, Redacting, RedactPublish, Goto, Return, Idle, files, history, CommitPcs, RedactPcs, Tombstones
  <2>. QED BY <2>1, <2>2
<1>3. OneRedactor'
  <2> SUFFICES ASSUME NEW d1 \in Callers, NEW d2 \in Callers,
                      Redacting(d1)', Redacting(d2)', call'[d1].id = call'[d2].id
               PROVE  d1 = d2
    BY DEF OneRedactor
  <2>1. CASE tombstone[call[c].id] = None
    <3>1. ASSUME NEW d \in Callers, Redacting(d) PROVE call[d].id # call[c].id
      <4>1. /\ tombstone[call[d].id] = [request |-> call[d].request, hash |-> call[d].content]
            /\ call[d].request \in Requests /\ call[d].content \in Contents
        BY <3>1 DEF CallInv, Redacting, RedactPcs
      <4>2. tombstone[call[d].id] \in Tombstones
        BY <4>1 DEF Tombstones
      <4>. QED BY <2>1, <4>2
    <3>2. ASSUME NEW d \in Callers PROVE call'[d].id = call[d].id
      BY <2>1, <3>2 DEF TypeOK, Calls, RedactPublish, Goto
    <3>3. ASSUME NEW d \in Callers, d # c PROVE Redacting(d)' = Redacting(d)
      BY <2>1, <3>3 DEF TypeOK, Calls, RedactPublish, Goto, Redacting
    <3>. QED BY <3>1, <3>2, <3>3 DEF OneRedactor
  <2>2. CASE tombstone[call[c].id] # None
    BY <2>2 DEF TypeOK, Calls, OneRedactor, Redacting, RedactPublish, Return, Idle
  <2>. QED BY <2>1, <2>2
<1>4. DiskInv'
  BY <1>0 DEF TypeOK, DiskInv, CallInv, Redacting, RedactPublish, Goto, Return, Idle, files, history, CommitPcs, RedactPcs, Tombstones
<1>5. SyncedAckSurvivesPowerLoss'
  BY <1>0 DEF TypeOK, DiskInv, CallInv, SyncedAckSurvivesPowerLoss, Redacting, RedactPublish, Goto, Return, Idle, files, history, CommitPcs, RedactPcs, Tombstones
<1>. QED BY <1>1, <1>2, <1>3, <1>4, <1>5

LEMMA RedactFsyncInv ==
  ASSUME NEW c \in Callers, StoreInv, RedactFsync(c)
  PROVE  StoreInv'
<1> USE ConstantsAssumption DEF StoreInv
<1>0. call[c] \in Calls /\ CallInv(c) /\ call[c].id \in EventIds /\ call[c].content \in Contents
  BY DEF TypeOK, CallInv, Redacting, CommitPcs, RedactPcs, RedactFsync
<1>1. TypeOK'
  BY <1>0, GotoTyped DEF TypeOK, RedactFsync, files, history, CommitPcs, RedactPcs, Tombstones
<1>2. ASSUME NEW d \in Callers PROVE CallInv(d)'
  <2>1. CASE d = c
    BY <1>0, <2>1 DEF TypeOK, Calls, CallInv, DiskInv, Redacting, RedactFsync, Goto, files, history, CommitPcs, RedactPcs, Tombstones
  <2>2. CASE d # c
    BY <1>0, <2>2 DEF TypeOK, Calls, CallInv, OneRedactor, DiskInv, Redacting, RedactFsync, Goto, files, history, CommitPcs, RedactPcs, Tombstones
  <2>. QED BY <2>1, <2>2
<1>3. OneRedactor'
  BY <1>0 DEF TypeOK, Calls, CallInv, OneRedactor, Redacting, RedactFsync, Goto, files, history, CommitPcs, RedactPcs, Tombstones
<1>4. DiskInv'
  BY <1>0 DEF TypeOK, DiskInv, CallInv, Redacting, RedactFsync, Goto, files, history, CommitPcs, RedactPcs, Tombstones
<1>5. SyncedAckSurvivesPowerLoss'
  BY <1>0 DEF TypeOK, DiskInv, CallInv, SyncedAckSurvivesPowerLoss, Redacting, RedactFsync, Goto, files, history, CommitPcs, RedactPcs, Tombstones
<1>. QED BY <1>1, <1>2, <1>3, <1>4, <1>5

LEMMA RedactUnlinkInv ==
  ASSUME NEW c \in Callers, StoreInv, RedactUnlink(c)
  PROVE  StoreInv'
<1> USE ConstantsAssumption DEF StoreInv
<1>0. call[c] \in Calls /\ CallInv(c) /\ call[c].id \in EventIds /\ call[c].content \in Contents
  BY DEF TypeOK, CallInv, Redacting, CommitPcs, RedactPcs, RedactUnlink
<1>1. TypeOK'
  BY <1>0, ReturnTyped DEF TypeOK, RedactUnlink, files, history, CommitPcs, RedactPcs, Tombstones
<1>2. ASSUME NEW d \in Callers PROVE CallInv(d)'
  <2>1. CASE d = c
    BY <1>0, <2>1 DEF TypeOK, Calls, CallInv, DiskInv, Redacting, RedactUnlink, Return, Idle, files, history, CommitPcs, RedactPcs, Tombstones
  <2>2. CASE d # c
    BY <1>0, <2>2 DEF TypeOK, Calls, CallInv, OneRedactor, DiskInv, Redacting, RedactUnlink, Return, Idle, files, history, CommitPcs, RedactPcs, Tombstones
  <2>. QED BY <2>1, <2>2
<1>3. OneRedactor'
  BY <1>0 DEF TypeOK, Calls, CallInv, OneRedactor, Redacting, RedactUnlink, Return, Idle, files, history, CommitPcs, RedactPcs, Tombstones
<1>4. DiskInv'
  BY <1>0 DEF TypeOK, DiskInv, CallInv, Redacting, RedactUnlink, Return, Idle, files, history, CommitPcs, RedactPcs, Tombstones
<1>5. SyncedAckSurvivesPowerLoss'
  BY <1>0 DEF TypeOK, DiskInv, CallInv, SyncedAckSurvivesPowerLoss, Redacting, RedactUnlink, Return, Idle, files, history, CommitPcs, RedactPcs, Tombstones
<1>. QED BY <1>1, <1>2, <1>3, <1>4, <1>5

LEMMA CrashInv ==
  ASSUME NEW c \in Callers, StoreInv, Crash(c)
  PROVE  StoreInv'
<1> USE ConstantsAssumption DEF StoreInv
<1>0. call[c] \in Calls /\ CallInv(c)
  BY DEF TypeOK
<1>1. TypeOK'
  BY <1>0, ReturnTyped DEF TypeOK, Crash, files, history, CommitPcs, RedactPcs, Tombstones
<1>2. ASSUME NEW d \in Callers PROVE CallInv(d)'
  <2>1. CASE d = c
    BY <1>0, <2>1 DEF TypeOK, Calls, CallInv, DiskInv, Redacting, Crash, Return, Idle, files, history, CommitPcs, RedactPcs, Tombstones
  <2>2. CASE d # c
    BY <1>0, <2>2 DEF TypeOK, Calls, CallInv, OneRedactor, DiskInv, Redacting, Crash, Return, Idle, files, history, CommitPcs, RedactPcs, Tombstones
  <2>. QED BY <2>1, <2>2
<1>3. OneRedactor'
  BY <1>0 DEF TypeOK, Calls, CallInv, OneRedactor, Redacting, Crash, Return, Idle, files, history, CommitPcs, RedactPcs, Tombstones
<1>4. DiskInv'
  BY <1>0 DEF TypeOK, DiskInv, CallInv, Redacting, Crash, Return, Idle, files, history, CommitPcs, RedactPcs, Tombstones
<1>5. SyncedAckSurvivesPowerLoss'
  BY <1>0 DEF TypeOK, DiskInv, CallInv, SyncedAckSurvivesPowerLoss, Redacting, Crash, Return, Idle, files, history, CommitPcs, RedactPcs, Tombstones
<1>. QED BY <1>1, <1>2, <1>3, <1>4, <1>5

LEMMA WriteBackInv ==
  ASSUME NEW e \in EventIds, StoreInv, WriteBack(e)
  PROVE  StoreInv'
<1> USE ConstantsAssumption DEF StoreInv
<1>1. TypeOK'
  BY DEF TypeOK, WriteBack, history
<1>2. ASSUME NEW d \in Callers PROVE CallInv(d)'
  <2>1. CallInv(d) /\ DiskInv /\ tombstone[e] \in Tombstones \cup {None}
    BY DEF TypeOK
  <2>2. call[d].pc \in CommitPcs \cup RedactPcs => call[d].id \in EventIds
    BY <2>1 DEF CallInv
  <2>3. UNCHANGED <<event, tombstone, call, unsynced>>
    BY DEF WriteBack, history
  <2>4. \A i \in EventIds : tombstoneDisk[i] # None => tombstoneDisk'[i] = tombstoneDisk[i]
    BY <2>1 DEF DiskInv, WriteBack, TypeOK
  <2>5. call[d].pc = "redact_unlink" =>
          tombstoneDisk'[call[d].id] = tombstone[call[d].id] \/ call[d].id \in unsynced
    BY <2>1, <2>2 DEF CallInv, WriteBack, TypeOK, RedactPcs
  <2>. QED BY <2>1, <2>2, <2>3, <2>4, <2>5 DEF CallInv, Redacting, CommitPcs, RedactPcs
<1>3. OneRedactor'
  BY DEF OneRedactor, Redacting, WriteBack
<1>4. DiskInv'
  BY DEF TypeOK, DiskInv, WriteBack, history
<1>5. SyncedAckSurvivesPowerLoss'
  BY DEF TypeOK, DiskInv, SyncedAckSurvivesPowerLoss, WriteBack, history
<1>. QED BY <1>1, <1>2, <1>3, <1>4, <1>5

LEMMA PowerLossInv ==
  ASSUME StoreInv, PowerLoss
  PROVE  StoreInv'
<1> USE ConstantsAssumption DEF StoreInv
<1>1. \A d \in Callers : call'[d] = Idle
  BY DEF PowerLoss
<1>2. TypeOK'
  BY IdleTyped DEF TypeOK, PowerLoss, history
<1>3. ASSUME NEW d \in Callers PROVE CallInv(d)'
  BY <1>1 DEF CallInv, Redacting, Idle, CommitPcs, RedactPcs
<1>4. OneRedactor'
  BY <1>1 DEF OneRedactor, Redacting, Idle
<1>5. DiskInv' /\ SyncedAckSurvivesPowerLoss'
  BY DEF TypeOK, DiskInv, SyncedAckSurvivesPowerLoss, PowerLoss, history
<1>. QED BY <1>2, <1>3, <1>4, <1>5

LEMMA StutterInv ==
  ASSUME StoreInv, UNCHANGED vars
  PROVE  StoreInv'
BY DEF StoreInv, TypeOK, CallInv, OneRedactor, DiskInv, Redacting,
       SyncedAckSurvivesPowerLoss, vars, files, history

LEMMA InitInv == Init => StoreInv
<1> SUFFICES ASSUME Init PROVE StoreInv
  OBVIOUS
<1>1. TypeOK
  BY IdleTyped, ConstantsAssumption DEF Init, TypeOK
<1>2. \A c \in Callers : CallInv(c)
  BY DEF Init, CallInv, Redacting, Idle, CommitPcs, RedactPcs
<1>3. OneRedactor
  BY DEF Init, OneRedactor, Redacting, Idle
<1>4. DiskInv /\ SyncedAckSurvivesPowerLoss
  BY DEF Init, DiskInv, SyncedAckSurvivesPowerLoss
<1>. QED BY <1>1, <1>2, <1>3, <1>4 DEF StoreInv

LEMMA CrashNextInv ==
  ASSUME StoreInv, [CrashNext]_vars
  PROVE  StoreInv'
<1>1. CASE UNCHANGED vars
  BY <1>1, StutterInv
<1>2. ASSUME NEW c \in Callers, Commit(c) PROVE StoreInv'
  BY <1>2, CommitPublishInv, CommitFsyncInv, CommitCompareInv DEF Commit
<1>3. ASSUME NEW c \in Callers, Redact(c) PROVE StoreInv'
  BY <1>3, RedactReadInv, RedactPublishInv, RedactFsyncInv, RedactUnlinkInv DEF Redact
<1>. QED
  BY <1>1, <1>2, <1>3, CommitBeginInv, RedactBeginInv, CrashInv DEF CrashNext, Next

LEMMA PowerNextInv ==
  ASSUME StoreInv, [PowerNext]_vars
  PROVE  StoreInv'
BY CrashNextInv, WriteBackInv, PowerLossInv DEF PowerNext
-----------------------------------------------------------------------------
(***************************************************************************)
(* Theorems                                                                *)
(***************************************************************************)

\* Whatever crashes, skipped syncs and power losses interleave with the calls,
\* every variable keeps its type, and a commit whose directory was synced
\* keeps its bytes on disk until a tombstone is on disk, or a redaction went
\* on without the sync of its own.
THEOREM PowerSafety == PowerSpec => [](TypeOK /\ SyncedAckSurvivesPowerLoss)
<1>1. StoreInv => TypeOK /\ SyncedAckSurvivesPowerLoss
  BY DEF StoreInv
<1>. QED BY InitInv, PowerNextInv, <1>1, PTL DEF PowerSpec

\* One tombstone per identity, for ever: what redact wrote to disk is neither
\* lost nor rewritten by crashes, power losses or competing redactions, those
\* that skip their sync included.
THEOREM DiskTombstoneFinal == PowerSpec => DiskTombstoneIsFinal
<1>1. ASSUME StoreInv, [PowerNext]_vars, NEW e \in EventIds, tombstoneDisk[e] # None
      PROVE  tombstoneDisk'[e] = tombstoneDisk[e]
  <2>1. tombstone[e] = tombstoneDisk[e]
    BY <1>1 DEF StoreInv, DiskInv
  <2>2. ASSUME NEW c \in Callers, RedactFsync(c) PROVE tombstoneDisk'[e] = tombstoneDisk[e]
    BY <1>1, <2>1, <2>2 DEF RedactFsync, StoreInv, TypeOK
  <2>3. ASSUME NEW d \in EventIds, WriteBack(d) PROVE tombstoneDisk'[e] = tombstoneDisk[e]
    BY <1>1, <2>1, <2>3 DEF WriteBack, StoreInv, TypeOK
  <2>. QED
    BY <1>1, <2>2, <2>3 DEF PowerNext, CrashNext, Next, Commit, Redact, CommitBegin,
       CommitPublish, CommitFsync, CommitCompare, RedactBegin, RedactRead,
       RedactPublish, RedactUnlink, Crash, PowerLoss, vars, files
<1>2. StoreInv /\ [PowerNext]_vars =>
        [\A e \in EventIds :
           tombstoneDisk[e] # None => tombstoneDisk'[e] = tombstoneDisk[e]]_vars
  BY <1>1
<1>. QED BY InitInv, PowerNextInv, <1>2, PTL DEF PowerSpec, DiskTombstoneIsFinal

\* How the event file of an identity may change in a step that is not a power
\* loss: it appears, or the one redactor of the identity unlinks it.
LEMMA EventFileStep ==
  ASSUME StoreInv, [PowerNext]_vars, outages' = outages,
         NEW e \in EventIds, event'[e] # event[e]
  PROVE  \/ event[e] = None /\ event'[e] \in Contents
         \/ /\ event'[e] = None
            /\ tombstone[e] \in Tombstones
            /\ tombstoneDisk[e] = tombstone[e] \/ e \in unsynced
            /\ tombstone[e].hash = event[e]
<1> USE DEF StoreInv
<1>1. ASSUME NEW c \in Callers, CommitPublish(c)
      PROVE  event[e] = None /\ event'[e] \in Contents
  BY <1>1 DEF TypeOK, CallInv, CommitPublish, CommitPcs
<1>2. ASSUME NEW c \in Callers, RedactUnlink(c)
      PROVE  /\ event'[e] = None
             /\ tombstone[e] \in Tombstones
             /\ tombstoneDisk[e] = tombstone[e] \/ e \in unsynced
             /\ tombstone[e].hash = event[e]
  <2>1. e = call[c].id /\ event'[e] = None
    BY <1>2 DEF TypeOK, RedactUnlink
  <2>2. /\ tombstone[e] = [request |-> call[c].request, hash |-> event[e]]
        /\ tombstoneDisk[e] = tombstone[e] \/ e \in unsynced
        /\ call[c].request \in Requests /\ event[e] \in Contents
    BY <1>2, <2>1 DEF CallInv, Redacting, RedactUnlink, RedactPcs
  <2>. QED BY <2>1, <2>2 DEF Tombstones
<1>3. ~PowerLoss
  BY DEF PowerLoss, TypeOK
<1>. QED
  BY <1>1, <1>2, <1>3 DEF PowerNext, CrashNext, Next, Commit, Redact, CommitBegin,
     CommitFsync, CommitCompare, RedactBegin, RedactRead, RedactPublish, RedactFsync,
     Crash, WriteBack, vars, files

\* Every file, call and history variable of the store keeps its type, over
\* callers that die anywhere and machines that lose power.
THEOREM Types == PowerSpec => []TypeOK
<1>1. StoreInv => TypeOK
  BY DEF StoreInv
<1>. QED BY InitInv, PowerNextInv, <1>1, PTL DEF PowerSpec

\* Tombstone before delete: with processes dying anywhere, before and after
\* power losses, the only bytes a call ever deletes are those whose hash a
\* published tombstone records, which is on disk unless its sync was skipped.
THEOREM TombstoneBeforeDelete == PowerSpec => DeletesWhatTheTombstoneNames
<1>1. StoreInv /\ [PowerNext]_vars =>
        [\A e \in EventIds :
           event[e] # None /\ event'[e] # event[e] /\ outages' = outages =>
             /\ event'[e] = None
             /\ tombstone[e] # None /\ tombstone[e].hash = event[e]
             /\ tombstoneDisk[e] = tombstone[e] \/ e \in unsynced]_vars
  BY EventFileStep, ConstantsAssumption
<1>. QED BY InitInv, PowerNextInv, <1>1, PTL DEF PowerSpec, DeletesWhatTheTombstoneNames
-----------------------------------------------------------------------------
(***************************************************************************)
(* Refinement: every step that is not a power loss is a step of            *)
(* EventContract or leaves the reader's view alone.                        *)
(***************************************************************************)
Cell == [e \in EventIds |-> get(e)]

LEMMA SameView ==
  ASSUME UNCHANGED <<event, tombstone>>
  PROVE  Cell' = Cell
BY DEF Cell, get, is_redacted

LEMMA CommitPublishRefines ==
  ASSUME StoreInv, NEW c \in Callers, CommitPublish(c)
  PROVE  Contract!CNext \/ UNCHANGED Contract!cvars
<1> DEFINE e == call[c].id  v == call[c].content
<1>0. e \in EventIds /\ v \in Contents /\ acked' = acked /\ tombstone' = tombstone
  BY DEF StoreInv, CallInv, CommitPublish, CommitPcs, history
<1>1. CASE event[e] = None /\ tombstone[e] = None
  <2>1. Cell[e] = None
    BY <1>0, <1>1 DEF Cell, get, is_redacted
  <2>2. Cell' = [Cell EXCEPT ![e] = v]
    BY <1>0, <1>1 DEF Cell, get, is_redacted, CommitPublish, StoreInv, TypeOK
  <2>3. Contract!Accept(e, v)
    BY <1>0, <2>1, <2>2 DEF Contract!Accept, Cell
  <2>. QED BY <1>0, <2>3 DEF Contract!CNext
<1>2. CASE event[e] # None \/ tombstone[e] # None
  <2>1. Cell' = Cell
    BY <1>0, <1>2 DEF Cell, get, is_redacted, CommitPublish, StoreInv, TypeOK
  <2>. QED BY <1>0, <2>1 DEF Contract!cvars, Cell
<1>. QED BY <1>1, <1>2

LEMMA CommitFsyncRefines ==
  ASSUME StoreInv, NEW c \in Callers, CommitFsync(c)
  PROVE  Contract!CNext
<1> DEFINE e == call[c].id  v == call[c].content
<1>1. e \in EventIds /\ v \in Contents /\ (event[e] = v \/ tombstone[e] # None)
  BY DEF StoreInv, CallInv, CommitFsync, CommitPcs
<1>2. Cell[e] \in {v, Redacted}
  BY <1>1 DEF StoreInv, DiskInv, Cell, get, is_redacted
<1>3. Cell' = Cell
  BY SameView DEF CommitFsync
<1>4. Contract!Acknowledge(e, v)
  BY <1>1, <1>2, <1>3 DEF Contract!Acknowledge, Cell, CommitFsync
<1>. QED BY <1>1, <1>4 DEF Contract!CNext

LEMMA CommitCompareRefines ==
  ASSUME StoreInv, NEW c \in Callers, CommitCompare(c)
  PROVE  Contract!CNext \/ UNCHANGED Contract!cvars
<1> DEFINE e == call[c].id  v == call[c].content
<1>1. e \in EventIds /\ v \in Contents
  BY DEF StoreInv, CallInv, CommitCompare, CommitPcs
<1>2. Cell' = Cell
  BY SameView DEF CommitCompare, files
<1>3. CASE event[e] = v
  <2>1. Cell[e] \in {v, Redacted}
    BY <1>1, <1>3 DEF Cell, get
  <2>2. Contract!Acknowledge(e, v)
    BY <1>2, <1>3, <2>1 DEF Contract!Acknowledge, Cell, CommitCompare
  <2>. QED BY <1>1, <2>2 DEF Contract!CNext
<1>4. CASE event[e] # v
  BY <1>2, <1>4 DEF CommitCompare, Contract!cvars, Cell
<1>. QED BY <1>3, <1>4

LEMMA RedactPublishRefines ==
  ASSUME StoreInv, NEW c \in Callers, RedactPublish(c)
  PROVE  Contract!CNext \/ UNCHANGED Contract!cvars
<1> DEFINE e == call[c].id  v == call[c].content
<1>1. /\ e \in EventIds /\ v \in Contents /\ call[c].request \in Requests
      /\ event[e] = v \/ tombstone[e] # None
      /\ acked' = acked /\ event' = event
  BY DEF StoreInv, CallInv, RedactPublish, RedactPcs, history
<1>2. CASE tombstone[e] = None
  <2>1. Cell[e] \in Contents
    BY <1>1, <1>2 DEF Cell, get, is_redacted
  <2>2. tombstone' = [tombstone EXCEPT ![e] = [request |-> call[c].request, hash |-> v]]
    BY <1>2 DEF RedactPublish
  <2>3. [request |-> call[c].request, hash |-> v] # None
    BY <1>1, ConstantsAssumption DEF Tombstones
  <2>4. Cell' = [Cell EXCEPT ![e] = Redacted]
    BY <1>1, <2>2, <2>3 DEF Cell, get, is_redacted, StoreInv, TypeOK
  <2>5. Contract!Erase(e)
    BY <1>1, <2>1, <2>4 DEF Contract!Erase, Cell
  <2>. QED BY <1>1, <2>5 DEF Contract!CNext
<1>3. CASE tombstone[e] # None
  BY <1>1, <1>3, SameView DEF RedactPublish, Contract!cvars, Cell
<1>. QED BY <1>2, <1>3

LEMMA RedactUnlinkRefines ==
  ASSUME StoreInv, NEW c \in Callers, RedactUnlink(c)
  PROVE  UNCHANGED Contract!cvars
<1> DEFINE e == call[c].id
<1>1. /\ e \in EventIds /\ call[c].request \in Requests /\ call[c].content \in Contents
      /\ tombstone[e] = [request |-> call[c].request, hash |-> call[c].content]
  BY DEF StoreInv, CallInv, Redacting, RedactUnlink, RedactPcs
<1>2. tombstone[e] # None
  BY <1>1, ConstantsAssumption DEF Tombstones
<1>3. Cell' = Cell
  BY <1>2 DEF Cell, get, is_redacted, RedactUnlink, StoreInv, TypeOK
<1>. QED BY <1>3 DEF RedactUnlink, Contract!cvars, Cell

LEMMA StepRefines ==
  ASSUME StoreInv, [PowerNext]_vars, outages' = outages
  PROVE  Contract!CNext \/ UNCHANGED Contract!cvars
<1>1. ASSUME NEW c \in Callers, Commit(c) \/ Redact(c)
      PROVE  Contract!CNext \/ UNCHANGED Contract!cvars
  <2>1. CASE RedactRead(c) \/ RedactFsync(c)
    BY <2>1, SameView DEF RedactRead, RedactFsync, files, history, Contract!cvars, Cell
  <2>. QED
    BY <1>1, <2>1, CommitPublishRefines, CommitFsyncRefines, CommitCompareRefines,
       RedactPublishRefines, RedactUnlinkRefines DEF Commit, Redact
<1>2. ASSUME NEW c \in Callers, NEW e \in EventIds,
             \/ \E v \in Contents : CommitBegin(c, e, v)
             \/ \E r \in Requests : RedactBegin(c, e, r)
      PROVE  UNCHANGED Contract!cvars
  BY <1>2, SameView DEF CommitBegin, RedactBegin, files, history, Contract!cvars, Cell
<1>3. ASSUME NEW c \in Callers, Crash(c) PROVE UNCHANGED Contract!cvars
  BY <1>3, SameView DEF Crash, files, history, Contract!cvars, Cell
<1>4. CASE UNCHANGED vars
  BY <1>4, SameView DEF vars, files, history, Contract!cvars, Cell
<1>5. ASSUME NEW e \in EventIds, WriteBack(e) PROVE UNCHANGED Contract!cvars
  BY <1>5, SameView DEF WriteBack, history, Contract!cvars, Cell
<1>6. ~PowerLoss
  BY DEF PowerLoss, StoreInv, TypeOK
<1>. QED BY <1>1, <1>2, <1>3, <1>4, <1>5, <1>6 DEF PowerNext, CrashNext, Next

\* The count of power losses moves with a power loss only.
LEMMA OutagesStep ==
  ASSUME StoreInv, [PowerNext]_vars
  PROVE  /\ outages \in Nat /\ outages' \in Nat
         /\ outages' = outages \/ outages' = outages + 1
<1>1. outages \in Nat /\ outages' \in Nat
  BY PowerNextInv, ConstantsAssumption DEF StoreInv, TypeOK
<1>2. outages' = outages \/ outages' = outages + 1
  BY DEF PowerNext, CrashNext, Next, Commit, Redact, CommitBegin, CommitPublish,
     CommitFsync, CommitCompare, RedactBegin, RedactRead, RedactPublish, RedactFsync,
     RedactUnlink, Crash, WriteBack, PowerLoss, vars, history
<1>. QED BY <1>1, <1>2

\* The store implements its contract for any number of callers that may die
\* anywhere, until the machine loses power: seen through get, an identity is
\* written once, keeps its content and may then be erased for good, and only
\* what it holds is acknowledged.
THEOREM Refinement == PowerSpec => ImplementsContract
<1>1. Init => Contract!CInit
  BY DEF Init, Contract!CInit, get, is_redacted
<1>2. StoreInv /\ [PowerNext]_vars => [outages' = 0 => Contract!CNext]_(Contract!cvars)
  <2> SUFFICES ASSUME StoreInv, [PowerNext]_vars, outages' = 0
               PROVE  Contract!CNext \/ UNCHANGED Contract!cvars
    OBVIOUS
  <2>1. outages' = outages
    BY OutagesStep
  <2>. QED BY <2>1, StepRefines
<1>. QED
  BY InitInv, PowerNextInv, <1>1, <1>2, PTL DEF PowerSpec, ImplementsContract

\* Short of a power loss, a commit that returned stays readable with the
\* caller's bytes until the identity is redacted, whatever other callers do
\* and wherever they die.
THEOREM AckedPermanent == PowerSpec => [](outages = 0 => AckedContentIsPermanent)
<1> DEFINE Inv == StoreInv /\ (outages = 0 => AckedContentIsPermanent)
<1>1. Init => Inv
  BY InitInv DEF Init, AckedContentIsPermanent
<1>2. Inv /\ [PowerNext]_vars => Inv'
  <2> SUFFICES ASSUME StoreInv, outages = 0 => AckedContentIsPermanent,
                      [PowerNext]_vars, outages' = 0, NEW p \in acked'
               PROVE  get(p[1])' \in {p[2], Redacted}
    BY PowerNextInv DEF AckedContentIsPermanent
  <2>0. outages' = outages /\ AckedContentIsPermanent
    BY OutagesStep
  <2>1. Contract!CNext \/ UNCHANGED Contract!cvars
    BY <2>0, StepRefines
  <2>2. TypeOK /\ TypeOK'
    BY PowerNextInv DEF StoreInv
  <2>3. p[1] \in EventIds /\ p[2] \in Contents
    BY <2>2 DEF TypeOK
  <2>4. p \in acked => Cell[p[1]] \in {p[2], Redacted}
    BY <2>0, <2>3 DEF AckedContentIsPermanent, Cell
  <2>5. ASSUME NEW e \in EventIds, NEW v \in Contents, Contract!Accept(e, v)
        PROVE  Cell'[p[1]] \in {p[2], Redacted}
    <3>1. p \in acked /\ Cell[e] = None /\ Cell' = [Cell EXCEPT ![e] = v]
      BY <2>5 DEF Contract!Accept, Cell
    <3>2. p[1] # e
      BY <2>3, <2>4, <3>1, ConstantsAssumption
    <3>. QED BY <2>3, <2>4, <3>1, <3>2 DEF Cell
  <2>6. ASSUME NEW e \in EventIds, NEW v \in Contents, Contract!Acknowledge(e, v)
        PROVE  Cell'[p[1]] \in {p[2], Redacted}
    <3>1. (p \in acked \/ p = <<e, v>>) /\ Cell[e] \in {v, Redacted} /\ Cell' = Cell
      BY <2>6 DEF Contract!Acknowledge, Cell
    <3>. QED BY <2>4, <3>1
  <2>7. ASSUME NEW e \in EventIds, Contract!Erase(e)
        PROVE  Cell'[p[1]] \in {p[2], Redacted}
    <3>1. p \in acked /\ Cell' = [Cell EXCEPT ![e] = Redacted]
      BY <2>7 DEF Contract!Erase, Cell
    <3>. QED BY <2>3, <2>4, <3>1 DEF Cell
  <2>8. ASSUME UNCHANGED Contract!cvars
        PROVE  Cell'[p[1]] \in {p[2], Redacted}
    BY <2>4, <2>8 DEF Contract!cvars, Cell
  <2>9. Cell'[p[1]] \in {p[2], Redacted}
    BY <2>1, <2>5, <2>6, <2>7, <2>8 DEF Contract!CNext
  <2>. QED BY <2>3, <2>9 DEF Cell
<1>. QED BY <1>1, <1>2, PTL DEF PowerSpec

\* No step short of a power loss takes a tombstone away.
LEMMA TombstoneStays ==
  ASSUME StoreInv, [PowerNext]_vars, outages' = outages,
         NEW e \in EventIds, tombstone[e] # None
  PROVE  tombstone'[e] # None
<1>1. ASSUME NEW c \in Callers, RedactPublish(c)
      PROVE  tombstone'[e] # None
  BY <1>1, ConstantsAssumption DEF StoreInv, TypeOK, RedactPublish, CallInv, RedactPcs, Tombstones
<1>2. (\E c \in Callers : RedactPublish(c)) \/ UNCHANGED tombstone
  <2>1. ~PowerLoss
    BY DEF PowerLoss, StoreInv, TypeOK
  <2>. QED BY <2>1 DEF PowerNext, WriteBack, CrashNext, Next, Commit, Redact, CommitBegin, CommitPublish, CommitFsync, CommitCompare,
         RedactBegin, RedactRead, RedactFsync, RedactUnlink, Crash, files, vars
<1>. QED BY <1>1, <1>2

\* redact returns only for an identity that has a tombstone.
LEMMA ReportedErasure ==
  ASSUME StoreInv, [PowerNext]_vars, NEW e \in erased', e \notin erased
  PROVE  tombstone[e] # None
<1>1. ASSUME NEW c \in Callers, RedactUnlink(c)
      PROVE  tombstone[e] # None
  <2>1. CallInv(c) /\ e = call[c].id
    BY <1>1 DEF StoreInv, RedactUnlink
  <2>2. tombstone[e] \in Tombstones
    BY <1>1, <2>1 DEF RedactUnlink, CallInv, Redacting, RedactPcs, Tombstones
  <2>. QED BY <2>2, ConstantsAssumption
<1>2. ASSUME NEW c \in Callers, NEW i \in EventIds, NEW r \in Requests, RedactBegin(c, i, r)
      PROVE  tombstone[e] # None
  BY <1>2 DEF RedactBegin, is_redacted
<1>3. \/ \E c \in Callers : RedactUnlink(c)
      \/ \E c \in Callers, i \in EventIds, r \in Requests : RedactBegin(c, i, r)
      \/ UNCHANGED erased
  BY DEF PowerNext, WriteBack, PowerLoss, CrashNext, Next, Commit, Redact, CommitBegin, CommitPublish, CommitFsync, CommitCompare,
         RedactRead, RedactPublish, RedactFsync, Crash, history, vars
<1>. QED BY <1>1, <1>2, <1>3

\* Short of a power loss, an erasure that redact reported stays for readers:
\* get never serves the identity again, whatever commits, redactions and
\* crashes follow.
THEOREM AckedErasurePermanent == PowerSpec => [](outages = 0 => AckedErasureIsPermanent)
<1> DEFINE Inv == StoreInv /\ (outages = 0 => AckedErasureIsPermanent)
<1>1. Init => Inv
  BY InitInv DEF Init, AckedErasureIsPermanent
<1>2. Inv /\ [PowerNext]_vars => Inv'
  <2> SUFFICES ASSUME StoreInv, outages = 0 => AckedErasureIsPermanent,
                      [PowerNext]_vars, outages' = 0, NEW e \in erased'
               PROVE  tombstone'[e] # None
    BY PowerNextInv DEF AckedErasureIsPermanent, get, is_redacted
  <2>0. outages' = outages /\ AckedErasureIsPermanent
    BY OutagesStep
  <2>1. TypeOK /\ TypeOK' /\ e \in EventIds
    BY PowerNextInv DEF StoreInv, TypeOK
  <2>2. e \in erased => tombstone[e] # None
    BY <2>0, <2>1, ConstantsAssumption DEF AckedErasureIsPermanent, get, is_redacted, TypeOK
  <2>3. tombstone[e] # None => tombstone'[e] # None
    BY <2>0, <2>1, TombstoneStays
  <2>4. e \notin erased => tombstone'[e] # None
    BY <2>1, <2>3, ReportedErasure
  <2>. QED BY <2>2, <2>3, <2>4
<1>. QED BY <1>1, <1>2, PTL DEF Inv, PowerSpec

\* Whatever commit and redact have acknowledged holds for every later reader
\* until the machine loses power, and the variables keep their types, whoever
\* dies where.
THEOREM Acknowledged == PowerSpec => [](TypeOK /\ AcknowledgementsHold)
<1>1. StoreInv => TypeOK
  BY DEF StoreInv
<1>2. PowerSpec => []StoreInv
  BY InitInv, PowerNextInv, PTL DEF PowerSpec
<1>3. (outages = 0 => AckedContentIsPermanent) /\ (outages = 0 => AckedErasureIsPermanent)
        => AcknowledgementsHold
  BY DEF AcknowledgementsHold
<1>. QED BY <1>1, <1>2, <1>3, AckedPermanent, AckedErasurePermanent, PTL
=============================================================================
