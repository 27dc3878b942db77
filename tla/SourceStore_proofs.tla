------------------------- MODULE SourceStore_proofs -------------------------
(***************************************************************************)
(* Proofs about SourceStore and the ArtifactStore below it, for any        *)
(* callers, artifacts, media types, sources and redaction requests.        *)
(*                                                                         *)
(* SourceInv is inductive.  A caller that goes on to publish a manifest    *)
(* has seen the bytes, and they are only ever unlinked behind a tombstone; *)
(* a snapshot is published behind a manifest, after its parents, and so no *)
(* set of published snapshots is derived from itself.                      *)
(***************************************************************************)
EXTENDS SourceStore, SequenceTheorems, TLAPS

\* The bytes of a are on disk, or its tombstone tells why not.
Kept(a) == a \in blob \/ redaction[a] # None

Redacting(c) == call[c].pc \in {"redact_publish", "redact_unlink"}

\* A derivation names parents, all of them published; nothing else does.
Grounded(new) ==
  /\ (new.role = "derived") <=> (new.parents # {})
  /\ \A p \in new.parents : snapshot[p] # None

\* What a caller in the middle of a call may rely on.
CallInv(c) ==
  LET a == call[c].art  m == call[c].media IN
  /\ call[c].pc # "idle" => a \in Artifacts /\ m \in Media
  /\ call[c].pc \in {"put_manifest", "returned"} => Kept(a)
  /\ call[c].pc = "returned" => manifest[a] # None /\ call[c].after # None
  /\ Redacting(c) => manifest[a] = m /\ call[c].request \in Requests
  /\ call[c].pc = "redact_unlink" => redaction[a] # None
  /\ call[c].after # None =>
       a = artifact_for_snapshot(call[c].after[1]) /\ Grounded(call[c].after[2])

ManifestInv ==
  /\ \A a \in Artifacts : manifest[a] # None => Kept(a)
  /\ \A p \in stored : manifest[p[1]] = p[2]

ErasedInv ==
  /\ \A a \in erased : redaction[a] # None
  /\ \A a \in erased \ overlapped : a \notin blob /\ ~Putting(a)

SnapshotInv ==
  \A s \in SnapshotIds : snapshot[s] # None =>
    manifest[artifact_for_snapshot(s)] # None /\ Grounded(snapshot[s])

\* Every non-empty set of published snapshots has one not derived from the set.
WellFounded ==
  \A D \in SUBSET {s \in SnapshotIds : snapshot[s] # None} :
    D # {} => \E s \in D : snapshot[s].parents \cap D = {}

CitedInv ==
  \A x \in cited :
    LET s == x.snapshot IN
    /\ s \in SnapshotIds
    /\ snapshot[s] # None
    /\ x.artifact = artifact_for_snapshot(s)
    /\ x.role = snapshot[s].role
    /\ x.span \in ValidSpans(x.artifact)
    /\ x.passage = Passage(x.artifact, x.span)

SourceInv ==
  /\ TypeOK
  /\ \A c \in Callers : CallInv(c)
  /\ ManifestInv
  /\ ErasedInv
  /\ SnapshotInv
  /\ WellFounded
  /\ CitedInv

\* What no step takes back: the first manifest and the first tombstone of an
\* artifact, its bytes but for the tombstone, and the published snapshots.
Progress ==
  /\ \A a \in Artifacts :
       /\ manifest[a] # None => manifest'[a] = manifest[a]
       /\ redaction[a] # None => redaction'[a] = redaction[a]
       /\ Kept(a) => Kept(a)'
  /\ \A s \in SnapshotIds : snapshot[s] # None => snapshot'[s] = snapshot[s]
-----------------------------------------------------------------------------

LEMMA ParentsTyped ==
  ASSUME NEW new \in Snapshots
  PROVE  new.role \in Roles /\ new.parents \subseteq SnapshotIds
BY DEF Snapshots, Parents

LEMMA CallTyped ==
  ASSUME TypeOK, NEW c \in Callers
  PROVE  /\ call[c].pc \in ArtifactPcs
         /\ call[c].art \in Artifacts \cup {None}
         /\ call[c].media \in Media \cup {None}
         /\ call[c].request \in Requests \cup {None}
         /\ call[c].after # None => /\ call[c].after[1] \in SnapshotIds
                                   /\ call[c].after[2] \in Snapshots
BY DEF TypeOK

LEMMA GotoTyped ==
  ASSUME TypeOK, NEW c \in Callers, NEW pc \in ArtifactPcs, Goto(c, pc)
  PROVE  /\ call' \in [Callers -> [pc : ArtifactPcs, art : Artifacts \cup {None},
                          media : Media \cup {None}, request : Requests \cup {None},
                          after : (SnapshotIds \X Snapshots) \cup {None}]]
         /\ call'[c] = [call[c] EXCEPT !.pc = pc]
         /\ \A d \in Callers \ {c} : call'[d] = call[d]
BY DEF TypeOK, Goto

LEMMA ReturnTyped ==
  ASSUME TypeOK, NEW c \in Callers, Return(c)
  PROVE  /\ call' \in [Callers -> [pc : ArtifactPcs, art : Artifacts \cup {None},
                          media : Media \cup {None}, request : Requests \cup {None},
                          after : (SnapshotIds \X Snapshots) \cup {None}]]
         /\ call'[c] = Idle
         /\ \A d \in Callers \ {c} : call'[d] = call[d]
BY DEF TypeOK, Return, Idle, ArtifactPcs

\* What a step that publishes no snapshot and cites nothing leaves true.
LEMMA RestInv ==
  ASSUME SourceInv, Progress, TypeOK', NEW c \in Callers,
         \A d \in Callers \ {c} : call'[d] = call[d],
         CallInv(c)', ManifestInv', ErasedInv', UNCHANGED <<snapshot, cited>>
  PROVE  SourceInv'
<1>1. ASSUME NEW d \in Callers PROVE CallInv(d)'
  <2>1. CASE d = c  BY <2>1
  <2>2. CASE d # c
    <3>1. call'[d] = call[d] /\ CallInv(d)
      BY <2>2 DEF SourceInv
    <3>2. call[d].after # None => call[d].after[2].parents \subseteq SnapshotIds
      BY CallTyped, ParentsTyped DEF SourceInv
    <3>3. call[d].after # None => Grounded(call[d].after[2])'
      BY <3>1, <3>2 DEF CallInv, Grounded
    <3>. QED
      BY <3>1, <3>3, ArtifactAssumption
      DEF CallInv, Progress, Redacting, Kept, Grounded, artifact_for_snapshot
  <2>. QED  BY <2>1, <2>2
<1>2. SnapshotInv' /\ WellFounded' /\ CitedInv'
  <2>1. SnapshotInv'
    BY DEF SourceInv, SnapshotInv, Progress, Grounded, artifact_for_snapshot, SnapshotIds
  <2>2. WellFounded'
    BY DEF SourceInv, WellFounded
  <2>3. CitedInv'
    BY DEF SourceInv, CitedInv
  <2>. QED  BY <2>1, <2>2, <2>3
<1>. QED  BY <1>1, <1>2 DEF SourceInv

LEMMA PutBeginInv ==
  ASSUME NEW c \in Callers, NEW a \in Artifacts, NEW m \in Media,
         NEW after \in (SnapshotIds \X Snapshots) \cup {None}, SourceInv,
         PutBegin(c, a, m, after), UNCHANGED <<snapshot, cited>>,
         after # None => a = artifact_for_snapshot(after[1]) /\ Grounded(after[2])
  PROVE  SourceInv' /\ Progress
<1> USE ArtifactAssumption DEF SourceInv
<1>0. CallInv(c)
  OBVIOUS
<1>1. TypeOK' /\ \A d \in Callers \ {c} : call'[d] = call[d]
  BY <1>0 DEF TypeOK, ArtifactTypeOK, CallInv, Redacting, ArtifactPcs, Idle, PutBegin, files, is_redacted
<1>2. Progress
  BY <1>0 DEF TypeOK, ArtifactTypeOK, Progress, Kept, CallInv, Redacting, PutBegin, files, is_redacted
<1>3. CallInv(c)'
  BY <1>0 DEF TypeOK, ArtifactTypeOK, CallInv, Kept, Redacting, Grounded, ManifestInv, Idle, PutBegin, files, is_redacted
<1>4. ManifestInv'
  BY <1>0 DEF TypeOK, ArtifactTypeOK, CallInv, ManifestInv, Kept, Redacting, PutBegin, files, is_redacted
<1>5. ErasedInv'
  BY <1>0 DEF TypeOK, ArtifactTypeOK, CallInv, ErasedInv, Putting, Redacting, Idle, PutBegin, files, is_redacted
<1>. QED  BY <1>1, <1>2, <1>3, <1>4, <1>5, RestInv

LEMMA PutBlobInv ==
  ASSUME NEW c \in Callers, SourceInv, PutBlob(c), UNCHANGED <<snapshot, cited>>
  PROVE  SourceInv' /\ Progress
<1> USE ArtifactAssumption DEF SourceInv
<1>0. CallInv(c)
  OBVIOUS
<1>1. TypeOK' /\ \A d \in Callers \ {c} : call'[d] = call[d]
  BY <1>0 DEF TypeOK, ArtifactTypeOK, CallInv, Redacting, ArtifactPcs, Idle, PutBlob, Goto
<1>2. Progress
  BY <1>0 DEF TypeOK, ArtifactTypeOK, Progress, Kept, CallInv, Redacting, PutBlob
<1>3. CallInv(c)'
  BY <1>0 DEF TypeOK, ArtifactTypeOK, CallInv, Kept, Redacting, Grounded, ManifestInv, Idle, PutBlob, Goto
<1>4. ManifestInv'
  BY <1>0 DEF TypeOK, ArtifactTypeOK, CallInv, ManifestInv, Kept, Redacting, PutBlob
<1>5. ErasedInv'
  BY <1>0 DEF TypeOK, ArtifactTypeOK, CallInv, ErasedInv, Putting, Redacting, Idle, PutBlob, Goto
<1>. QED  BY <1>1, <1>2, <1>3, <1>4, <1>5, RestInv

LEMMA PutCompareInv ==
  ASSUME NEW c \in Callers, SourceInv, PutCompare(c), UNCHANGED <<snapshot, cited>>
  PROVE  SourceInv' /\ Progress
<1> USE ArtifactAssumption DEF SourceInv
<1>0. CallInv(c)
  OBVIOUS
<1>1. TypeOK' /\ \A d \in Callers \ {c} : call'[d] = call[d]
  BY <1>0 DEF TypeOK, ArtifactTypeOK, CallInv, Redacting, ArtifactPcs, Idle, PutCompare, files, Goto, Return
<1>2. Progress
  BY <1>0 DEF TypeOK, ArtifactTypeOK, Progress, Kept, CallInv, Redacting, PutCompare, files
<1>3. CallInv(c)'
  BY <1>0 DEF TypeOK, ArtifactTypeOK, CallInv, Kept, Redacting, Grounded, ManifestInv, Idle, PutCompare, files, Goto, Return
<1>4. ManifestInv'
  BY <1>0 DEF TypeOK, ArtifactTypeOK, CallInv, ManifestInv, Kept, Redacting, PutCompare, files
<1>5. ErasedInv'
  BY <1>0 DEF TypeOK, ArtifactTypeOK, CallInv, ErasedInv, Putting, Redacting, Idle, PutCompare, files, Goto, Return
<1>. QED  BY <1>1, <1>2, <1>3, <1>4, <1>5, RestInv

LEMMA PutManifestInv ==
  ASSUME NEW c \in Callers, SourceInv, PutManifest(c), UNCHANGED <<snapshot, cited>>
  PROVE  SourceInv' /\ Progress
<1> USE ArtifactAssumption DEF SourceInv
<1>0. CallInv(c)
  OBVIOUS
<1>a. call[c].art \in Artifacts /\ call[c].media \in Media
  BY <1>0 DEF CallInv, PutManifest
<1>1. TypeOK' /\ \A d \in Callers \ {c} : call'[d] = call[d]
  <2>1. manifest' \in [Artifacts -> Media \cup {None}] /\ stored' \subseteq Artifacts \X Media
    BY <1>a DEF TypeOK, ArtifactTypeOK, PutManifest
  <2>2. "returned" \in ArtifactPcs
    BY DEF ArtifactPcs
  <2>. QED  BY <2>1, <2>2, GotoTyped, ReturnTyped DEF TypeOK, ArtifactTypeOK, PutManifest
<1>2. Progress
  BY <1>0 DEF TypeOK, ArtifactTypeOK, Progress, Kept, CallInv, Redacting, PutManifest
<1>3. CallInv(c)'
  BY <1>0 DEF TypeOK, ArtifactTypeOK, CallInv, Kept, Redacting, Grounded, ManifestInv, Idle, PutManifest, Goto, Return
<1>4. ManifestInv'
  BY <1>0 DEF TypeOK, ArtifactTypeOK, CallInv, ManifestInv, Kept, Redacting, PutManifest
<1>5. ErasedInv'
  BY <1>0 DEF TypeOK, ArtifactTypeOK, CallInv, ErasedInv, Putting, Redacting, Idle, PutManifest, Goto, Return
<1>. QED  BY <1>1, <1>2, <1>3, <1>4, <1>5, RestInv

LEMMA RedactBeginInv ==
  ASSUME NEW c \in Callers, NEW a \in Artifacts, NEW r \in Requests, SourceInv,
         RedactBegin(c, a, r), UNCHANGED <<snapshot, cited>>
  PROVE  SourceInv' /\ Progress
<1> USE ArtifactAssumption DEF SourceInv
<1>0. CallInv(c)
  OBVIOUS
<1>1. TypeOK' /\ \A d \in Callers \ {c} : call'[d] = call[d]
  BY <1>0 DEF TypeOK, ArtifactTypeOK, CallInv, Redacting, ArtifactPcs, Idle, RedactBegin, files
<1>2. Progress
  BY <1>0 DEF TypeOK, ArtifactTypeOK, Progress, Kept, CallInv, Redacting, RedactBegin, files
<1>3. CallInv(c)'
  BY <1>0 DEF TypeOK, ArtifactTypeOK, CallInv, Kept, Redacting, Grounded, ManifestInv, Idle, RedactBegin, files
<1>4. ManifestInv'
  BY <1>0 DEF TypeOK, ArtifactTypeOK, CallInv, ManifestInv, Kept, Redacting, RedactBegin, files
<1>5. ErasedInv'
  BY <1>0 DEF TypeOK, ArtifactTypeOK, CallInv, ErasedInv, Putting, Redacting, Idle, RedactBegin, files
<1>. QED  BY <1>1, <1>2, <1>3, <1>4, <1>5, RestInv

LEMMA RedactPublishInv ==
  ASSUME NEW c \in Callers, SourceInv, RedactPublish(c), UNCHANGED <<snapshot, cited>>
  PROVE  SourceInv' /\ Progress
<1> USE ArtifactAssumption DEF SourceInv
<1>0. CallInv(c)
  OBVIOUS
<1>a. /\ call[c].art \in Artifacts
      /\ <<call[c].request, call[c].media>> \in Requests \X Media
  BY <1>0 DEF CallInv, Redacting, RedactPublish
<1>1. TypeOK' /\ \A d \in Callers \ {c} : call'[d] = call[d]
  <2>1. redaction' \in [Artifacts -> (Requests \X Media) \cup {None}]
    BY <1>a DEF TypeOK, ArtifactTypeOK, RedactPublish
  <2>2. "redact_unlink" \in ArtifactPcs
    BY DEF ArtifactPcs
  <2>. QED  BY <2>1, <2>2, GotoTyped, ReturnTyped DEF TypeOK, ArtifactTypeOK, RedactPublish
<1>2. Progress
  BY <1>0 DEF TypeOK, ArtifactTypeOK, Progress, Kept, CallInv, Redacting, RedactPublish
<1>3. CallInv(c)'
  <2>1. redaction'[call[c].art] # None \/ call'[c].pc = "idle"
    BY <1>a DEF TypeOK, ArtifactTypeOK, RedactPublish, Return, Idle
  <2>. QED  BY <1>0, <1>1, <1>a, <2>1 DEF TypeOK, ArtifactTypeOK, CallInv, Kept, Redacting, Grounded, ManifestInv, Idle, RedactPublish, Goto, Return
<1>4. ManifestInv'
  BY <1>0 DEF TypeOK, ArtifactTypeOK, CallInv, ManifestInv, Kept, Redacting, RedactPublish
<1>5. ErasedInv'
  BY <1>0 DEF TypeOK, ArtifactTypeOK, CallInv, ErasedInv, Putting, Redacting, Idle, RedactPublish, Goto, Return
<1>. QED  BY <1>1, <1>2, <1>3, <1>4, <1>5, RestInv

LEMMA RedactUnlinkInv ==
  ASSUME NEW c \in Callers, SourceInv, RedactUnlink(c), UNCHANGED <<snapshot, cited>>
  PROVE  SourceInv' /\ Progress
<1> USE ArtifactAssumption DEF SourceInv
<1>0. CallInv(c)
  OBVIOUS
<1>1. TypeOK' /\ \A d \in Callers \ {c} : call'[d] = call[d]
  BY <1>0 DEF TypeOK, ArtifactTypeOK, CallInv, Redacting, ArtifactPcs, Idle, RedactUnlink, Return
<1>2. Progress
  BY <1>0 DEF TypeOK, ArtifactTypeOK, Progress, Kept, CallInv, Redacting, RedactUnlink
<1>3. CallInv(c)'
  BY <1>0 DEF TypeOK, ArtifactTypeOK, CallInv, Kept, Redacting, Grounded, ManifestInv, Idle, RedactUnlink, Return
<1>4. ManifestInv'
  BY <1>0 DEF TypeOK, ArtifactTypeOK, CallInv, ManifestInv, Kept, Redacting, RedactUnlink
<1>5. ErasedInv'
  BY <1>0 DEF TypeOK, ArtifactTypeOK, CallInv, ErasedInv, Putting, Redacting, Idle, RedactUnlink, Return
<1>. QED  BY <1>1, <1>2, <1>3, <1>4, <1>5, RestInv

LEMMA CrashInv ==
  ASSUME NEW c \in Callers, SourceInv, Crash(c), UNCHANGED <<snapshot, cited>>
  PROVE  SourceInv' /\ Progress
<1> USE ArtifactAssumption DEF SourceInv
<1>0. CallInv(c)
  OBVIOUS
<1>1. TypeOK' /\ \A d \in Callers \ {c} : call'[d] = call[d]
  BY <1>0 DEF TypeOK, ArtifactTypeOK, CallInv, Redacting, ArtifactPcs, Idle, Crash, files, Return
<1>2. Progress
  BY <1>0 DEF TypeOK, ArtifactTypeOK, Progress, Kept, CallInv, Redacting, Crash, files
<1>3. CallInv(c)'
  BY <1>0 DEF TypeOK, ArtifactTypeOK, CallInv, Kept, Redacting, Grounded, ManifestInv, Idle, Crash, files, Return
<1>4. ManifestInv'
  BY <1>0 DEF TypeOK, ArtifactTypeOK, CallInv, ManifestInv, Kept, Redacting, Crash, files
<1>5. ErasedInv'
  BY <1>0 DEF TypeOK, ArtifactTypeOK, CallInv, ErasedInv, Putting, Redacting, Idle, Crash, files, Return
<1>. QED  BY <1>1, <1>2, <1>3, <1>4, <1>5, RestInv

LEMMA SnapshotBeginInv ==
  ASSUME NEW c \in Callers, NEW s \in SnapshotIds, NEW role \in Roles,
         NEW P \in Parents, NEW m \in Media, SourceInv, SnapshotBegin(c, s, role, P, m)
  PROVE  SourceInv' /\ Progress
<1> DEFINE new == [role |-> role, parents |-> P]
<1>1. <<s, new>> \in SnapshotIds \X Snapshots /\ artifact_for_snapshot(s) \in Artifacts
  BY DEF Snapshots, SnapshotIds, artifact_for_snapshot
<1>2. Grounded(new)
  BY DEF SnapshotBegin, Grounded, get_snapshot
<1>3. PutBegin(c, artifact_for_snapshot(s), m, <<s, new>>) /\ UNCHANGED <<snapshot, cited>>
  BY DEF SnapshotBegin
<1>. HIDE DEF new
<1>. QED  BY <1>1, <1>2, <1>3, PutBeginInv

LEMMA SnapshotPublishInv ==
  ASSUME NEW c \in Callers, SourceInv, SnapshotPublish(c)
  PROVE  SourceInv' /\ Progress
<1> USE ArtifactAssumption, SnapshotAssumption DEF SourceInv
<1> DEFINE s == call[c].after[1]
           new == call[c].after[2]
<1>1. /\ CallInv(c) /\ call[c].pc = "returned" /\ call[c].after # None
      /\ s \in SnapshotIds /\ new \in Snapshots
  BY CallTyped DEF CallInv, SnapshotPublish
<1>2. /\ snapshot' = [snapshot EXCEPT ![s] = IF @ = None THEN new ELSE @]
      /\ Return(c)
      /\ UNCHANGED <<files, stored, erased, overlapped, cited>>
  BY DEF SnapshotPublish
<1>3. /\ Grounded(new) /\ new.parents \subseteq SnapshotIds /\ new # None
      /\ manifest[artifact_for_snapshot(s)] # None
  BY <1>1, ParentsTyped DEF CallInv
<1>. HIDE DEF s, new
<1>4. snapshot' \in [SnapshotIds -> Snapshots \cup {None}] /\ snapshot'[s] # None
  BY <1>1, <1>2, <1>3 DEF TypeOK
<1>5. TypeOK' /\ call'[c] = Idle /\ \A d \in Callers \ {c} : call'[d] = call[d]
  BY <1>2, <1>4, ReturnTyped DEF TypeOK, ArtifactTypeOK, files
<1>6. /\ Progress
      /\ \A p \in SnapshotIds \ {s} : snapshot'[p] = snapshot[p]
      /\ snapshot[s] = None => snapshot'[s] = new
  BY <1>1, <1>2 DEF TypeOK, Progress, Kept, files
<1>7. ASSUME NEW d \in Callers PROVE CallInv(d)'
  <2>1. CASE d = c
    BY <1>5, <2>1 DEF CallInv, Idle, Redacting
  <2>2. CASE d # c
    <3>1. call'[d] = call[d] /\ CallInv(d)
      BY <1>5, <2>2
    <3>2. call[d].after # None => Grounded(call[d].after[2])'
      BY <1>6, <3>1, CallTyped, ParentsTyped DEF CallInv, Grounded, Progress
    <3>. QED
      BY <1>2, <3>1, <3>2
      DEF CallInv, Progress, Redacting, Kept, Grounded, artifact_for_snapshot, files
  <2>. QED  BY <2>1, <2>2
<1>8. ManifestInv' /\ ErasedInv'
  <2>1. ManifestInv'
    BY <1>2 DEF ManifestInv, Kept, files
  <2>2. ErasedInv'
    BY <1>2, <1>5 DEF ErasedInv, Putting, files, Idle
  <2>. QED  BY <2>1, <2>2
<1>9. SnapshotInv'
  <2>. SUFFICES ASSUME NEW p \in SnapshotIds, snapshot'[p] # None
                PROVE  manifest'[artifact_for_snapshot(p)] # None /\ Grounded(snapshot[p])'
    BY DEF SnapshotInv, artifact_for_snapshot
  <2>1. CASE snapshot[p] # None
    <3>1. /\ snapshot'[p] = snapshot[p] /\ Grounded(snapshot[p])
          /\ manifest[artifact_for_snapshot(p)] # None
      BY <1>6, <2>1 DEF Progress, SnapshotInv
    <3>2. snapshot[p].parents \subseteq SnapshotIds
      BY <2>1, ParentsTyped DEF TypeOK
    <3>. QED  BY <1>2, <1>6, <3>1, <3>2 DEF Grounded, Progress, files
  <2>2. CASE snapshot[p] = None
    <3>1. p = s /\ snapshot'[p] = new
      BY <1>6, <2>2
    <3>. QED  BY <1>2, <1>3, <1>6, <3>1 DEF Grounded, Progress, files
  <2>. QED  BY <2>1, <2>2
<1>10. WellFounded'
  <2>. SUFFICES ASSUME NEW D \in SUBSET {p \in SnapshotIds : snapshot'[p] # None}, D # {}
                PROVE  \E p \in D : snapshot'[p].parents \cap D = {}
    BY DEF WellFounded
  <2>1. CASE \A p \in D : snapshot[p] # None
    <3>1. PICK p \in D : snapshot[p].parents \cap D = {}
      BY <2>1 DEF WellFounded
    <3>. QED  BY <2>1, <3>1 , <1>6 DEF Progress
  <2>2. CASE \E p \in D : snapshot[p] = None
    <3>1. s \in D /\ snapshot[s] = None /\ snapshot'[s] = new /\ s \notin new.parents
      BY <1>3, <1>6, <2>2 DEF Grounded
    <3>2. CASE D = {s}
      BY <3>1, <3>2
    <3>3. CASE D # {s}
      <4>1. D \ {s} \in SUBSET {p \in SnapshotIds : snapshot[p] # None} /\ D \ {s} # {}
        BY <1>6, <3>1, <3>3
      <4>2. PICK p \in D \ {s} : snapshot[p].parents \cap (D \ {s}) = {}
        BY <4>1 DEF WellFounded
      <4>3. s \notin snapshot[p].parents
        BY <3>1, <4>1 DEF SnapshotInv, Grounded
      <4>. QED  BY <1>6, <4>1, <4>2, <4>3
    <3>. QED  BY <3>2, <3>3
  <2>. QED  BY <2>1, <2>2
<1>11. CitedInv'
  BY <1>2, <1>6 DEF CitedInv, Progress
<1>. QED  BY <1>5, <1>6, <1>7, <1>8, <1>9, <1>10, <1>11

\* Every passage of an artifact is a sequence of its bytes.
LEMMA PassageTyped ==
  ASSUME NEW a \in Artifacts, NEW span \in ValidSpans(a)
  PROVE  Passage(a, span) \in Seq(Nat)
<1>1. Bytes[a] \in Seq(Nat) /\ Len(Bytes[a]) \in Nat
  BY BytesAssumption
<1>2. CASE span = None
  BY <1>1, <1>2 DEF Passage
<1>3. CASE span # None
  <2>1. /\ span[1] \in 0..Len(Bytes[a]) /\ span[2] \in 0..Len(Bytes[a])
    BY <1>3 DEF ValidSpans
  <2>2. \A i \in span[1] + 1 .. span[2] : Bytes[a][i] \in Nat
    BY <1>1, <2>1, ElementOfSeq
  <2>3. SubSeq(Bytes[a], span[1] + 1, span[2]) \in Seq(Nat)
    BY <1>1, <2>1, <2>2, SubSeqProperties
  <2>. QED  BY <1>3, <2>3 DEF Passage
<1>. QED  BY <1>2, <1>3

LEMMA CreateCitationInv ==
  ASSUME SourceInv, NEW s \in SnapshotIds, NEW span, CreateCitation(s, span)
  PROVE  SourceInv' /\ Progress
<1> USE DEF SourceInv
<1> DEFINE a == artifact_for_snapshot(s)
           new == [snapshot |-> s, artifact |-> a, span |-> span,
                   passage |-> Passage(a, span), role |-> snapshot[s].role]
<1>1. /\ snapshot[s] # None /\ span \in ValidSpans(a) /\ cited' = cited \cup {new}
      /\ UNCHANGED <<avars, snapshot>> /\ a \in Artifacts
  BY DEF CreateCitation, get_snapshot, artifact_for_snapshot, SnapshotIds
<1>2. snapshot[s].role \in Roles
  BY <1>1, ParentsTyped DEF TypeOK
<1>3. span \in Span /\ Passage(a, span) \in Seq(Nat)
  <2>1. Len(Bytes[a]) \in Nat
    BY <1>1, BytesAssumption
  <2>. QED  BY <1>1, <2>1, PassageTyped DEF ValidSpans, Span
<1>4. TypeOK'
  <2>1. new.snapshot \in SnapshotIds /\ new.role \in Roles /\ new.span \in Span /\ new.passage \in Seq(Nat)
    BY <1>2, <1>3
  <2>. HIDE DEF new
  <2>. QED  BY <1>1, <2>1 DEF TypeOK, ArtifactTypeOK, avars, files
<1>5. CitedInv'
  <2>1. /\ new.snapshot = s /\ new.artifact = a /\ new.role = snapshot[s].role
        /\ new.span = span /\ new.passage = Passage(a, span)
    OBVIOUS
  <2>. HIDE DEF new
  <2>. QED  BY <1>1, <2>1 DEF CitedInv
<1>. HIDE DEF new, a
<1>6. Progress /\ (\A c \in Callers : CallInv(c)')
  BY <1>1 DEF Progress, Kept, CallInv, Redacting, Grounded, avars, files
<1>7. ManifestInv' /\ ErasedInv' /\ SnapshotInv' /\ WellFounded'
  BY <1>1 DEF ManifestInv, Kept, ErasedInv, Putting, SnapshotInv, Grounded, WellFounded, avars, files
<1>. QED  BY <1>4, <1>5, <1>6, <1>7
-----------------------------------------------------------------------------

LEMMA InitInv == Init => SourceInv
<1>. SUFFICES ASSUME Init PROVE SourceInv
  OBVIOUS
<1>. USE DEF Init, ArtifactInit
<1>1. TypeOK
  BY DEF TypeOK, ArtifactTypeOK, Idle, ArtifactPcs
<1>2. ASSUME NEW c \in Callers PROVE CallInv(c)
  BY DEF CallInv, Idle, Redacting
<1>3. ManifestInv /\ ErasedInv /\ SnapshotInv /\ CitedInv
  BY DEF ManifestInv, ErasedInv, SnapshotInv, CitedInv
<1>4. WellFounded
  BY DEF WellFounded
<1>. QED  BY <1>1, <1>2, <1>3, <1>4 DEF SourceInv

LEMMA NextInv == SourceInv /\ [Next]_vars => SourceInv' /\ Progress
<1>. SUFFICES ASSUME SourceInv, [Next]_vars PROVE SourceInv' /\ Progress
  OBVIOUS
<1>1. CASE ArtifactNext /\ UNCHANGED <<snapshot, cited>>
  <2>. SUFFICES ASSUME NEW c \in Callers,
                  \/ \E a \in Artifacts : \/ \E m \in Media : PutBegin(c, a, m, None)
                                          \/ \E r \in Requests : RedactBegin(c, a, r)
                  \/ PutBlob(c) \/ PutCompare(c) \/ PutManifest(c)
                  \/ RedactPublish(c) \/ RedactUnlink(c) \/ Crash(c)
                PROVE  SourceInv' /\ Progress
    BY <1>1 DEF ArtifactNext
  <2>1. ASSUME NEW a \in Artifacts, NEW m \in Media, PutBegin(c, a, m, None)
        PROVE  SourceInv' /\ Progress
    BY <1>1, <2>1, PutBeginInv
  <2>. QED
    BY <1>1, <2>1, RedactBeginInv, PutBlobInv, PutCompareInv, PutManifestInv,
       RedactPublishInv, RedactUnlinkInv, CrashInv
<1>2. ASSUME NEW c \in Callers, NEW s \in SnapshotIds, NEW role \in Roles,
             NEW P \in Parents, NEW m \in Media, SnapshotBegin(c, s, role, P, m)
      PROVE  SourceInv' /\ Progress
  BY <1>2, SnapshotBeginInv
<1>3. ASSUME NEW c \in Callers, SnapshotPublish(c) PROVE SourceInv' /\ Progress
  BY <1>3, SnapshotPublishInv
<1>4. ASSUME NEW s \in SnapshotIds, NEW span, CreateCitation(s, span)
      PROVE  SourceInv' /\ Progress
  BY <1>4, CreateCitationInv
<1>5. CASE UNCHANGED vars
  <2>1. TypeOK' /\ (\A c \in Callers : CallInv(c)')
    BY <1>5 DEF SourceInv, TypeOK, ArtifactTypeOK, CallInv, Redacting, Grounded, Kept, vars, avars, files
  <2>2. ManifestInv' /\ ErasedInv' /\ SnapshotInv' /\ WellFounded' /\ CitedInv' /\ Progress
    BY <1>5 DEF SourceInv, ManifestInv, Kept, ErasedInv, Putting, SnapshotInv, Grounded, WellFounded,
                CitedInv, Progress, vars, avars, files
  <2>. QED  BY <2>1, <2>2 DEF SourceInv
<1>. QED  BY <1>1, <1>2, <1>3, <1>4, <1>5 DEF Next
-----------------------------------------------------------------------------

LEMMA SourceInvariant == Spec => []SourceInv
BY InitInv, NextInv, PTL DEF Spec

\* A stored artifact keeps its manifest and stays readable until its tombstone
\* is published, and what redact has erased stays gone unless a put overlapped
\* it, for any number of putters and redactors dying anywhere.
THEOREM ArtifactsKept == Spec => []ArtifactsKeepTheirWord
<1>1. SourceInv => ArtifactsKeepTheirWord
  <2>. SUFFICES ASSUME SourceInv PROVE ArtifactsKeepTheirWord
    OBVIOUS
  <2>1. ArtifactTypeOK
    BY DEF SourceInv, TypeOK
  <2>2. ASSUME NEW p \in stored
        PROVE  manifest[p[1]] = p[2] /\ read_bytes(p[1]) \in {p[1], "redacted"}
    <3>1. p[1] \in Artifacts /\ p[2] \in Media /\ manifest[p[1]] = p[2]
      BY <2>1 DEF SourceInv, ManifestInv, ArtifactTypeOK
    <3>. QED  BY <3>1, ArtifactAssumption DEF SourceInv, ManifestInv, Kept, read_bytes, is_redacted
  <2>3. ErasedStaysGone
    BY DEF SourceInv, ErasedInv, ErasedStaysGone
  <2>. QED  BY <2>1, <2>2, <2>3 DEF ArtifactsKeepTheirWord, StoredIsReadable
<1>. QED  BY <1>1, SourceInvariant, PTL

\* A published snapshot exports as its bytes or as the tombstone of its artifact.
LEMMA Evidence == SourceInv => SnapshotHasEvidence
<1>. SUFFICES ASSUME SourceInv, NEW s \in SnapshotIds, snapshot[s] # None
              PROVE  export_snapshot(s) # "missing"
  BY DEF SnapshotHasEvidence
<1> DEFINE a == artifact_for_snapshot(s)
<1>1. a \in Artifacts /\ a # "missing"
  BY ArtifactAssumption DEF artifact_for_snapshot, SnapshotIds
<1>2. manifest[a] # None /\ Kept(a)
  BY <1>1 DEF SourceInv, SnapshotInv, ManifestInv
<1>3. redaction[a] # None => redaction[a] # "missing"
  BY <1>1, ArtifactAssumption DEF SourceInv, TypeOK, ArtifactTypeOK
<1>. QED
  BY <1>1, <1>2, <1>3 DEF export_snapshot, snapshot_is_redacted, get_snapshot, is_redacted, read_bytes, Kept

\* The ancestors of s are its parents and the ancestors of its published parents.
LEMMA AncestorsUnfold ==
  ASSUME SourceInv, NEW s \in SnapshotIds, snapshot[s] # None
  PROVE  /\ snapshot[s].parents \subseteq Ancestors(s) /\ Ancestors(s) \subseteq SnapshotIds
         /\ \A p \in Ancestors(s) :
              snapshot[p] # None => snapshot[p].parents \subseteq Ancestors(s)
         /\ \A p \in Ancestors(s) :
              \/ p \in snapshot[s].parents
              \/ \E q \in snapshot[s].parents : snapshot[q] # None /\ p \in Ancestors(q)
<1>1. \A p \in SnapshotIds : snapshot[p] # None => snapshot[p].parents \subseteq SnapshotIds
  BY ParentsTyped DEF SourceInv, TypeOK
<1>2. \A r \in SnapshotIds : snapshot[r] # None =>
        /\ snapshot[r].parents \subseteq Ancestors(r) /\ Ancestors(r) \subseteq SnapshotIds
        /\ \A p \in Ancestors(r) : snapshot[p] # None => snapshot[p].parents \subseteq Ancestors(r)
  BY <1>1 DEF Ancestors
<1> DEFINE published == {q \in snapshot[s].parents : snapshot[q] # None}
           A == snapshot[s].parents \cup UNION {Ancestors(q) : q \in published}
<1>3. A \in SUBSET SnapshotIds
  BY <1>1, <1>2
<1>4. \A p \in A : snapshot[p] # None => snapshot[p].parents \subseteq A
  <2>. SUFFICES ASSUME NEW p \in A, snapshot[p] # None, NEW r \in snapshot[p].parents
                PROVE  r \in A
    OBVIOUS
  <2>1. CASE p \in snapshot[s].parents
    BY <1>1, <1>2, <2>1
  <2>2. CASE p \notin snapshot[s].parents
    <3>1. PICK q \in published : p \in Ancestors(q)
      BY <2>2
    <3>2. r \in Ancestors(q)
      BY <1>1, <1>2, <3>1
    <3>. QED  BY <3>2
  <2>. QED  BY <2>1, <2>2
<1>5. snapshot[s].parents \subseteq A
  OBVIOUS
<1>6. Ancestors(s) \subseteq A
  <2>. HIDE DEF A
  <2>. QED  BY <1>3, <1>4, <1>5 DEF Ancestors
<1>. QED  BY <1>2, <1>6

LEMMA GroundedDerivations == SourceInv => DerivationIsGrounded
<1>. SUFFICES ASSUME SourceInv, NEW s \in SnapshotIds, snapshot[s] # None,
                     snapshot[s].role = "derived"
              PROVE  /\ \A p \in Ancestors(s) : snapshot[p] # None /\ p # s
                     /\ \E p \in Ancestors(s) : snapshot[p] # None /\ snapshot[p].role # "derived"
  BY DEF DerivationIsGrounded
<1> DEFINE Published == {p \in SnapshotIds : snapshot[p] # None}
<1>1. \A p \in Published : snapshot[p].parents \subseteq Published /\ Grounded(snapshot[p])
  BY ParentsTyped DEF SourceInv, TypeOK, SnapshotInv, Grounded
<1>2. Ancestors(s) \subseteq Published
  BY <1>1 DEF Ancestors
<1>3. s \notin Ancestors(s)
  <2>. SUFFICES ASSUME s \in Ancestors(s) PROVE FALSE
    OBVIOUS
  <2> DEFINE D == {t \in Published : s \in Ancestors(t)}
  <2>1. D \in SUBSET Published /\ s \in D
    OBVIOUS
  <2>2. PICK t \in D : snapshot[t].parents \cap D = {}
    <3>. HIDE DEF D
    <3>. QED  BY <2>1 DEF SourceInv, WellFounded
  <2>3. s \in snapshot[t].parents \/ \E q \in snapshot[t].parents : snapshot[q] # None /\ s \in Ancestors(q)
    BY AncestorsUnfold
  <2>. QED  BY <1>1, <2>1, <2>2, <2>3
<1>4. \E p \in Ancestors(s) : snapshot[p].role # "derived"
  <2>1. snapshot[s].parents # {} /\ snapshot[s].parents \subseteq Ancestors(s)
    BY <1>1, AncestorsUnfold DEF Grounded
  <2>2. PICK t \in Ancestors(s) : snapshot[t].parents \cap Ancestors(s) = {}
    BY <1>2, <2>1 DEF SourceInv, WellFounded
  <2>3. snapshot[t].parents \subseteq Ancestors(s)
    BY <1>2, AncestorsUnfold
  <2>4. snapshot[t].parents = {}
    BY <2>2, <2>3
  <2>. QED  BY <1>1, <1>2, <2>4 DEF Grounded
<1>. QED  BY <1>2, <1>3, <1>4

LEMMA StableCitations == SourceInv => CitationIsStable
<1>. SUFFICES ASSUME SourceInv, NEW x \in cited
              PROVE  /\ resolve_citation(x, {x.role}) \in {x.passage, "redacted"}
                     /\ resolve_citation(x, Roles \ {x.role}) = "laundering"
  BY DEF CitationIsStable
<1> DEFINE s == x.snapshot
           a == artifact_for_snapshot(s)
<1>1. /\ s \in SnapshotIds /\ a \in Artifacts /\ snapshot[s] # None
      /\ x.artifact = a /\ x.role = snapshot[s].role /\ x.role \in Roles
      /\ x.passage = Passage(a, x.span)
  BY DEF SourceInv, TypeOK, CitedInv, artifact_for_snapshot, SnapshotIds
<1>2. read_bytes(a) \in {a, "redacted"}
  BY <1>1 DEF SourceInv, SnapshotInv, ManifestInv, Kept, read_bytes, is_redacted
<1>3. resolve_citation(x, {x.role}) \in {x.passage, "redacted"}
  BY <1>1, <1>2 DEF resolve_citation, get_snapshot
<1>4. resolve_citation(x, Roles \ {x.role}) = "laundering"
  BY <1>1 DEF resolve_citation, get_snapshot
<1>. QED  BY <1>3, <1>4

\* Snapshots keep their bytes or their tombstone, every derivation goes back to
\* snapshots that are not derived, and citations keep their passage and role.
THEOREM EvidenceStable == Spec => []EvidenceIsStable
<1>1. SourceInv => EvidenceIsStable
  BY Evidence, GroundedDerivations, StableCitations DEF SourceInv, EvidenceIsStable
<1>. QED  BY <1>1, SourceInvariant, PTL

\* An event hidden because of what it cites stays hidden, whatever is put,
\* published and redacted afterwards.
THEOREM HiddenStays == Spec => HiddenStaysHidden
<1>1. SourceInv /\ [Next]_vars =>
        [\A A \in SUBSET Artifacts, S \in Parents :
           ~event_visible(A, S) => ~event_visible(A, S)']_vars
  <2>. SUFFICES ASSUME Progress, SourceInv, NEW A \in SUBSET Artifacts, NEW S \in Parents,
                       ~event_visible(A, S)
                PROVE  ~event_visible(A, S)'
    BY NextInv
  <2>1. CASE \E a \in A : redaction[a] # None
    BY <2>1 DEF Progress, event_visible, is_redacted
  <2>2. CASE \E s \in S : snapshot_is_redacted(s)
    <3>1. PICK s \in S : snapshot_is_redacted(s)
      BY <2>2
    <3>2. s \in SnapshotIds /\ artifact_for_snapshot(s) \in Artifacts
      BY DEF Parents, SnapshotIds, artifact_for_snapshot
    <3>3. snapshot'[s] # None /\ redaction'[artifact_for_snapshot(s)] # None
      BY <3>1, <3>2 DEF Progress, snapshot_is_redacted, get_snapshot, is_redacted
    <3>. QED
      BY <3>3 DEF event_visible, snapshot_is_redacted, get_snapshot, is_redacted, artifact_for_snapshot
  <2>. QED  BY <2>1, <2>2 DEF event_visible, is_redacted
<1>. QED  BY <1>1, SourceInvariant, PTL DEF Spec, HiddenStaysHidden
=============================================================================
