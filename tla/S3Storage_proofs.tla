-------------------------- MODULE S3Storage_proofs --------------------------
(***************************************************************************)
(* Proofs about S3Storage for any clients, events, contents, artifacts,    *)
(* page size and number of abandoned requests.                             *)
(*                                                                         *)
(* BucketInv is inductive.  What makes it so is that a write promises the  *)
(* same whether its client still waits for it or it was abandoned on the   *)
(* network (WriteInv): it carries a body of its key's kind, it deletes     *)
(* only behind a tombstone, and it publishes a manifest or a tombstone     *)
(* only behind the bytes.  Objects change only as ObjectStep allows, and   *)
(* these promises are stable under it.                                     *)
(***************************************************************************)
EXTENDS S3Storage, FiniteSetTheorems, WellFoundedInduction, TLAPS

EventPcs == {"commit_put", "commit_reply", "commit_read", "redact_check",
             "redact_read", "redact_put", "redact_delete"}
ArtifactPcs == {"put_blob", "put_blob_read", "put_manifest", "erase_put", "erase_delete"}

\* The bytes of an identity are in the bucket, or a tombstone tells why not.
EventKept(e) == exists(<<"event", e>>) \/ exists(<<"tombstone", e>>)
BlobKept(a) == exists(<<"blob", a>>) \/ exists(<<"redaction", a>>)

\* Each kind of object has bodies of its own.
BodyOf(k) ==
  CASE k[1] = "event"     -> Contents
    [] k[1] = "tombstone" -> Requests \X Contents
    [] k[1] = "blob"      -> {k[2]}
    [] k[1] = "manifest"  -> Media
    [] k[1] = "redaction" -> Requests \X Media

\* What a write on its way to the bucket may rely on.
WriteInv(w) ==
  /\ w.key \in Keys
  /\ w.body = None => \/ w.key[1] = "event" /\ exists(<<"tombstone", w.key[2]>>)
                      \/ w.key[1] = "blob" /\ exists(<<"redaction", w.key[2]>>)
  /\ w.body # None => w.body \in BodyOf(w.key)
  /\ w.key[1] = "tombstone" => EventKept(w.key[2])
  /\ w.key[1] = "manifest" => BlobKept(w.key[2])

\* What a client in the middle of a call may rely on.
CallInv(c) ==
  LET i == call[c].id  pc == call[c].pc IN
  /\ pc \in EventPcs => i \in EventIds
  /\ pc \in ArtifactPcs => i \in Artifacts
  /\ pc \in WritePcs => WriteInv(Write(c))
  /\ pc \in {"commit_put", "commit_reply", "commit_read"} => call[c].body \in Contents
  /\ pc \in {"put_blob", "put_blob_read"} => call[c].body \in Media
  /\ pc \in {"redact_check", "redact_read"} => call[c].request \in Requests
  /\ pc = "commit_reply" =>
       object[<<"event", i>>] = call[c].body \/ exists(<<"tombstone", i>>)

ObjectInv ==
  /\ \A k \in Keys : object[k] # None => object[k] \in BodyOf(k)
  /\ \A a \in Artifacts : exists(<<"manifest", a>>) => BlobKept(a)

LateInv == IsFiniteSet(late) /\ \A w \in late : WriteInv(w)

HistoryInv ==
  /\ \A p \in acked : EventKept(p[1])
  /\ \A p \in stored : object[<<"manifest", p[1]>>] = p[2]
  /\ \A k \in erased : \/ k[1] = "event" /\ exists(<<"tombstone", k[2]>>)
                       \/ k[1] = "blob" /\ exists(<<"redaction", k[2]>>)

ErasedInv == \A k \in erased \ overlapped : object[k] = None /\ ~Outstanding(k)

\* The scan has what was due up to its token.
ScanInv ==
  scan.on => \A e \in scan.due :
    EventKept(e) /\ (e <= scan.after => e \in scan.keys \/ exists(<<"tombstone", e>>))

BucketInv ==
  /\ TypeOK
  /\ \A c \in Clients : CallInv(c)
  /\ ObjectInv
  /\ LateInv
  /\ HistoryInv
  /\ ErasedInv
  /\ ScanInv

\* Objects are written once, and bytes deleted only behind their tombstone.
ObjectStep ==
  \A k \in Keys : object[k] # None /\ object'[k] # object[k] =>
    /\ object'[k] = None
    /\ \/ k[1] = "event" /\ exists(<<"tombstone", k[2]>>)
       \/ k[1] = "blob" /\ exists(<<"redaction", k[2]>>)
-----------------------------------------------------------------------------
(***************************************************************************)
(* Keys, bodies and writes                                                 *)
(***************************************************************************)
LEMMA KeyTyped ==
  /\ \A e \in EventIds : <<"event", e>> \in Keys /\ <<"tombstone", e>> \in Keys
  /\ \A a \in Artifacts : /\ <<"blob", a>> \in Keys /\ <<"manifest", a>> \in Keys
                          /\ <<"redaction", a>> \in Keys
  /\ \A k \in Keys :
       /\ k = <<k[1], k[2]>>
       /\ k[1] \in {"event", "tombstone", "blob", "manifest", "redaction"}
       /\ k[1] \in {"event", "tombstone"} => k[2] \in EventIds
       /\ k[1] \in {"blob", "manifest", "redaction"} => k[2] \in Artifacts
BY DEF Keys

LEMMA BodyTyped ==
  /\ \A e : BodyOf(<<"event", e>>) = Contents /\ BodyOf(<<"tombstone", e>>) = Requests \X Contents
  /\ \A a : /\ BodyOf(<<"blob", a>>) = {a} /\ BodyOf(<<"manifest", a>>) = Media
           /\ BodyOf(<<"redaction", a>>) = Requests \X Media
BY DEF BodyOf

LEMMA BodiesTyped ==
  ASSUME NEW k \in Keys
  PROVE  BodyOf(k) \subseteq Bodies /\ None \notin BodyOf(k)
<1>1. BodyOf(k) \subseteq Bodies
  BY KeyTyped, BodyTyped DEF Bodies
<1>. QED  BY <1>1, BucketAssumption

LEMMA NoneIsNoBody ==
  /\ None \notin Contents \cup Artifacts \cup Media
  /\ \A r \in Requests, b \in Contents \cup Media : <<r, b>> # None
BY BucketAssumption DEF Bodies

LEMMA WriteCases ==
  ASSUME NEW c \in Clients
  PROVE  LET i == call[c].id IN
         /\ call[c].pc = "commit_put" => Write(c) = [key |-> <<"event", i>>, body |-> call[c].body]
         /\ call[c].pc = "put_blob" => Write(c) = [key |-> <<"blob", i>>, body |-> i]
         /\ call[c].pc = "put_manifest" => Write(c) = [key |-> <<"manifest", i>>, body |-> call[c].body]
         /\ call[c].pc = "redact_put" => Write(c) = [key |-> <<"tombstone", i>>,
                                                    body |-> <<call[c].request, call[c].body>>]
         /\ call[c].pc = "erase_put" => Write(c) = [key |-> <<"redaction", i>>,
                                                    body |-> <<call[c].request, call[c].body>>]
         /\ call[c].pc = "redact_delete" => Write(c) = [key |-> <<"event", i>>, body |-> None]
         /\ call[c].pc = "erase_delete" => Write(c) = [key |-> <<"blob", i>>, body |-> None]
BY DEF Write

\* What a step that obeys ObjectStep does not take back.
LEMMA StillThere ==
  ASSUME ObjectStep
  PROVE  /\ \A e \in EventIds :
              /\ exists(<<"tombstone", e>>) =>
                   object'[<<"tombstone", e>>] = object[<<"tombstone", e>>]
              /\ EventKept(e) => EventKept(e)'
              /\ exists(<<"event", e>>) /\ ~exists(<<"tombstone", e>>) =>
                   object'[<<"event", e>>] = object[<<"event", e>>]
         /\ \A a \in Artifacts :
              /\ exists(<<"manifest", a>>) =>
                   object'[<<"manifest", a>>] = object[<<"manifest", a>>]
              /\ exists(<<"redaction", a>>) =>
                   object'[<<"redaction", a>>] = object[<<"redaction", a>>]
              /\ BlobKept(a) => BlobKept(a)'
<1>1. ASSUME NEW e \in EventIds
      PROVE  /\ exists(<<"tombstone", e>>) =>
                   object'[<<"tombstone", e>>] = object[<<"tombstone", e>>]
             /\ exists(<<"event", e>>) /\ ~exists(<<"tombstone", e>>) =>
                   object'[<<"event", e>>] = object[<<"event", e>>]
  BY KeyTyped DEF ObjectStep, exists
<1>2. ASSUME NEW a \in Artifacts
      PROVE  /\ exists(<<"manifest", a>>) =>
                   object'[<<"manifest", a>>] = object[<<"manifest", a>>]
             /\ exists(<<"redaction", a>>) =>
                   object'[<<"redaction", a>>] = object[<<"redaction", a>>]
             /\ exists(<<"blob", a>>) /\ ~exists(<<"redaction", a>>) =>
                   object'[<<"blob", a>>] = object[<<"blob", a>>]
  BY KeyTyped DEF ObjectStep, exists
<1>. QED  BY <1>1, <1>2 DEF EventKept, BlobKept, exists

LEMMA WriteStable ==
  ASSUME ObjectStep, NEW w, WriteInv(w)
  PROVE  WriteInv(w)'
<1> DEFINE i == w.key[2]
<1>1. /\ w.key \in Keys
      /\ w.key[1] \in {"event", "tombstone"} => i \in EventIds
      /\ w.key[1] \in {"blob", "manifest", "redaction"} => i \in Artifacts
  BY KeyTyped DEF WriteInv
<1>. HIDE DEF i
<1>2. /\ w.key[1] = "tombstone" => EventKept(i)'
      /\ w.key[1] = "manifest" => BlobKept(i)'
      /\ w.body = None => \/ w.key[1] = "event" /\ exists(<<"tombstone", i>>)'
                          \/ w.key[1] = "blob" /\ exists(<<"redaction", i>>)'
  BY <1>1, StillThere DEF WriteInv, i, EventKept, BlobKept, exists
<1>. QED  BY <1>2 DEF WriteInv, i, EventKept, BlobKept, exists

LEMMA HistoryKept ==
  ASSUME BucketInv, ObjectStep
  PROVE  /\ \A p \in acked : EventKept(p[1])'
         /\ \A p \in stored : object'[<<"manifest", p[1]>>] = p[2]
         /\ \A k \in erased : \/ k[1] = "event" /\ exists(<<"tombstone", k[2]>>)'
                              \/ k[1] = "blob" /\ exists(<<"redaction", k[2]>>)'
<1>. USE DEF BucketInv
<1>1. ASSUME NEW p \in acked PROVE EventKept(p[1])'
  BY StillThere DEF TypeOK, HistoryInv
<1>2. ASSUME NEW p \in stored PROVE object'[<<"manifest", p[1]>>] = p[2]
  <2>1. /\ p[1] \in Artifacts /\ p[2] \in Bodies
        /\ object[<<"manifest", p[1]>>] = p[2]
    BY DEF TypeOK, HistoryInv, Bodies
  <2>. QED  BY <2>1, StillThere, BucketAssumption DEF exists
<1>3. ASSUME NEW k \in erased
      PROVE  \/ k[1] = "event" /\ exists(<<"tombstone", k[2]>>)'
             \/ k[1] = "blob" /\ exists(<<"redaction", k[2]>>)'
  <2>1. k \in Keys
    BY DEF TypeOK
  <2>. QED  BY <2>1, KeyTyped, StillThere DEF HistoryInv, exists
<1>. QED  BY <1>1, <1>2, <1>3

LEMMA HistoryStable ==
  ASSUME BucketInv, ObjectStep, UNCHANGED history
  PROVE  HistoryInv'
BY HistoryKept DEF HistoryInv, history, EventKept, exists

LEMMA ScanStable ==
  ASSUME BucketInv, ObjectStep, UNCHANGED scan
  PROVE  ScanInv'
<1>. SUFFICES ASSUME scan.on, NEW e \in scan.due
              PROVE  /\ EventKept(e)'
                     /\ e <= scan.after => e \in scan.keys \/ exists(<<"tombstone", e>>)'
  BY DEF ScanInv, EventKept, exists
<1>1. e \in EventIds
  BY DEF BucketInv, TypeOK, Scans
<1>2. exists(<<"tombstone", e>>) => exists(<<"tombstone", e>>)'
  BY <1>1, StillThere DEF exists
<1>3. EventKept(e)'
  BY <1>1, StillThere DEF BucketInv, ScanInv
<1>. QED  BY <1>2, <1>3 DEF BucketInv, ScanInv

LEMMA OthersStable ==
  ASSUME BucketInv, ObjectStep, NEW d \in Clients, call'[d] = call[d]
  PROVE  CallInv(d)'
<1>1. CallInv(d) /\ Write(d)' = Write(d)
  BY DEF BucketInv, Write
<1>2. call[d].pc \in WritePcs => WriteInv(Write(d))'
  <2>. SUFFICES ASSUME NEW w, w = Write(d), WriteInv(w) PROVE WriteInv(w)'
    BY <1>1 DEF CallInv, WriteInv, EventKept, BlobKept, exists
  <2>. QED  BY WriteStable
<1>3. call[d].pc = "commit_reply" =>
        \/ object'[<<"event", call[d].id>>] = call[d].body
        \/ exists(<<"tombstone", call[d].id>>)'
  <2>1. CASE call[d].pc = "commit_reply"
    <3>1. call[d].id \in EventIds /\ call[d].body \in Bodies
      BY <1>1, <2>1 DEF CallInv, EventPcs, Bodies
    <3>. QED  BY <1>1, <2>1, <3>1, StillThere, BucketAssumption DEF CallInv, exists
  <2>. QED  BY <2>1
<1>. QED  BY <1>1, <1>2, <1>3 DEF CallInv, WriteInv, EventKept, BlobKept, exists

\* What a step of c that starts no scan and keeps the late writes leaves true.
LEMMA RestInv ==
  ASSUME BucketInv, ObjectStep, TypeOK', NEW c \in Clients,
         \A d \in Clients \ {c} : call'[d] = call[d],
         CallInv(c)', ObjectInv', HistoryInv', ErasedInv', UNCHANGED <<late, scan>>
  PROVE  BucketInv'
<1>1. ASSUME NEW d \in Clients PROVE CallInv(d)'
  <2>1. CASE d = c  BY <2>1
  <2>2. CASE d # c  BY <2>2, OthersStable
  <2>. QED  BY <2>1, <2>2
<1>2. LateInv'
  <2>. SUFFICES ASSUME NEW w \in late PROVE WriteInv(w)'
    BY DEF BucketInv, LateInv, WriteInv, EventKept, BlobKept, exists
  <2>. QED  BY WriteStable DEF BucketInv, LateInv
<1>3. ScanInv'
  BY ScanStable
<1>. QED  BY <1>1, <1>2, <1>3 DEF BucketInv

\* A write that keeps its promises changes the bucket as ObjectStep says.
LEMMA ApplyInv ==
  ASSUME BucketInv, NEW w, WriteInv(w), Apply(w)
  PROVE  /\ object' \in [Keys -> Bodies \cup {None}]
         /\ object'[w.key] = IF w.body = None \/ object[w.key] = None THEN w.body
                             ELSE object[w.key]
         /\ \A k \in Keys \ {w.key} : object'[k] = object[k]
         /\ ObjectStep
         /\ ObjectInv'
<1>. USE DEF BucketInv
<1>1. w.key \in Keys /\ (w.body # None => w.body \in BodyOf(w.key)) /\ w.body \in Bodies \cup {None}
  BY BodiesTyped DEF WriteInv
<1>2. /\ object' \in [Keys -> Bodies \cup {None}]
      /\ object'[w.key] = IF w.body = None \/ object[w.key] = None THEN w.body
                          ELSE object[w.key]
      /\ \A k \in Keys \ {w.key} : object'[k] = object[k]
  BY <1>1 DEF TypeOK, Apply
<1>3. ObjectStep
  BY <1>1, <1>2 DEF ObjectStep, WriteInv
<1>4. \A k \in Keys : object'[k] # None => object'[k] \in BodyOf(k)
  BY <1>1, <1>2 DEF ObjectInv
<1>5. ASSUME NEW a \in Artifacts, exists(<<"manifest", a>>)' PROVE BlobKept(a)'
  <2>1. CASE exists(<<"manifest", a>>)
    BY <2>1, <1>3, StillThere DEF ObjectInv
  <2>2. CASE ~exists(<<"manifest", a>>)
    <3>1. w.key = <<"manifest", a>>
      BY <1>2, <1>5, <2>2, KeyTyped DEF exists
    <3>2. BlobKept(a)
      BY <3>1 DEF WriteInv
    <3>. QED  BY <1>3, <3>2, StillThere
  <2>. QED  BY <2>1, <2>2
<1>. QED  BY <1>2, <1>3, <1>4, <1>5 DEF ObjectInv, BodyOf, exists, BlobKept

LEMMA WriteKey ==
  ASSUME NEW c \in Clients
  PROVE  /\ call[c].pc = "commit_put" => Write(c).key = <<"event", call[c].id>>
         /\ call[c].pc = "put_blob" => Write(c).key = <<"blob", call[c].id>>
         /\ call'[c].pc = "commit_put" => Write(c)'.key = <<"event", call'[c].id>>
         /\ call'[c].pc = "put_blob" => Write(c)'.key = <<"blob", call'[c].id>>
BY DEF Write

\* A step leaves what was erased alone when it writes none of its keys and
\* starts no put but behind a test for the tombstone.
LEMMA ErasedStable ==
  ASSUME BucketInv, NEW c \in Clients, UNCHANGED <<late, erased, overlapped>>,
         \A d \in Clients \ {c} : call'[d] = call[d],
         \A k \in erased \ overlapped : object'[k] = None,
         call'[c].pc = "commit_put" => ~exists(<<"tombstone", call'[c].id>>),
         call'[c].pc = "put_blob" => ~exists(<<"redaction", call'[c].id>>)
  PROVE  ErasedInv'
<1>. SUFFICES ASSUME NEW k \in erased \ overlapped, Outstanding(k)' PROVE FALSE
  BY DEF ErasedInv
<1>1. ~Outstanding(k)
  BY DEF BucketInv, ErasedInv
<1>2. PICK d \in Clients : call'[d].pc \in {"commit_put", "put_blob"} /\ Write(d)'.key = k
  BY <1>1 DEF Outstanding
<1>3. d = c
  <2>1. d # c => call'[d] = call[d] /\ Write(d)' = Write(d)
    BY DEF Write
  <2>. QED  BY <1>1, <1>2, <2>1 DEF Outstanding
<1>4. /\ k[1] = "event" => exists(<<"tombstone", k[2]>>)
      /\ k[1] = "blob" => exists(<<"redaction", k[2]>>)
  BY DEF BucketInv, HistoryInv
<1>. QED  BY <1>2, <1>3, <1>4, WriteKey DEF exists

LEMMA ErasedQuiet ==
  ASSUME BucketInv, NEW c \in Clients, UNCHANGED <<late, erased, overlapped>>,
         \A d \in Clients \ {c} : call'[d] = call[d],
         \A k \in erased \ overlapped : object'[k] = None,
         call'[c].pc \notin {"commit_put", "put_blob"}
  PROVE  ErasedInv'
BY ErasedStable

LEMMA GotoTyped ==
  ASSUME TypeOK, NEW c \in Clients, NEW pc \in {"idle"} \cup WritePcs \cup ReadPcs, Goto(c, pc)
  PROVE  /\ call' \in [Clients -> Calls]
         /\ call'[c] = [call[c] EXCEPT !.pc = pc]
         /\ \A d \in Clients \ {c} : call'[d] = call[d]
BY DEF TypeOK, Calls, Goto

LEMMA ReturnTyped ==
  ASSUME TypeOK, NEW c \in Clients, Return(c)
  PROVE  /\ call' \in [Clients -> Calls]
         /\ call'[c] = Idle
         /\ \A d \in Clients \ {c} : call'[d] = call[d]
BY DEF TypeOK, Calls, Return, Idle

LEMMA StartTyped ==
  ASSUME TypeOK, NEW c \in Clients, NEW pc \in WritePcs \cup ReadPcs,
         NEW i \in EventIds \cup Artifacts, NEW b \in Contents \cup Media \cup {None},
         NEW r \in Requests \cup {None}, Start(c, pc, i, b, r)
  PROVE  /\ call' \in [Clients -> Calls]
         /\ call'[c] = [pc |-> pc, id |-> i, body |-> b, request |-> r]
         /\ \A d \in Clients \ {c} : call'[d] = call[d]
BY DEF TypeOK, Calls, Start

LEMMA IdleInv ==
  ASSUME NEW c \in Clients, call'[c] = Idle
  PROVE  CallInv(c)'
BY DEF CallInv, Idle, EventPcs, ArtifactPcs, WritePcs
-----------------------------------------------------------------------------
(***************************************************************************)
(* Steps that only read the bucket                                         *)
(***************************************************************************)
LEMMA SameObjects ==
  ASSUME BucketInv, object' = object
  PROVE  ObjectStep /\ ObjectInv' /\ (\A k \in erased \ overlapped : object'[k] = None)
BY DEF BucketInv, ObjectStep, ObjectInv, ErasedInv, exists, BlobKept

LEMMA CommitBeginInv ==
  ASSUME BucketInv, NEW c \in Clients, NEW e \in EventIds, NEW v \in Contents, CommitBegin(c, e, v)
  PROVE  BucketInv' /\ ObjectStep
<1>. USE DEF CommitBegin
<1>0. /\ call' \in [Clients -> Calls]
      /\ call'[c] = [pc |-> "commit_put", id |-> e, body |-> v, request |-> None]
      /\ \A d \in Clients \ {c} : call'[d] = call[d]
  BY StartTyped DEF BucketInv, WritePcs, ReadPcs
<1>1. TypeOK'
  BY <1>0 DEF BucketInv, TypeOK, history
<1>2. ObjectStep /\ ObjectInv' /\ HistoryInv' /\ UNCHANGED <<late, erased, overlapped>>
  BY SameObjects, HistoryStable DEF history
<1>3. CallInv(c)'
  <2>1. Write(c)' = [key |-> <<"event", e>>, body |-> v]
    BY <1>0 DEF Write
  <2>2. <<"event", e>> \in Keys /\ v \in BodyOf(<<"event", e>>) /\ v # None
    BY KeyTyped, BodyTyped, BodiesTyped
  <2>. QED  BY <1>0, <2>1, <2>2 DEF CallInv, WriteInv, EventPcs, ArtifactPcs
<1>4. ErasedInv'
  <2>1. /\ call'[c].pc = "commit_put" => ~exists(<<"tombstone", call'[c].id>>)
        /\ call'[c].pc = "put_blob" => ~exists(<<"redaction", call'[c].id>>)
    BY <1>0 DEF exists
  <2>. QED  BY <1>0, <1>2, <2>1, SameObjects, ErasedStable DEF exists
<1>. QED  BY <1>0, <1>1, <1>2, <1>3, <1>4, RestInv

LEMMA RedactBeginInv ==
  ASSUME BucketInv, NEW c \in Clients, NEW e \in EventIds, NEW r \in Requests, RedactBegin(c, e, r)
  PROVE  BucketInv' /\ ObjectStep
<1>. USE DEF RedactBegin
<1>0. /\ call' \in [Clients -> Calls]
      /\ call'[c] = [pc |-> "redact_check", id |-> e, body |-> None, request |-> r]
      /\ \A d \in Clients \ {c} : call'[d] = call[d]
  BY StartTyped DEF BucketInv, WritePcs, ReadPcs
<1>1. TypeOK'
  BY <1>0 DEF BucketInv, TypeOK, history
<1>2. ObjectStep /\ ObjectInv' /\ HistoryInv' /\ UNCHANGED <<late, erased, overlapped>>
  BY SameObjects, HistoryStable DEF history
<1>3. CallInv(c)'
  BY <1>0 DEF CallInv, EventPcs, ArtifactPcs, WritePcs
<1>4. ErasedInv'
  <2>1. /\ call'[c].pc = "commit_put" => ~exists(<<"tombstone", call'[c].id>>)
        /\ call'[c].pc = "put_blob" => ~exists(<<"redaction", call'[c].id>>)
    BY <1>0 DEF exists
  <2>. QED  BY <1>0, <1>2, <2>1, SameObjects, ErasedStable DEF exists
<1>. QED  BY <1>0, <1>1, <1>2, <1>3, <1>4, RestInv

LEMMA PutBeginInv ==
  ASSUME BucketInv, NEW c \in Clients, NEW a \in Artifacts, NEW m \in Media, PutBegin(c, a, m)
  PROVE  BucketInv' /\ ObjectStep
<1>. USE DEF PutBegin
<1>0. /\ call' \in [Clients -> Calls]
      /\ call'[c] = [pc |-> "put_blob", id |-> a, body |-> m, request |-> None]
      /\ \A d \in Clients \ {c} : call'[d] = call[d]
  BY StartTyped DEF BucketInv, WritePcs, ReadPcs
<1>1. TypeOK'
  BY <1>0 DEF BucketInv, TypeOK, history
<1>2. ObjectStep /\ ObjectInv' /\ HistoryInv' /\ UNCHANGED <<late, erased, overlapped>>
  BY SameObjects, HistoryStable DEF history
<1>3. CallInv(c)'
  <2>1. Write(c)' = [key |-> <<"blob", a>>, body |-> a]
    BY <1>0 DEF Write
  <2>2. <<"blob", a>> \in Keys /\ a \in BodyOf(<<"blob", a>>) /\ a # None
    BY KeyTyped, BodyTyped, BodiesTyped
  <2>. QED  BY <1>0, <2>1, <2>2 DEF CallInv, WriteInv, EventPcs, ArtifactPcs
<1>4. ErasedInv'
  <2>1. /\ call'[c].pc = "commit_put" => ~exists(<<"tombstone", call'[c].id>>)
        /\ call'[c].pc = "put_blob" => ~exists(<<"redaction", call'[c].id>>)
    BY <1>0 DEF exists
  <2>. QED  BY <1>0, <1>2, <2>1, SameObjects, ErasedStable DEF exists
<1>. QED  BY <1>0, <1>1, <1>2, <1>3, <1>4, RestInv

LEMMA EraseBeginInv ==
  ASSUME BucketInv, NEW c \in Clients, NEW a \in Artifacts, NEW r \in Requests, EraseBegin(c, a, r)
  PROVE  BucketInv' /\ ObjectStep
<1> DEFINE m == object[<<"manifest", a>>]
<1>0. /\ m \in Media /\ Start(c, "erase_put", a, m, r)
      /\ UNCHANGED <<object, late, history, scan>>
  BY KeyTyped, BodyTyped DEF EraseBegin, BucketInv, ObjectInv
<1>. HIDE DEF m
<1>1. /\ call' \in [Clients -> Calls]
      /\ call'[c] = [pc |-> "erase_put", id |-> a, body |-> m, request |-> r]
      /\ \A d \in Clients \ {c} : call'[d] = call[d]
  BY <1>0, StartTyped DEF BucketInv, WritePcs, ReadPcs
<1>2. TypeOK'
  BY <1>0, <1>1 DEF BucketInv, TypeOK, history
<1>3. ObjectStep /\ ObjectInv' /\ HistoryInv' /\ UNCHANGED <<late, scan, erased, overlapped>>
  BY <1>0, SameObjects, HistoryStable DEF history
<1>4. CallInv(c)'
  <2>1. Write(c)' = [key |-> <<"redaction", a>>, body |-> <<r, m>>]
    BY <1>1 DEF Write
  <2>2. <<"redaction", a>> \in Keys /\ <<r, m>> \in BodyOf(<<"redaction", a>>) /\ <<r, m>> # None
    <3>1. <<"redaction", a>> \in Keys /\ BodyOf(<<"redaction", a>>) = Requests \X Media
      BY KeyTyped, BodyTyped
    <3>2. <<r, m>> \in Requests \X Media
      BY <1>0
    <3>. QED  BY <3>1, <3>2, BodiesTyped
  <2>. QED  BY <1>1, <2>1, <2>2 DEF CallInv, WriteInv, EventPcs, ArtifactPcs
<1>5. ErasedInv'
  BY <1>0, <1>1, <1>3, SameObjects, ErasedQuiet
<1>. QED  BY <1>1, <1>2, <1>3, <1>4, <1>5, RestInv

LEMMA CommitReplyInv ==
  ASSUME BucketInv, NEW c \in Clients, CommitReply(c)
  PROVE  BucketInv' /\ ObjectStep
<1>. USE DEF CommitReply
<1>0. /\ call[c].id \in EventIds /\ call[c].body \in Contents
      /\ object[<<"event", call[c].id>>] = call[c].body \/ exists(<<"tombstone", call[c].id>>)
  BY DEF BucketInv, CallInv, EventPcs
<1>1. /\ call' \in [Clients -> Calls] /\ call'[c] = Idle
      /\ \A d \in Clients \ {c} : call'[d] = call[d]
  BY ReturnTyped DEF BucketInv
<1>2. TypeOK'
  BY <1>0, <1>1 DEF BucketInv, TypeOK
<1>3. ObjectStep /\ ObjectInv' /\ CallInv(c)'
  BY <1>1, SameObjects, IdleInv
<1>4. EventKept(call[c].id)
  BY <1>0, BodyTyped, BodiesTyped, KeyTyped DEF EventKept, exists
<1>5. HistoryInv'
  BY <1>4 DEF BucketInv, HistoryInv, EventKept, exists
<1>6. ErasedInv'
  BY <1>1, SameObjects, ErasedQuiet DEF Idle
<1>. QED  BY <1>1, <1>2, <1>3, <1>5, <1>6, RestInv

LEMMA CommitReadInv ==
  ASSUME BucketInv, NEW c \in Clients, CommitRead(c)
  PROVE  BucketInv' /\ ObjectStep
<1>. USE DEF CommitRead
<1>0. call[c].id \in EventIds /\ call[c].body \in Contents
  BY DEF BucketInv, CallInv, EventPcs
<1>1. /\ call' \in [Clients -> Calls] /\ call'[c] = Idle
      /\ \A d \in Clients \ {c} : call'[d] = call[d]
  BY ReturnTyped DEF BucketInv
<1>2. TypeOK'
  BY <1>0, <1>1 DEF BucketInv, TypeOK
<1>3. ObjectStep /\ ObjectInv' /\ CallInv(c)'
  BY <1>1, SameObjects, IdleInv
<1>4. object[<<"event", call[c].id>>] = call[c].body => EventKept(call[c].id)
  BY <1>0, BodyTyped, BodiesTyped, KeyTyped DEF EventKept, exists
<1>5. HistoryInv'
  BY <1>4 DEF BucketInv, HistoryInv, EventKept, exists
<1>6. ErasedInv'
  BY <1>1, SameObjects, ErasedQuiet DEF Idle
<1>. QED  BY <1>1, <1>2, <1>3, <1>5, <1>6, RestInv

LEMMA RedactCheckInv ==
  ASSUME BucketInv, NEW c \in Clients, RedactCheck(c)
  PROVE  BucketInv' /\ ObjectStep
<1>. USE DEF RedactCheck
<1>0. call[c].id \in EventIds /\ call[c].request \in Requests
  BY DEF BucketInv, CallInv, EventPcs
<1>1. /\ call' \in [Clients -> Calls] /\ \A d \in Clients \ {c} : call'[d] = call[d]
      /\ call'[c] = Idle \/ call'[c] = [call[c] EXCEPT !.pc = "redact_read"]
  BY GotoTyped, ReturnTyped DEF BucketInv, ReadPcs
<1>2. TypeOK'
  BY <1>1 DEF BucketInv, TypeOK, history
<1>3. ObjectStep /\ ObjectInv' /\ HistoryInv' /\ UNCHANGED <<erased, overlapped>>
  BY SameObjects, HistoryStable DEF history
<1>4. CallInv(c)'
  BY <1>0, <1>1, IdleInv DEF BucketInv, TypeOK, Calls, CallInv, EventPcs, ArtifactPcs, WritePcs
<1>5. ErasedInv'
  BY <1>1, <1>3, SameObjects, ErasedQuiet DEF BucketInv, TypeOK, Calls, Idle
<1>. QED  BY <1>1, <1>2, <1>3, <1>4, <1>5, RestInv

LEMMA RedactReadInv ==
  ASSUME BucketInv, NEW c \in Clients, RedactRead(c)
  PROVE  BucketInv' /\ ObjectStep
<1> DEFINE e == call[c].id  v == object[<<"event", e>>]
<1>0. /\ call[c].pc = "redact_read" /\ e \in EventIds /\ call[c].request \in Requests
      /\ v # None => v \in Contents
      /\ UNCHANGED <<object, late, history, scan>>
  BY KeyTyped, BodyTyped DEF BucketInv, CallInv, EventPcs, ObjectInv, RedactRead
<1>1. /\ call' \in [Clients -> Calls] /\ \A d \in Clients \ {c} : call'[d] = call[d]
      /\ \/ call'[c] = Idle
         \/ v # None /\ call'[c] = [call[c] EXCEPT !.pc = "redact_put", !.body = v]
  <2>1. CASE v = None
    BY <2>1, ReturnTyped DEF BucketInv, RedactRead
  <2>2. CASE v # None
    <3>1. call' = [call EXCEPT ![c] = [call[c] EXCEPT !.pc = "redact_put", !.body = v]]
      BY <2>2 DEF BucketInv, TypeOK, RedactRead
    <3>2. [call[c] EXCEPT !.pc = "redact_put", !.body = v] \in Calls
      BY <1>0, <2>2 DEF BucketInv, TypeOK, Calls, WritePcs
    <3>. QED  BY <2>2, <3>1, <3>2 DEF BucketInv, TypeOK
  <2>. QED  BY <2>1, <2>2
<1>2. TypeOK'
  BY <1>0, <1>1 DEF BucketInv, TypeOK, history
<1>3. ObjectStep /\ ObjectInv' /\ HistoryInv' /\ UNCHANGED <<late, scan, erased, overlapped>>
  BY <1>0, SameObjects, HistoryStable DEF history
<1>4. CASE call'[c] = Idle
  BY <1>0, <1>1, <1>2, <1>3, <1>4, IdleInv, SameObjects, ErasedQuiet, RestInv DEF Idle
<1>5. CASE v # None /\ call'[c] = [call[c] EXCEPT !.pc = "redact_put", !.body = v]
  <2>1. /\ call'[c].pc = "redact_put" /\ call'[c].id = e /\ call'[c].body = v
        /\ call'[c].request = call[c].request
    BY <1>5 DEF BucketInv, TypeOK, Calls
  <2>2. Write(c)' = [key |-> <<"tombstone", e>>, body |-> <<call[c].request, v>>]
    BY <2>1 DEF Write
  <2>3. /\ <<"tombstone", e>> \in Keys /\ EventKept(e)'
        /\ <<call[c].request, v>> \in BodyOf(<<"tombstone", e>>) /\ <<call[c].request, v>> # None
    BY <1>0, <1>5, KeyTyped, BodyTyped, BodiesTyped DEF EventKept, exists
  <2>4. CallInv(c)'
    BY <1>0, <2>1, <2>2, <2>3 DEF CallInv, WriteInv, EventPcs, ArtifactPcs, EventKept, exists
  <2>5. ErasedInv'
    BY <1>0, <1>1, <1>3, <2>1, SameObjects, ErasedQuiet
  <2>. QED  BY <1>1, <1>2, <1>3, <2>4, <2>5, RestInv
<1>. QED  BY <1>1, <1>4, <1>5

LEMMA PutBlobReadInv ==
  ASSUME BucketInv, NEW c \in Clients, PutBlobRead(c)
  PROVE  BucketInv' /\ ObjectStep
<1> DEFINE a == call[c].id  m == call[c].body
<1>0. /\ call[c].pc = "put_blob_read" /\ a \in Artifacts /\ m \in Media
      /\ UNCHANGED <<object, late, history, scan>>
  BY DEF BucketInv, CallInv, ArtifactPcs, PutBlobRead
<1>1. /\ call' \in [Clients -> Calls] /\ \A d \in Clients \ {c} : call'[d] = call[d]
      /\ \/ call'[c] = Idle
         \/ exists(<<"blob", a>>) /\ call'[c] = [call[c] EXCEPT !.pc = "put_manifest"]
  BY GotoTyped, ReturnTyped DEF BucketInv, WritePcs, PutBlobRead
<1>2. TypeOK'
  BY <1>0, <1>1 DEF BucketInv, TypeOK, history
<1>3. ObjectStep /\ ObjectInv' /\ HistoryInv' /\ UNCHANGED <<late, scan, erased, overlapped>>
  BY <1>0, SameObjects, HistoryStable DEF history
<1>4. CASE call'[c] = Idle
  BY <1>0, <1>1, <1>2, <1>3, <1>4, IdleInv, SameObjects, ErasedQuiet, RestInv DEF Idle
<1>5. CASE exists(<<"blob", a>>) /\ call'[c] = [call[c] EXCEPT !.pc = "put_manifest"]
  <2>1. call'[c].pc = "put_manifest" /\ call'[c].id = a /\ call'[c].body = m
    BY <1>5 DEF BucketInv, TypeOK, Calls
  <2>2. Write(c)' = [key |-> <<"manifest", a>>, body |-> m]
    BY <2>1 DEF Write
  <2>3. <<"manifest", a>> \in Keys /\ BlobKept(a)' /\ m \in BodyOf(<<"manifest", a>>) /\ m # None
    BY <1>0, <1>5, KeyTyped, BodyTyped, BodiesTyped DEF BlobKept, exists
  <2>4. CallInv(c)'
    BY <1>0, <2>1, <2>2, <2>3 DEF CallInv, WriteInv, EventPcs, ArtifactPcs, BlobKept, exists
  <2>5. ErasedInv'
    BY <1>0, <1>1, <1>3, <2>1, SameObjects, ErasedQuiet
  <2>. QED  BY <1>1, <1>2, <1>3, <2>4, <2>5, RestInv
<1>. QED  BY <1>1, <1>4, <1>5
-----------------------------------------------------------------------------
(***************************************************************************)
(* Steps that write to the bucket                                          *)
(***************************************************************************)
LEMMA ErasedByWrite ==
  ASSUME BucketInv, NEW w, WriteInv(w), Apply(w),
         w.body = None \/ w.key[1] \notin {"event", "blob"} \/ Outstanding(w.key)
  PROVE  \A k \in erased \ overlapped : object'[k] = None
<1>. SUFFICES ASSUME NEW k \in erased \ overlapped PROVE object'[k] = None
  OBVIOUS
<1>1. /\ k \in Keys /\ k[1] \in {"event", "blob"}
      /\ object[k] = None /\ ~Outstanding(k)
  BY DEF BucketInv, TypeOK, HistoryInv, ErasedInv
<1>. QED  BY <1>1, ApplyInv

LEMMA CommitPutInv ==
  ASSUME BucketInv, NEW c \in Clients, CommitPut(c)
  PROVE  BucketInv' /\ ObjectStep
<1> DEFINE e == call[c].id  v == call[c].body  w == Write(c)
<1>0. /\ call[c].pc = "commit_put" /\ e \in EventIds /\ v \in Contents
      /\ UNCHANGED <<late, history, scan>>
  BY DEF BucketInv, CallInv, EventPcs, CommitPut
<1>1. /\ w.key = <<"event", e>> /\ w.body = v /\ v # None /\ WriteInv(w) /\ Apply(w)
      /\ Goto(c, IF exists(w.key) THEN "commit_read" ELSE "commit_reply")
  <2>1. w = [key |-> <<"event", e>>, body |-> v]
    BY <1>0, WriteCases
  <2>2. /\ WriteInv(w) /\ Apply(w)
        /\ Goto(c, IF exists(w.key) THEN "commit_read" ELSE "commit_reply")
    BY <1>0 DEF BucketInv, CallInv, WritePcs, CommitPut
  <2>3. w.key = <<"event", e>> /\ w.body = v /\ v # None
    BY <1>0, <2>1, NoneIsNoBody
  <2>. QED  BY <2>2, <2>3
<1>. HIDE DEF w
<1>2. /\ call' \in [Clients -> Calls] /\ \A d \in Clients \ {c} : call'[d] = call[d]
      /\ call'[c] = [call[c] EXCEPT !.pc = IF exists(<<"event", e>>) THEN "commit_read" ELSE "commit_reply"]
  BY <1>1, GotoTyped DEF BucketInv, ReadPcs
<1>3. ObjectStep /\ ObjectInv' /\ object' \in [Keys -> Bodies \cup {None}]
  BY <1>1, ApplyInv
<1>4. TypeOK' /\ HistoryInv'
  BY <1>0, <1>2, <1>3, HistoryStable DEF BucketInv, TypeOK, history
<1>5. /\ call'[c].id = e /\ call'[c].body = v
      /\ call'[c].pc \in {"commit_read", "commit_reply"}
      /\ call'[c].pc = "commit_reply" => ~exists(<<"event", e>>)
  BY <1>2 DEF BucketInv, TypeOK, Calls
<1>6. CallInv(c)'
  <2>1. ~exists(<<"event", e>>) => object'[<<"event", e>>] = v
    BY <1>1, ApplyInv DEF exists
  <2>. QED  BY <1>0, <1>5, <2>1 DEF CallInv, EventPcs, ArtifactPcs, WritePcs
<1>7. ErasedInv'
  <2>1. Outstanding(w.key)
    BY <1>0 DEF Outstanding, w
  <2>. QED  BY <1>0, <1>1, <1>2, <1>5, <2>1, ErasedByWrite, ErasedQuiet DEF history
<1>. QED  BY <1>0, <1>2, <1>3, <1>4, <1>6, <1>7, RestInv

LEMMA RedactPutInv ==
  ASSUME BucketInv, NEW c \in Clients, RedactPut(c)
  PROVE  BucketInv' /\ ObjectStep
<1> DEFINE e == call[c].id  w == Write(c)
<1>0. /\ call[c].pc = "redact_put" /\ e \in EventIds
      /\ UNCHANGED <<late, history, scan>>
  BY DEF BucketInv, CallInv, EventPcs, RedactPut
<1>1. w.key = <<"tombstone", e>> /\ WriteInv(w) /\ Apply(w) /\ w.body # None
  <2>1. w = [key |-> <<"tombstone", e>>, body |-> <<call[c].request, call[c].body>>]
    BY <1>0, WriteCases
  <2>2. WriteInv(w) /\ Apply(w)
    BY <1>0 DEF BucketInv, CallInv, WritePcs, RedactPut
  <2>. QED  BY <2>1, <2>2 DEF WriteInv
<1>2. /\ call' \in [Clients -> Calls] /\ \A d \in Clients \ {c} : call'[d] = call[d]
      /\ call'[c] = Idle \/ call'[c] = [call[c] EXCEPT !.pc = "redact_delete"]
  BY GotoTyped, ReturnTyped DEF BucketInv, WritePcs, RedactPut
<1>. HIDE DEF w
<1>3. /\ ObjectStep /\ ObjectInv' /\ object' \in [Keys -> Bodies \cup {None}]
      /\ object'[<<"tombstone", e>>] # None
  BY <1>1, ApplyInv
<1>4. TypeOK' /\ HistoryInv'
  BY <1>0, <1>2, <1>3, HistoryStable DEF BucketInv, TypeOK, history
<1>5. call'[c].pc \in {"idle", "redact_delete"}
  BY <1>2 DEF BucketInv, TypeOK, Calls, Idle
<1>6. CallInv(c)'
  <2>1. CASE call'[c] = Idle
    BY <2>1, IdleInv
  <2>2. CASE call'[c] # Idle
    <3>1. call'[c].pc = "redact_delete" /\ call'[c].id = e
      BY <1>2, <2>2 DEF BucketInv, TypeOK, Calls
    <3>2. Write(c)' = [key |-> <<"event", e>>, body |-> None]
      BY <3>1 DEF Write
    <3>. QED
      BY <1>0, <1>3, <3>1, <3>2, KeyTyped DEF CallInv, WriteInv, EventPcs, ArtifactPcs, exists
  <2>. QED  BY <2>1, <2>2
<1>7. ErasedInv'
  BY <1>0, <1>1, <1>2, <1>5, ErasedByWrite, ErasedQuiet DEF history
<1>. QED  BY <1>0, <1>2, <1>3, <1>4, <1>6, <1>7, RestInv

LEMMA ErasePutInv ==
  ASSUME BucketInv, NEW c \in Clients, ErasePut(c)
  PROVE  BucketInv' /\ ObjectStep
<1> DEFINE a == call[c].id  w == Write(c)
<1>0. /\ call[c].pc = "erase_put" /\ a \in Artifacts
      /\ UNCHANGED <<late, history, scan>>
  BY DEF BucketInv, CallInv, ArtifactPcs, ErasePut
<1>1. w.key = <<"redaction", a>> /\ WriteInv(w) /\ Apply(w) /\ w.body # None
  <2>1. w = [key |-> <<"redaction", a>>, body |-> <<call[c].request, call[c].body>>]
    BY <1>0, WriteCases
  <2>2. WriteInv(w) /\ Apply(w)
    BY <1>0 DEF BucketInv, CallInv, WritePcs, ErasePut
  <2>. QED  BY <2>1, <2>2 DEF WriteInv
<1>2. /\ call' \in [Clients -> Calls] /\ \A d \in Clients \ {c} : call'[d] = call[d]
      /\ call'[c] = Idle \/ call'[c] = [call[c] EXCEPT !.pc = "erase_delete"]
  BY GotoTyped, ReturnTyped DEF BucketInv, WritePcs, ErasePut
<1>. HIDE DEF w
<1>3. /\ ObjectStep /\ ObjectInv' /\ object' \in [Keys -> Bodies \cup {None}]
      /\ object'[<<"redaction", a>>] # None
  BY <1>1, ApplyInv
<1>4. TypeOK' /\ HistoryInv'
  BY <1>0, <1>2, <1>3, HistoryStable DEF BucketInv, TypeOK, history
<1>5. call'[c].pc \in {"idle", "erase_delete"}
  BY <1>2 DEF BucketInv, TypeOK, Calls, Idle
<1>6. CallInv(c)'
  <2>1. CASE call'[c] = Idle
    BY <2>1, IdleInv
  <2>2. CASE call'[c] # Idle
    <3>1. call'[c].pc = "erase_delete" /\ call'[c].id = a
      BY <1>2, <2>2 DEF BucketInv, TypeOK, Calls
    <3>2. Write(c)' = [key |-> <<"blob", a>>, body |-> None]
      BY <3>1 DEF Write
    <3>3. WriteInv(Write(c))'
      <4>1. <<"blob", a>> \in Keys /\ object'[<<"redaction", a>>] # None
        BY <1>0, <1>3, KeyTyped
      <4>. QED  BY <3>2, <4>1 DEF WriteInv, exists, BlobKept, EventKept
    <3>. QED
      BY <1>0, <3>1, <3>3 DEF CallInv, EventPcs, ArtifactPcs
  <2>. QED  BY <2>1, <2>2
<1>7. ErasedInv'
  BY <1>0, <1>1, <1>2, <1>5, ErasedByWrite, ErasedQuiet DEF history
<1>. QED  BY <1>0, <1>2, <1>3, <1>4, <1>6, <1>7, RestInv

LEMMA DeletedInv ==
  ASSUME BucketInv, NEW c \in Clients, RedactDelete(c) \/ EraseDelete(c)
  PROVE  BucketInv' /\ ObjectStep
<1> DEFINE w == Write(c)
<1>1. /\ call[c].pc \in {"redact_delete", "erase_delete"} /\ w.body = None /\ WriteInv(w)
      /\ w.key \in Keys
      /\ \/ w.key[1] = "event" /\ exists(<<"tombstone", w.key[2]>>)
         \/ w.key[1] = "blob" /\ exists(<<"redaction", w.key[2]>>)
  <2>1. call[c].pc \in {"redact_delete", "erase_delete"} /\ w.body = None
    BY WriteCases DEF RedactDelete, EraseDelete
  <2>2. WriteInv(w)
    BY <2>1 DEF BucketInv, CallInv, WritePcs
  <2>. QED  BY <2>1, <2>2 DEF WriteInv
<1>2. /\ Apply(w) /\ Return(c) /\ UNCHANGED <<late, acked, stored, scan>>
      /\ erased' = erased \cup {w.key}
      /\ overlapped' = IF Outstanding(w.key) THEN overlapped \cup {w.key} ELSE overlapped
  BY DEF RedactDelete, EraseDelete, Deleted
<1>. HIDE DEF w
<1>3. /\ call' \in [Clients -> Calls] /\ call'[c] = Idle
      /\ \A d \in Clients \ {c} : call'[d] = call[d]
  BY <1>2, ReturnTyped DEF BucketInv
<1>4. /\ ObjectStep /\ ObjectInv' /\ object' \in [Keys -> Bodies \cup {None}]
      /\ object'[w.key] = None
  BY <1>1, <1>2, ApplyInv
<1>5. TypeOK' /\ CallInv(c)'
  BY <1>1, <1>2, <1>3, <1>4, IdleInv DEF BucketInv, TypeOK
<1>6. HistoryInv'
  <2>1. \/ w.key[1] = "event" /\ object'[<<"tombstone", w.key[2]>>] # None
        \/ w.key[1] = "blob" /\ object'[<<"redaction", w.key[2]>>] # None
    BY <1>1, <1>4, StillThere, KeyTyped DEF exists
  <2>. QED  BY <1>2, <1>4, <2>1, HistoryKept DEF HistoryInv, EventKept, exists
<1>7. ErasedInv'
  <2>. SUFFICES ASSUME NEW k \in erased' \ overlapped'
                PROVE  object'[k] = None /\ ~Outstanding(k)'
    BY DEF ErasedInv
  <2>1. ~Outstanding(k)
    BY <1>2 DEF BucketInv, ErasedInv
  <2>2. Outstanding(k)' => Outstanding(k)
    <3>1. \A d \in Clients \ {c} : call'[d] = call[d] /\ Write(d)' = Write(d)
      BY <1>3 DEF Write
    <3>. QED  BY <1>2, <1>3, <3>1 DEF Outstanding, Idle
  <2>3. object'[k] = None
    BY <1>1, <1>2, <1>4, ErasedByWrite
  <2>. QED  BY <2>1, <2>2, <2>3
<1>. QED  BY <1>2, <1>3, <1>4, <1>5, <1>6, <1>7, RestInv

LEMMA PutBlobInv ==
  ASSUME BucketInv, NEW c \in Clients, PutBlob(c)
  PROVE  BucketInv' /\ ObjectStep
<1> DEFINE a == call[c].id  m == call[c].body  w == Write(c)
<1>0. /\ call[c].pc = "put_blob" /\ a \in Artifacts /\ m \in Media
      /\ UNCHANGED <<late, history, scan>>
  BY DEF BucketInv, CallInv, ArtifactPcs, PutBlob
<1>1. /\ w.key = <<"blob", a>> /\ w.body = a /\ a # None /\ WriteInv(w) /\ Apply(w)
      /\ Goto(c, IF exists(w.key) THEN "put_blob_read" ELSE "put_manifest")
  <2>1. w = [key |-> <<"blob", a>>, body |-> a]
    BY <1>0, WriteCases
  <2>2. /\ WriteInv(w) /\ Apply(w)
        /\ Goto(c, IF exists(w.key) THEN "put_blob_read" ELSE "put_manifest")
    BY <1>0 DEF BucketInv, CallInv, WritePcs, PutBlob
  <2>3. w.key = <<"blob", a>> /\ w.body = a /\ a # None
    BY <1>0, <2>1, NoneIsNoBody
  <2>. QED  BY <2>2, <2>3
<1>. HIDE DEF w
<1>2. /\ call' \in [Clients -> Calls] /\ \A d \in Clients \ {c} : call'[d] = call[d]
      /\ call'[c] = [call[c] EXCEPT !.pc = IF exists(<<"blob", a>>) THEN "put_blob_read" ELSE "put_manifest"]
  BY <1>1, GotoTyped DEF BucketInv, ReadPcs, WritePcs
<1>3. /\ ObjectStep /\ ObjectInv' /\ object' \in [Keys -> Bodies \cup {None}]
      /\ object'[<<"blob", a>>] # None
  BY <1>1, ApplyInv
<1>4. TypeOK' /\ HistoryInv'
  BY <1>0, <1>2, <1>3, HistoryStable DEF BucketInv, TypeOK, history
<1>5. /\ call'[c].id = a /\ call'[c].body = m
      /\ call'[c].pc \in {"put_blob_read", "put_manifest"}
  BY <1>2 DEF BucketInv, TypeOK, Calls
<1>6. CallInv(c)'
  <2>1. CASE call'[c].pc = "put_blob_read"
    BY <1>0, <1>5, <2>1 DEF CallInv, EventPcs, ArtifactPcs, WritePcs
  <2>2. CASE call'[c].pc = "put_manifest"
    <3>1. Write(c)' = [key |-> <<"manifest", a>>, body |-> m]
      BY <1>5, <2>2 DEF Write
    <3>2. WriteInv(Write(c))'
      <4>1. <<"manifest", a>> \in Keys /\ m # None
        BY <1>0, KeyTyped, NoneIsNoBody
      <4>2. m \in BodyOf(<<"manifest", a>>)
        BY <1>0, BodyTyped
      <4>. QED  BY <1>3, <3>1, <4>1, <4>2 DEF WriteInv, exists, BlobKept, EventKept
    <3>. QED  BY <1>0, <1>5, <2>2, <3>2 DEF CallInv, EventPcs, ArtifactPcs
  <2>. QED  BY <1>5, <2>1, <2>2
<1>7. ErasedInv'
  <2>1. Outstanding(w.key)
    BY <1>0 DEF Outstanding, w
  <2>. QED  BY <1>0, <1>1, <1>2, <1>5, <2>1, ErasedByWrite, ErasedQuiet DEF history
<1>. QED  BY <1>0, <1>2, <1>3, <1>4, <1>6, <1>7, RestInv

LEMMA PutManifestInv ==
  ASSUME BucketInv, NEW c \in Clients, PutManifest(c)
  PROVE  BucketInv' /\ ObjectStep
<1> DEFINE a == call[c].id  m == call[c].body  w == Write(c)
<1>0. /\ call[c].pc = "put_manifest" /\ a \in Artifacts /\ m \in Media
      /\ w.key = <<"manifest", a>> /\ w.body = m /\ m # None
      /\ WriteInv(w) /\ UNCHANGED <<late, acked, erased, overlapped, scan>>
  <2>1. call[c].pc = "put_manifest" /\ UNCHANGED <<late, acked, erased, overlapped, scan>>
    BY DEF PutManifest
  <2>2. a \in Artifacts /\ WriteInv(w)
    BY <2>1 DEF BucketInv, CallInv, ArtifactPcs, WritePcs
  <2>3. w = [key |-> <<"manifest", a>>, body |-> m]
    BY <2>1, WriteCases
  <2>4. m \in Contents \cup Media \cup {None}
    BY DEF BucketInv, TypeOK, Calls
  <2>5. m \in Media
    BY <2>2, <2>3, <2>4, BodyTyped DEF WriteInv
  <2>. QED  BY <2>1, <2>2, <2>3, <2>5, NoneIsNoBody
<1>1. /\ Apply(w) /\ Return(c)
      /\ stored' = IF Replay(w) THEN stored \cup {<<a, m>>} ELSE stored
  BY <1>0 DEF PutManifest
<1>. HIDE DEF w
<1>2. /\ call' \in [Clients -> Calls] /\ call'[c] = Idle
      /\ \A d \in Clients \ {c} : call'[d] = call[d]
  BY <1>1, ReturnTyped DEF BucketInv
<1>3. /\ ObjectStep /\ ObjectInv' /\ object' \in [Keys -> Bodies \cup {None}]
      /\ Replay(w) => object'[<<"manifest", a>>] = m
  BY <1>0, <1>1, ApplyInv DEF Replay
<1>4. TypeOK' /\ CallInv(c)'
  BY <1>0, <1>1, <1>2, <1>3, IdleInv DEF BucketInv, TypeOK
<1>5. HistoryInv'
  BY <1>0, <1>1, <1>3, HistoryKept DEF HistoryInv, EventKept, exists
<1>6. ErasedInv'
  BY <1>0, <1>1, <1>2, ErasedByWrite, ErasedQuiet DEF Idle
<1>. QED  BY <1>0, <1>2, <1>3, <1>4, <1>5, <1>6, RestInv
-----------------------------------------------------------------------------
(***************************************************************************)
(* The network                                                             *)
(***************************************************************************)
LEMMA LateStable ==
  ASSUME BucketInv, ObjectStep
  PROVE  \A w \in late : WriteInv(w)'
BY WriteStable DEF BucketInv, LateInv

LEMMA AbandonInv ==
  ASSUME BucketInv, NEW c \in Clients, Abandon(c)
  PROVE  BucketInv' /\ ObjectStep
<1> USE DEF Abandon
<1>1. /\ call' \in [Clients -> Calls] /\ call'[c] = Idle
      /\ \A d \in Clients \ {c} : call'[d] = call[d]
  BY ReturnTyped DEF BucketInv
<1>2. ObjectStep /\ ObjectInv' /\ HistoryInv' /\ CallInv(c)'
  BY <1>1, SameObjects, HistoryStable, IdleInv
<1>3. \A d \in Clients : CallInv(d)'
  BY <1>1, <1>2, OthersStable
<1>4. CASE UNCHANGED late
  <2>1. TypeOK'
    BY <1>1, <1>4 DEF BucketInv, TypeOK, history
  <2>2. ErasedInv'
    BY <1>1, <1>4, SameObjects, ErasedQuiet DEF Idle, history
  <2>. QED  BY <1>1, <1>2, <1>4, <2>1, <2>2, RestInv
<1>5. CASE call[c].pc \in WritePcs /\ Cardinality(late) < MaxLate /\ late' = late \cup {Write(c)}
  <2>. PICK w : w = Write(c)
    OBVIOUS
  <2>1. WriteInv(w) /\ w \in Writes
    <3>1. WriteInv(w) /\ w.key \in Keys /\ w.body \in Bodies \cup {None}
      BY <1>5, BodiesTyped DEF BucketInv, CallInv, WriteInv
    <3>2. w = [key |-> w.key, body |-> w.body]
      BY <1>5, WriteCases DEF WritePcs
    <3>. QED  BY <3>1, <3>2 DEF Writes
  <2>2. LateInv' /\ Cardinality(late') <= MaxLate
    <3>0. IsFiniteSet(late) /\ late' = late \cup {w}
      BY <1>5 DEF BucketInv, LateInv
    <3>1. IsFiniteSet(late \cup {w}) /\ Cardinality(late \cup {w}) <= MaxLate
      <4>1. Cardinality(late) \in Nat
        BY <3>0, FS_CardinalityType
      <4>2. /\ IsFiniteSet(late \cup {w})
            /\ Cardinality(late \cup {w}) = IF w \in late THEN Cardinality(late)
                                                       ELSE Cardinality(late) + 1
        BY <3>0, FS_AddElement
      <4>. QED  BY <1>5, <4>1, <4>2, BucketAssumption
    <3>2. \A u \in late \cup {w} : WriteInv(u)'
      BY <1>2, <2>1, LateStable, WriteStable
    <3>. QED  BY <3>0, <3>1, <3>2 DEF LateInv, WriteInv, EventKept, BlobKept, exists
  <2>3. TypeOK'
    BY <1>1, <1>5, <2>1, <2>2 DEF BucketInv, TypeOK, history
  <2>4. ErasedInv'
    <3>. SUFFICES ASSUME NEW k \in erased \ overlapped, Outstanding(k)' PROVE FALSE
      BY SameObjects DEF ErasedInv, history
    <3>1. ~Outstanding(k) /\ k[1] \in {"event", "blob"}
      BY DEF BucketInv, ErasedInv, HistoryInv
    <3>2. \A d \in Clients \ {c} : call'[d] = call[d] /\ Write(d)' = Write(d)
      BY <1>1 DEF Write
    <3>3. w.key = k /\ w.body # None
      BY <1>1, <1>5, <3>1, <3>2 DEF Outstanding, Idle
    <3>4. call[c].pc \in {"commit_put", "put_blob"}
      BY <1>5, <3>1, <3>3, WriteCases DEF WritePcs
    <3>. QED  BY <3>1, <3>3, <3>4 DEF Outstanding
  <2>5. ScanInv'
    BY <1>2, ScanStable
  <2>. QED  BY <1>2, <1>3, <2>2, <2>3, <2>4, <2>5 DEF BucketInv
<1>. QED  BY <1>4, <1>5

LEMMA ApplyLateInv ==
  ASSUME BucketInv, NEW w \in late, ApplyLate(w)
  PROVE  BucketInv' /\ ObjectStep
<1> USE DEF ApplyLate
<1>1. ObjectStep /\ ObjectInv' /\ object' \in [Keys -> Bodies \cup {None}]
  BY ApplyInv DEF BucketInv, LateInv
<1>2. IsFiniteSet(late') /\ Cardinality(late') \in Nat /\ Cardinality(late') <= MaxLate
  <2>1. IsFiniteSet(late) /\ Cardinality(late) <= MaxLate
    BY DEF BucketInv, LateInv, TypeOK
  <2>2. /\ Cardinality(late) \in Nat /\ IsFiniteSet(late \ {w})
        /\ Cardinality(late \ {w}) = Cardinality(late) - 1
    BY <2>1, FS_RemoveElement, FS_CardinalityType
  <2>3. Cardinality(late \ {w}) \in Nat
    BY <2>2, FS_CardinalityType
  <2>4. late' = late \ {w}
    OBVIOUS
  <2>. QED  BY <2>1, <2>2, <2>3, <2>4, BucketAssumption
<1>3. TypeOK' /\ HistoryInv' /\ ScanInv'
  BY <1>1, <1>2, HistoryStable, ScanStable DEF BucketInv, TypeOK, history
<1>4. \A d \in Clients : CallInv(d)'
  BY <1>1, OthersStable
<1>5. LateInv'
  BY <1>1, <1>2, LateStable DEF LateInv, WriteInv, EventKept, BlobKept, exists
<1>6. ErasedInv'
  <2>1. \A k \in erased \ overlapped : object'[k] = None
    <3>1. WriteInv(w) /\ (w.body = None \/ Outstanding(w.key))
      BY DEF BucketInv, LateInv, Outstanding
    <3>. QED  BY <3>1, ErasedByWrite
  <2>2. \A k : Outstanding(k)' => Outstanding(k)
    <3>1. \A d \in Clients : Write(d)' = Write(d)
      BY DEF Write
    <3>. QED  BY <3>1 DEF Outstanding
  <2>. QED  BY <2>1, <2>2 DEF BucketInv, ErasedInv, history
<1>. QED  BY <1>1, <1>3, <1>4, <1>5, <1>6 DEF BucketInv
-----------------------------------------------------------------------------
(***************************************************************************)
(* The listing: pages have a greatest key and leave out only later ones    *)
(***************************************************************************)
LEMMA LeastNatural ==
  ASSUME NEW T \in SUBSET Nat, T # {}
  PROVE  \E m \in T : \A n \in T : m <= n
<1>1. \E R : IsWellFoundedOn(R, Nat) /\ \A m, n \in Nat : n < m => <<n, m>> \in R
  <2> DEFINE R == OpToRel(<, Nat)
  <2>1. IsWellFoundedOn(R, Nat)
    BY NatLessThanWellFounded
  <2>2. \A m, n \in Nat : n < m => <<n, m>> \in R
    BY DEF OpToRel
  <2>. QED  BY <2>1, <2>2
<1>2. PICK R : IsWellFoundedOn(R, Nat) /\ \A m, n \in Nat : n < m => <<n, m>> \in R
  BY <1>1
<1>3. PICK m \in T : \A n \in T : <<n, m>> \notin R
  BY <1>2, WFMin
<1>4. ASSUME NEW n \in T PROVE m <= n
  <2>1. m \in Nat /\ n \in Nat
    OBVIOUS
  <2>2. ~(n < m)
    BY <1>2, <1>3, <2>1
  <2>. QED  BY <2>1, <2>2
<1>. QED  BY <1>4

LEMMA GreatestNatural ==
  ASSUME NEW N \in Nat, NEW T \in SUBSET (0..N), T # {}
  PROVE  \E m \in T : \A n \in T : n <= m
<1> DEFINE U == {u \in Nat : \A n \in T : n <= u}
<1>1. N \in U
  OBVIOUS
<1>2. PICK m \in U : \A n \in U : m <= n
  BY <1>1, LeastNatural
<1>3. CASE m \in T
  BY <1>2, <1>3
<1>4. CASE m \notin T
  <2>0. \A n \in T : n < m
    BY <1>4
  <2>1. PICK t \in T : TRUE
    OBVIOUS
  <2>3. m > 0 /\ m - 1 \in Nat
    BY <2>0, <2>1
  <2>2. \A n \in T : n <= m - 1
    BY <2>0, <2>3
  <2>. QED  BY <1>2, <2>2, <2>3
<1>. QED  BY <1>3, <1>4

LEMMA PageIsPrefix ==
  ASSUME NEW n \in Nat
  PROVE  /\ Page(n) \subseteq Listed(n) /\ Listed(n) \subseteq EventIds
         /\ \A e \in Page(n), d \in Listed(n) : d <= e => d \in Page(n)
         /\ Page(n) # Listed(n) =>
              LET last == CHOOSE e \in Page(n) : \A d \in Page(n) : d <= e
              IN  last \in Page(n) /\ \A d \in Page(n) : d <= last
<1> DEFINE upto(e) == {d \in Listed(n) : d <= e}
<1>1. /\ Page(n) \subseteq Listed(n) /\ Listed(n) \subseteq EventIds
      /\ EventIds \subseteq Nat /\ IsFiniteSet(EventIds) /\ Cardinality(EventIds) \in Nat
  <2>1. Page(n) \subseteq Listed(n) /\ Listed(n) \subseteq EventIds
    BY DEF Page, Listed
  <2>2. IsFiniteSet(EventIds) /\ Cardinality(EventIds) \in Nat
    BY PageAssumption, FS_CardinalityType
  <2>3. EventIds \subseteq Nat
    BY <2>2, PageAssumption
  <2>. QED  BY <2>1, <2>2, <2>3
<1>2. \A S \in SUBSET EventIds : IsFiniteSet(S) /\ Cardinality(S) \in Nat
  BY <1>1, FS_Subset, FS_CardinalityType
<1>3. ASSUME NEW e \in Page(n), NEW d \in Listed(n), d <= e PROVE d \in Page(n)
  <2>0. e \in Nat /\ d \in Nat /\ Listed(n) \subseteq Nat
    BY <1>1
  <2>1. upto(d) \in SUBSET upto(e) /\ upto(e) \in SUBSET EventIds
    BY <1>1, <1>3, <2>0
  <2>2. Cardinality(upto(d)) <= Cardinality(upto(e))
    BY <1>2, <2>1, FS_Subset
  <2>3. Cardinality(upto(e)) <= PageSize
    BY DEF Page
  <2>4. Cardinality(upto(d)) <= PageSize
    BY <1>2, <2>1, <2>2, <2>3, PageAssumption
  <2>. QED  BY <2>4 DEF Page
<1>4. ASSUME Page(n) # Listed(n)
      PROVE  \E e \in Page(n) : \A d \in Page(n) : d <= e
  <2>1. PICK m \in Listed(n) : \A d \in Listed(n) : m <= d
    BY <1>1, <1>4, LeastNatural
  <2>2. m \in Page(n)
    <3>0. Listed(n) \subseteq Nat
      BY <1>1
    <3>1. upto(m) = {m}
      BY <3>0, <2>1
    <3>2. Cardinality(upto(m)) = 1
      BY <3>1, FS_Singleton
    <3>3. Cardinality(upto(m)) <= PageSize
      BY <3>2, PageAssumption
    <3>. QED  BY <3>3 DEF Page
  <2>3. Page(n) \in SUBSET (0..Cardinality(EventIds)) /\ Page(n) # {}
    BY <1>1, <2>2, PageAssumption
  <2>. QED  BY <1>1, <2>3, GreatestNatural
<1>. QED  BY <1>1, <1>3, <1>4

LEMMA SameButScan ==
  ASSUME BucketInv, UNCHANGED <<object, call, late, history>>, scan' \in Scans, ScanInv'
  PROVE  BucketInv' /\ ObjectStep
<1>1. ObjectStep /\ ObjectInv' /\ HistoryInv'
  BY SameObjects, HistoryStable
<1>2. TypeOK'
  BY DEF BucketInv, TypeOK, history
<1>3. \A c \in Clients : CallInv(c)'
  BY <1>1, OthersStable
<1>4. LateInv'
  BY <1>1, LateStable DEF BucketInv, LateInv, WriteInv, EventKept, BlobKept, exists
<1>5. ErasedInv'
  BY DEF BucketInv, ErasedInv, Outstanding, Write, history
<1>. QED  BY <1>1, <1>2, <1>3, <1>4, <1>5 DEF BucketInv

LEMMA ScanBeginInv == BucketInv /\ ScanBegin => BucketInv' /\ ObjectStep
<1>. SUFFICES ASSUME BucketInv, ScanBegin PROVE BucketInv' /\ ObjectStep
  OBVIOUS
<1>1. scan' = [on |-> TRUE, after |-> 0, keys |-> {}, due |-> {p[1] : p \in acked}]
  BY DEF ScanBegin
<1>2. scan' \in Scans
  BY <1>1 DEF BucketInv, TypeOK, Scans
<1>3. \A e \in EventIds : e \in Nat /\ ~(e <= 0)
  BY PageAssumption, FS_CardinalityType
<1>4. ScanInv'
  <2>1. ASSUME NEW e \in scan'.due
        PROVE  EventKept(e)' /\ ~(e <= scan'.after)
    <3>1. EventKept(e) /\ e \in EventIds
      BY <1>1 DEF BucketInv, HistoryInv, TypeOK
    <3>. QED  BY <1>1, <1>3, <3>1 DEF EventKept, exists, ScanBegin
  <2>. QED  BY <2>1 DEF ScanInv, EventKept, exists
<1>. QED  BY <1>2, <1>4, SameButScan DEF ScanBegin

LEMMA ScanPageInv == BucketInv /\ ScanPage => BucketInv' /\ ObjectStep
<1>. SUFFICES ASSUME BucketInv, ScanPage PROVE BucketInv' /\ ObjectStep
  OBVIOUS
<1> DEFINE n == scan.after
           page == Page(n)
           last == CHOOSE e \in page : \A d \in page : d <= e
           after == IF Listed(n) # page THEN last ELSE 1 + Cardinality(EventIds)
<1>1. /\ scan.on /\ scan \in Scans /\ n \in Nat
      /\ scan' = [scan EXCEPT !.keys = @ \cup page, !.after = after]
      /\ UNCHANGED <<object, call, late, history>>
  BY DEF ScanPage, BucketInv, TypeOK, Scans
<1>2. /\ page \subseteq Listed(n) /\ Listed(n) \subseteq EventIds
      /\ \A e \in page, d \in Listed(n) : d <= e => d \in page
      /\ Listed(n) # page => last \in page /\ \A d \in page : d <= last
  BY <1>1, PageIsPrefix
<1>3. EventIds \subseteq Nat /\ Cardinality(EventIds) \in Nat
  BY PageAssumption, FS_CardinalityType
<1>4. after \in Nat
  <2>1. Listed(n) # page => last \in Nat
    BY <1>2, <1>3
  <2>2. 1 + Cardinality(EventIds) \in Nat
    BY <1>3
  <2>. HIDE DEF last, page
  <2>. QED  BY <2>1, <2>2
<1>5. ASSUME NEW e \in EventIds, exists(<<"event", e>>), e > n, e <= after
      PROVE  e \in page
  <2>1. e \in Listed(n)
    BY <1>5 DEF Listed
  <2>. QED  BY <1>2, <1>5, <2>1
<1>. HIDE DEF page, after
<1>6. scan' \in Scans /\ scan'.due = scan.due /\ scan'.after = after /\ scan'.keys = scan.keys \cup page
  BY <1>1, <1>2, <1>4 DEF Scans
<1>7. ScanInv'
  <2>. SUFFICES ASSUME NEW e \in scan.due
                PROVE  /\ EventKept(e)
                       /\ e <= after => e \in scan.keys \cup page \/ exists(<<"tombstone", e>>)
    BY <1>1, <1>6 DEF ScanInv, EventKept, exists
  <2>1. e \in EventIds /\ e \in Nat /\ EventKept(e)
    BY <1>1, <1>3 DEF Scans, BucketInv, ScanInv
  <2>2. CASE e <= n
    BY <1>1, <2>1, <2>2 DEF BucketInv, ScanInv
  <2>3. CASE e > n
    <3>1. e <= after => e \in page \/ exists(<<"tombstone", e>>)
      BY <1>5, <2>1, <2>3 DEF EventKept
    <3>. QED  BY <1>6, <2>1, <3>1
  <2>4. n \in Nat
    BY <1>1
  <2>5. e <= n \/ e > n
    BY <2>1, <2>4
  <2>. QED  BY <2>2, <2>3, <2>5
<1>. QED  BY <1>1, <1>6, <1>7, SameButScan

LEMMA ScanEndInv == BucketInv /\ ScanEnd => BucketInv' /\ ObjectStep
<1>. SUFFICES ASSUME BucketInv, ScanEnd PROVE BucketInv' /\ ObjectStep
  OBVIOUS
<1>1. scan' \in Scans /\ ScanInv'
  BY DEF ScanEnd, NoScan, Scans, ScanInv
<1>. QED  BY <1>1, SameButScan DEF ScanEnd
-----------------------------------------------------------------------------

LEMMA InitInv == Init => BucketInv
<1>. SUFFICES ASSUME Init PROVE BucketInv
  OBVIOUS
<1>. USE DEF Init
<1>1. TypeOK
  BY FS_EmptySet, BucketAssumption DEF TypeOK, Calls, Idle, NoScan, Scans
<1>2. ASSUME NEW c \in Clients PROVE CallInv(c)
  BY DEF CallInv, Idle, EventPcs, ArtifactPcs, WritePcs
<1>3. ObjectInv /\ LateInv /\ HistoryInv /\ ErasedInv /\ ScanInv
  BY KeyTyped, FS_EmptySet DEF ObjectInv, LateInv, HistoryInv, ErasedInv, ScanInv, NoScan, exists
<1>. QED  BY <1>1, <1>2, <1>3 DEF BucketInv

LEMMA NextInv == BucketInv /\ [Next]_vars => BucketInv' /\ ObjectStep
<1>. SUFFICES ASSUME BucketInv, [Next]_vars PROVE BucketInv' /\ ObjectStep
  OBVIOUS
<1>1. ASSUME NEW c \in Clients, EventStoreStep(c) PROVE BucketInv' /\ ObjectStep
  BY <1>1, CommitBeginInv, RedactBeginInv, CommitPutInv, CommitReplyInv, CommitReadInv,
     RedactCheckInv, RedactReadInv, RedactPutInv, DeletedInv DEF EventStoreStep
<1>2. ASSUME NEW c \in Clients, ArtifactStoreStep(c) PROVE BucketInv' /\ ObjectStep
  BY <1>2, PutBeginInv, EraseBeginInv, PutBlobInv, PutBlobReadInv, PutManifestInv,
     ErasePutInv, DeletedInv DEF ArtifactStoreStep
<1>3. CASE UNCHANGED vars
  <2>1. UNCHANGED <<object, call, late, history>> /\ scan' = scan
    BY <1>3 DEF vars
  <2>2. scan' \in Scans /\ ScanInv'
    BY <2>1, SameObjects, ScanStable DEF BucketInv, TypeOK
  <2>. QED  BY <2>1, <2>2, SameButScan
<1>. QED
  BY <1>1, <1>2, <1>3, AbandonInv, ApplyLateInv, ScanBeginInv, ScanPageInv, ScanEndInv DEF Next

LEMMA BucketInvariant == Spec => []BucketInv
BY InitInv, NextInv, PTL DEF Spec

\* A finished enumeration has every event committed before it began and not
\* redacted since, for any number of events and any page size.
THEOREM CompleteScan == Spec => []ScanIsComplete
<1>1. BucketInv => ScanIsComplete
  <2>. SUFFICES ASSUME BucketInv, scan.on, scan.after > Cardinality(EventIds), NEW e \in scan.due
                PROVE  e \in scan.keys \/ exists(<<"tombstone", e>>)
    BY DEF ScanIsComplete
  <2>1. e \in EventIds /\ scan.after \in Nat /\ Cardinality(EventIds) \in Nat
    BY PageAssumption, FS_CardinalityType DEF BucketInv, TypeOK, Scans
  <2>2. e <= scan.after
    BY <2>1, PageAssumption
  <2>. QED  BY <2>2 DEF BucketInv, ScanInv
<1>. QED  BY <1>1, BucketInvariant, PTL

\* Over a network that keeps, reorders and applies abandoned requests at any
\* time, stored artifacts stay readable until their redaction, objects are
\* written once and deleted only behind a tombstone, and erased bytes stay gone.
THEOREM ObjectsKept == Spec => ObjectsKeepTheirWord
<1>1. BucketInv => TypeOK /\ StoredIsReadable /\ ErasedStaysGone
  <2>. SUFFICES ASSUME BucketInv PROVE TypeOK /\ StoredIsReadable /\ ErasedStaysGone
    OBVIOUS
  <2>1. ASSUME NEW p \in stored
        PROVE  /\ object[<<"manifest", p[1]>>] = p[2]
               /\ read_bytes(p[1]) \in {p[1], Redacted}
    <3>1. /\ p[1] \in Artifacts /\ p[2] # None /\ object[<<"manifest", p[1]>>] = p[2]
      BY NoneIsNoBody DEF BucketInv, TypeOK, HistoryInv
    <3>2. BlobKept(p[1])
      BY <3>1 DEF BucketInv, ObjectInv, exists
    <3>3. object[<<"blob", p[1]>>] # None => object[<<"blob", p[1]>>] = p[1]
      BY <3>1, KeyTyped, BodyTyped DEF BucketInv, ObjectInv
    <3>. QED  BY <3>1, <3>2, <3>3 DEF read_bytes, BlobKept, exists
  <2>. QED  BY <2>1 DEF BucketInv, ErasedInv, StoredIsReadable, ErasedStaysGone
<1>2. BucketInv /\ [Next]_vars =>
        [\A k \in Keys : object[k] # None /\ object'[k] # object[k] =>
           /\ object'[k] = None
           /\ \/ k[1] = "event" /\ exists(<<"tombstone", k[2]>>)
              \/ k[1] = "blob" /\ exists(<<"redaction", k[2]>>)]_vars
  BY NextInv DEF ObjectStep
<1>. QED
  BY <1>1, <1>2, BucketInvariant, PTL DEF Spec, ObjectsKeepTheirWord, DeletesOnlyBehindTombstones
-----------------------------------------------------------------------------
(***************************************************************************)
(* Refinement: a write that reaches the bucket, from a client or from the  *)
(* network, is a step of EventContract or leaves the reader's view alone.  *)
(***************************************************************************)
Cell == [e \in EventIds |-> get(e)]

LEMMA SameView ==
  ASSUME \A e \in EventIds : get(e)' = get(e)
  PROVE  Cell' = Cell
BY DEF Cell

LEMMA SameBucket ==
  ASSUME UNCHANGED <<object, acked>>
  PROVE  UNCHANGED Contract!cvars
BY DEF Contract!cvars, get, exists

LEMMA WriteRefines ==
  ASSUME BucketInv, NEW w, WriteInv(w), Apply(w), UNCHANGED acked
  PROVE  Contract!CNext \/ UNCHANGED Contract!cvars
<1>1. /\ w.key \in Keys /\ w.key = <<w.key[1], w.key[2]>>
      /\ w.key[1] \in {"event", "tombstone", "blob", "manifest", "redaction"}
      /\ w.key[1] \in {"event", "tombstone"} => w.key[2] \in EventIds
  BY KeyTyped DEF WriteInv
<1>2. /\ object'[w.key] = IF w.body = None \/ object[w.key] = None THEN w.body
                          ELSE object[w.key]
      /\ \A k \in Keys \ {w.key} : object'[k] = object[k]
  BY ApplyInv
<1>3. CASE w.key[1] \notin {"event", "tombstone"}
  <2>1. \A e \in EventIds : /\ <<"event", e>> \in Keys \ {w.key}
                            /\ <<"tombstone", e>> \in Keys \ {w.key}
    BY <1>3, KeyTyped
  <2>2. Cell' = Cell
    BY <1>2, <2>1, SameView DEF get, exists
  <2>. QED  BY <2>2 DEF Contract!cvars, Cell
<1>4. CASE w.key[1] = "event"
  <2>1. PICK e \in EventIds : w.key = <<"event", e>>
    BY <1>1, <1>4
  <2>2. /\ \A d \in EventIds : object'[<<"tombstone", d>>] = object[<<"tombstone", d>>]
        /\ \A d \in EventIds \ {e} : object'[<<"event", d>>] = object[<<"event", d>>]
    <3>1. /\ \A d \in EventIds : <<"tombstone", d>> \in Keys \ {<<"event", e>>}
          /\ \A d \in EventIds \ {e} : <<"event", d>> \in Keys \ {<<"event", e>>}
      BY KeyTyped
    <3>. QED  BY <1>2, <2>1, <3>1
  <2>3. CASE exists(<<"tombstone", e>>) \/ exists(<<"event", e>>)
    <3>1. exists(<<"event", e>>) /\ ~exists(<<"tombstone", e>>) =>
            object'[<<"event", e>>] = object[<<"event", e>>]
      BY <1>2, <2>1 DEF WriteInv, exists
    <3>2. Cell' = Cell
      BY <2>2, <2>3, <3>1, SameView DEF get, exists
    <3>. QED  BY <3>2 DEF Contract!cvars, Cell
  <2>4. CASE ~exists(<<"tombstone", e>>) /\ ~exists(<<"event", e>>)
    <3>1. w.body \in Contents /\ object'[<<"event", e>>] = w.body
      BY <1>2, <2>1, <2>4, BodyTyped DEF WriteInv, exists
    <3>2. Cell[e] = None
      BY <2>4 DEF Cell, get, exists
    <3>3. get(e)' = w.body /\ \A d \in EventIds \ {e} : get(d)' = get(d)
      BY <2>2, <2>4, <3>1 DEF get, exists
    <3>4. Cell' = [Cell EXCEPT ![e] = w.body]
      BY <3>3 DEF Cell
    <3>5. Contract!Accept(e, w.body)
      BY <3>2, <3>4 DEF Contract!Accept, Cell
    <3>. QED  BY <3>1, <3>5 DEF Contract!CNext
  <2>. QED  BY <2>3, <2>4
<1>5. CASE w.key[1] = "tombstone"
  <2>1. PICK e \in EventIds : w.key = <<"tombstone", e>>
    BY <1>1, <1>5
  <2>2. /\ \A d \in EventIds \ {e} : object'[<<"tombstone", d>>] = object[<<"tombstone", d>>]
        /\ \A d \in EventIds : object'[<<"event", d>>] = object[<<"event", d>>]
    <3>1. /\ \A d \in EventIds \ {e} : <<"tombstone", d>> \in Keys \ {<<"tombstone", e>>}
          /\ \A d \in EventIds : <<"event", d>> \in Keys \ {<<"tombstone", e>>}
      BY KeyTyped
    <3>. QED  BY <1>2, <2>1, <3>1
  <2>3. EventKept(e) /\ w.body # None
    BY <2>1 DEF WriteInv
  <2>4. CASE exists(<<"tombstone", e>>)
    <3>1. object'[<<"tombstone", e>>] = object[<<"tombstone", e>>]
      BY <1>2, <2>1, <2>3, <2>4 DEF exists
    <3>2. Cell' = Cell
      BY <2>2, <3>1, SameView DEF get, exists
    <3>. QED  BY <3>2 DEF Contract!cvars, Cell
  <2>5. CASE ~exists(<<"tombstone", e>>)
    <3>1. object[<<"event", e>>] \in Contents
      BY <2>3, <2>5, KeyTyped, BodyTyped DEF EventKept, BucketInv, ObjectInv, exists
    <3>2. Cell[e] \in Contents
      BY <2>5, <3>1 DEF Cell, get
    <3>3. object'[<<"tombstone", e>>] # None
      BY <1>2, <2>1, <2>3, <2>5 DEF exists
    <3>4. get(e)' = Redacted /\ \A d \in EventIds \ {e} : get(d)' = get(d)
      BY <2>2, <3>3 DEF get, exists
    <3>5. Cell' = [Cell EXCEPT ![e] = Redacted]
      BY <3>4 DEF Cell
    <3>6. Contract!Erase(e)
      BY <3>2, <3>5 DEF Contract!Erase, Cell
    <3>. QED  BY <3>6 DEF Contract!CNext
  <2>. QED  BY <2>4, <2>5
<1>. QED  BY <1>3, <1>4, <1>5

LEMMA CommitReplyRefines ==
  ASSUME BucketInv, NEW c \in Clients, CommitReply(c)
  PROVE  Contract!CNext
<1> DEFINE e == call[c].id  v == call[c].body
<1>1. e \in EventIds /\ v \in Contents /\ (object[<<"event", e>>] = v \/ exists(<<"tombstone", e>>))
  BY DEF BucketInv, CallInv, CommitReply, EventPcs
<1>2. Cell[e] \in {v, Redacted}
  BY <1>1 DEF Cell, get
<1>3. Cell' = Cell
  BY SameView DEF CommitReply, get, exists
<1>4. Contract!Acknowledge(e, v)
  BY <1>2, <1>3 DEF Contract!Acknowledge, Cell, CommitReply
<1>. QED  BY <1>1, <1>4 DEF Contract!CNext

LEMMA CommitReadRefines ==
  ASSUME BucketInv, NEW c \in Clients, CommitRead(c)
  PROVE  Contract!CNext \/ UNCHANGED Contract!cvars
<1> DEFINE e == call[c].id  v == call[c].body
<1>1. e \in EventIds /\ v \in Contents
  BY DEF BucketInv, CallInv, CommitRead, EventPcs
<1>2. Cell' = Cell
  BY SameView DEF CommitRead, get, exists
<1>3. CASE object[<<"event", e>>] = v
  <2>1. Cell[e] \in {v, Redacted}
    BY <1>1, <1>3 DEF Cell, get
  <2>2. acked' = acked \cup {<<e, v>>}
    BY <1>3 DEF CommitRead
  <2>3. Contract!Acknowledge(e, v)
    BY <1>2, <2>1, <2>2 DEF Contract!Acknowledge, Cell
  <2>. QED  BY <1>1, <2>3 DEF Contract!CNext
<1>4. CASE object[<<"event", e>>] # v
  BY <1>4, SameBucket DEF CommitRead
<1>. QED  BY <1>3, <1>4

LEMMA StepRefines ==
  ASSUME BucketInv, [Next]_vars
  PROVE  Contract!CNext \/ UNCHANGED Contract!cvars
<1>1. ASSUME NEW c \in Clients, call[c].pc \in WritePcs, Apply(Write(c)), UNCHANGED acked
      PROVE  Contract!CNext \/ UNCHANGED Contract!cvars
  BY <1>1, WriteRefines DEF BucketInv, CallInv
<1>2. ASSUME NEW c \in Clients, EventStoreStep(c)
      PROVE  Contract!CNext \/ UNCHANGED Contract!cvars
  <2>1. CASE CommitPut(c) \/ RedactPut(c) \/ RedactDelete(c)
    BY <1>1, <2>1 DEF CommitPut, RedactPut, RedactDelete, Deleted, WritePcs, history
  <2>2. CASE \/ RedactCheck(c) \/ RedactRead(c)
             \/ \E e \in EventIds : \/ \E v \in Contents : CommitBegin(c, e, v)
                                    \/ \E r \in Requests : RedactBegin(c, e, r)
    BY <2>2, SameBucket DEF RedactCheck, RedactRead, CommitBegin, RedactBegin, history
  <2>. QED  BY <1>2, <2>1, <2>2, CommitReplyRefines, CommitReadRefines DEF EventStoreStep
<1>3. ASSUME NEW c \in Clients, ArtifactStoreStep(c)
      PROVE  Contract!CNext \/ UNCHANGED Contract!cvars
  <2>1. CASE PutBlob(c) \/ PutManifest(c) \/ ErasePut(c) \/ EraseDelete(c)
    BY <1>1, <2>1 DEF PutBlob, PutManifest, ErasePut, EraseDelete, Deleted, WritePcs, history
  <2>2. CASE \/ PutBlobRead(c)
             \/ \E a \in Artifacts : \/ \E m \in Media : PutBegin(c, a, m)
                                     \/ \E r \in Requests : EraseBegin(c, a, r)
    BY <2>2, SameBucket DEF PutBlobRead, PutBegin, EraseBegin, history
  <2>. QED  BY <1>3, <2>1, <2>2 DEF ArtifactStoreStep
<1>4. ASSUME NEW w \in late, ApplyLate(w)
      PROVE  Contract!CNext \/ UNCHANGED Contract!cvars
  BY <1>4, WriteRefines DEF ApplyLate, BucketInv, LateInv, history
<1>5. CASE \/ \E c \in Clients : Abandon(c)
           \/ ScanBegin \/ ScanPage \/ ScanEnd \/ UNCHANGED vars
  BY <1>5, SameBucket DEF Abandon, ScanBegin, ScanPage, ScanEnd, vars, history
<1>. QED  BY <1>2, <1>3, <1>4, <1>5 DEF Next

\* The S3 event store keeps the promise the filesystem one keeps, for any
\* number of clients and abandoned requests: seen through get, an identity is
\* written once, keeps its content and may then be erased for good.
THEOREM Refinement == Spec => ImplementsContract
<1>1. Init => Contract!CInit
  BY KeyTyped DEF Init, Contract!CInit, get, exists
<1>. QED
  BY BucketInvariant, <1>1, StepRefines, PTL DEF Spec, ImplementsContract, Contract!CSpec
=============================================================================
