------------------------ MODULE ProjectionOps_proofs ------------------------
(***************************************************************************)
(* A node and its projections: the answers of the ingest route match the   *)
(* log, events keep the authority they were accepted on, and readers are   *)
(* sent to projections that have what they expect, for any number of       *)
(* agents, requests, events, operators, erasures and crashes.              *)
(*                                                                         *)
(* The argument about the log: an identity is never used for a second      *)
(* content, not even after an erasure, so what was once found in the log   *)
(* has its meaning forever; and the verdict on a draft does not depend on  *)
(* the log, so a batch validated as a whole stays valid while it is        *)
(* committed one proposal at a time, up to one that cannot be encoded.     *)
(*                                                                         *)
(* The argument about replay is about any sequence of events: what one of  *)
(* them does to a state, carried along the states on the way; the protocol *)
(* only adds that the log is finite and that its events passed the gate.   *)
(***************************************************************************)
EXTENDS ProjectionOps, FiniteSetTheorems, SequenceTheorems, WellFoundedInduction, TLAPS

-----------------------------------------------------------------------------
(***************************************************************************)
(* The inductive invariant                                                 *)
(***************************************************************************)

\* A draft of a proposal is accepted or not whatever the log holds.
sound_draft(r, i) ==
  /\ {r.claims[i].subject, r.claims[i].text} \cap Blank = {}
  /\ envelope_is_valid(proposal(r, i))
  /\ validate_event_for_commit(proposal(r, i), EndpointKinds, {}, Revisions)

\* A request that nothing but an erasure or another content can turn down.
Good(r) ==
  /\ early_answer(r) = None
  /\ r.claims # <<>> /\ \A i \in DOMAIN r.claims : sound_draft(r, i)

\* Event e was committed, whatever was erased since.
Entered(e) == e \in log \/ event_id(e) \in gone

\* What request r has reached with progress g, and what it was answered.
Reached(r, g) ==
  /\ g.pc # "idle" => early_answer(r) = None
  /\ g.pc \in {"validate", "commit"} => r.source \in stored[NodePack]
  /\ g.pc = "commit" =>
       /\ Good(r) /\ g.next \in 1..Len(r.claims)
       /\ \A i \in 1..(g.next - 1) : Entered(proposal(r, i)) /\ encodes(proposal(r, i))
  /\ g.pc # "commit" => g.next = 1

Answered(r, code) ==
  /\ code \in {"rejected", "unauthorized"} => ~Good(r)
  /\ code = "invalid" =>
       ~Good(r) \/ \E j \in DOMAIN r.claims : ~encodes(proposal(r, j))
  /\ code = "created" => \A i \in DOMAIN r.claims : Entered(proposal(r, i))

Progress == [pc : {"idle", "source", "validate", "commit"}, next : Nat]

ProgressInv ==
  /\ ingest \in [Requests -> Progress] /\ answer \in [Requests -> Answers \cup {None}]
  /\ DOMAIN stored = Packs
  /\ \A r \in Requests : Reached(r, ingest[r]) /\ Answered(r, answer[r])

\* Proposal e is one of request q, before any that cannot be encoded.
IsProposed(e, q) ==
  \E k \in DOMAIN q.claims :
    e = proposal(q, k) /\ \A i \in 1..k : encodes(proposal(q, i))

\* The node writes proposals of good requests, after their source.
NodeEventInv ==
  \A e \in ever : e.actor = NodeActor =>
    \E q \in Requests : Good(q) /\ IsProposed(e, q) /\ q.source \in stored[NodePack]

PinInv ==
  \A e \in ever : e.kind = "knowledge.promoted" =>
    \E s \in ever :
      /\ event_id(s) = <<e.payload.source_pack_id, e.payload.source_event_id>>
      /\ ToSet(e.subjects) \subseteq ToSet(s.subjects) /\ s.pack # e.pack

KnowledgeInv ==
  /\ KnowledgeTypeOK /\ ProgressInv /\ NodeEventInv
  /\ PinInv /\ AgentEventsAreAttributed

\* A probe that could read the log has what was created by then, and its
\* verdict.
ProbeInv ==
  /\ probe.created \subseteq Requests
  /\ probe.canonical =>
       \A r \in probe.created : \A i \in DOMAIN r.claims :
         proposal(r, i) \in probe.events \/ event_id(proposal(r, i)) \in gone
  /\ ReadyServesTheCreated

\* Slot from is the target of the latest of the records seen.
Follows(from, seen) ==
  \A x \in switches :
    x.uid \in seen /\ (\A z \in switches \ {x} : z.uid \in seen => Later(x, z)) => from = x.to

Uids == {x.uid : x \in switches}

\* No two records are alike, and each switches from the slot its operator saw.
SwitchInv ==
  /\ \A x, y \in switches : x.uid = y.uid => x = y
  /\ \A y \in switches : /\ y.uid \in Int /\ y.stamp \in Int
                         /\ y.seen \subseteq Uids /\ Follows(y.from, y.seen)

OperatorInv ==
  \A o \in Operators :
    op[o].pc = "publish" => op[o].seen \subseteq Uids /\ Follows(op[o].from, op[o].seen)

\* What an operator holds; the events it expects are read from the log.
Held == [pc : {"idle", "compare", "switch", "publish"}, to : Slots \cup {None},
         expected : SUBSET (Offers \cup UNION {Proposals(r) : r \in Requests}),
         from : Slots \cup {None}, seen : SUBSET Int]

OpsInv == ProbeInv /\ op \in [Operators -> Held] /\ SwitchInv /\ OperatorInv

-----------------------------------------------------------------------------
(***************************************************************************)
(* Proposals and the gate                                                  *)
(***************************************************************************)

\* What ingest writes of a draft.
LEMMA ProposalShape ==
  ASSUME NEW r, NEW i
  PROVE  /\ proposal(r, i).kind = "claim.proposed"
         /\ proposal(r, i).pack = NodePack /\ proposal(r, i).actor = NodeActor
         /\ proposal(r, i).snapshots = {r.source}
BY DEF proposal, Event

\* The claims of a request are a sequence.
LEMMA ClaimSequences ==
  ASSUME NEW r \in Requests
  PROVE  /\ Len(r.claims) \in Nat /\ DOMAIN r.claims = 1..Len(r.claims)
         /\ r.claims # <<>> => Len(r.claims) # 0
<1>1. PICK S : r.claims \in Seq(S)
  BY NodeAssumption
<1>2. PICK s \in Seq(S) : s = r.claims
  BY <1>1
<1>3. /\ Len(s) \in Nat /\ DOMAIN s = 1..Len(s)
      /\ s # <<>> => Len(s) # 0
  OBVIOUS
<1> QED BY <1>2, <1>3

\* Only the verdict on a promotion depends on the log.
LEMMA GateIgnoresLog ==
  ASSUME NEW e, e.kind # "knowledge.promoted", NEW S, NEW T
  PROVE  validate_event_for_commit(e, EndpointKinds, S, Revisions)
           <=> validate_event_for_commit(e, EndpointKinds, T, Revisions)
BY DEF validate_event_for_commit

LEMMA DraftVerdict ==
  ASSUME NEW r, NEW i
  PROVE  /\ draft_is_valid(r, i) <=> sound_draft(r, i)
         /\ sound_draft(r, i) => validate(proposal(r, i))
<1>1. proposal(r, i).kind # "knowledge.promoted"
  BY ProposalShape
<1>2. validate_event_for_commit(proposal(r, i), EndpointKinds, log, Revisions)
        <=> validate_event_for_commit(proposal(r, i), EndpointKinds, {}, Revisions)
  BY <1>1, GateIgnoresLog
<1> QED BY <1>2 DEF draft_is_valid, sound_draft, validate
-----------------------------------------------------------------------------
(***************************************************************************)
(* The log                                                                 *)
(***************************************************************************)

\* The part of the type invariant that is about the log.
LogInv ==
  /\ log \subseteq ever /\ ever \subseteq Offers \cup UNION {Proposals(r) : r \in Requests}
  /\ gone = {event_id(e) : e \in ever \ log}
  /\ \A e, f \in ever : event_id(e) = event_id(f) => e = f

\* Nothing that was committed or preserved is forgotten.
Growth ==
  /\ \A e : Entered(e) => e \in log' \/ event_id(e) \in gone'
  /\ stored[NodePack] \subseteq stored'[NodePack] /\ DOMAIN stored' = Packs

LEMMA CommitLog ==
  ASSUME LogInv, NEW e \in Offers \cup UNION {Proposals(r) : r \in Requests}, Commit(e)
  PROVE  /\ LogInv'
         /\ validate(e) /\ encodes(e) /\ ever' = ever \cup {e} /\ e \in log'
         /\ \A f : Entered(f) => f \in log' \/ event_id(f) \in gone'
<1>1. /\ log' = log \cup {e} /\ ever' = ever \cup {e} /\ gone' = gone
  BY DEF Commit
<1>2. /\ validate(e) /\ event_id(e) \notin gone /\ encodes(e)
      /\ Live(event_id(e)) \ {e} = {}
  BY NodeAssumption DEF Commit, Refusal, Answers
<1>3. e \notin ever \ log
  BY <1>2 DEF LogInv
<1>4. ever' \ log' = ever \ log
  BY <1>1, <1>3
<1>5. ASSUME NEW f \in ever, event_id(f) = event_id(e) PROVE f = e
  <2>1. f \in log
    BY <1>2, <1>5 DEF LogInv
  <2> QED BY <1>2, <1>5, <2>1 DEF Live
<1>6. LogInv'
  <2>1. \A f, g \in ever' : event_id(f) = event_id(g) => f = g
    BY <1>1, <1>5 DEF LogInv
  <2>2. gone' = {event_id(f) : f \in ever' \ log'}
    BY <1>1, <1>4 DEF LogInv
  <2> QED BY <1>1, <2>1, <2>2 DEF LogInv
<1> QED BY <1>1, <1>2, <1>6 DEF Entered

LEMMA EraseLog ==
  ASSUME LogInv, NEW e \in log, log' = log \ {e}, gone' = gone \cup {event_id(e)},
         ever' = ever
  PROVE  LogInv' /\ \A f : Entered(f) => f \in log' \/ event_id(f) \in gone'
<1>1. ever' \ log' = (ever \ log) \cup {e}
  BY DEF LogInv
<1>2. gone' = {event_id(f) : f \in ever' \ log'}
  BY <1>1 DEF LogInv
<1>3. LogInv'
  BY <1>2 DEF LogInv
<1> QED BY <1>3 DEF Entered

\* A promotion finds the source it pins, for good.
LEMMA PinCommit ==
  ASSUME LogInv, PinInv, NEW e, validate(e), ever' = ever \cup {e}
  PROVE  PinInv'
<1>1. SUFFICES ASSUME NEW f \in ever', f.kind = "knowledge.promoted"
               PROVE  \E s \in ever' :
                        /\ event_id(s) = <<f.payload.source_pack_id, f.payload.source_event_id>>
                        /\ ToSet(f.subjects) \subseteq ToSet(s.subjects) /\ s.pack # f.pack
  BY DEF PinInv
<1>2. CASE f \in ever
  BY <1>1, <1>2 DEF PinInv
<1>3. CASE f = e
  <2>1. PromotionIsPinned(e, log, Revisions)
    BY <1>1, <1>3 DEF validate, validate_event_for_commit
  <2>2. PICK s \in log :
          /\ event_id(s) = <<e.payload.source_pack_id, e.payload.source_event_id>>
          /\ \A i \in DOMAIN e.subjects : \E j \in DOMAIN s.subjects :
               e.subjects[i] = s.subjects[j]
    BY <2>1 DEF PromotionIsPinned
  <2>3. ToSet(e.subjects) \subseteq ToSet(s.subjects)
    BY <2>2 DEF ToSet
  <2>4. s.pack = e.payload.source_pack_id
    BY <2>2 DEF event_id
  <2>5. s.pack # e.pack
    BY <2>1, <2>4 DEF PromotionIsPinned
  <2>6. s \in ever'
    BY DEF LogInv
  <2> QED BY <1>3, <2>2, <2>3, <2>5, <2>6
<1> QED BY <1>2, <1>3

LEMMA ReachedStable ==
  ASSUME Growth, NEW r \in Requests, NEW g, Reached(r, g)
  PROVE  Reached(r, g)'
BY DEF Growth, Reached, Entered

LEMMA AnsweredStable ==
  ASSUME Growth, NEW r \in Requests, NEW code, Answered(r, code)
  PROVE  Answered(r, code)'
BY DEF Growth, Answered, Entered

-----------------------------------------------------------------------------
(***************************************************************************)
(* The writers                                                             *)
(***************************************************************************)

LEMMA TypesHaveLog == KnowledgeTypeOK => LogInv
BY DEF KnowledgeTypeOK, LogInv

\* The rest of the invariant when events, sources and crashes are as before
\* or grow: what remains to show is about the request that moves.
LEMMA RequestMoves ==
  ASSUME KnowledgeInv, Growth, NEW r \in Requests, NEW g \in Progress,
         NEW code \in Answers \cup {None},
         ingest' = [ingest EXCEPT ![r] = g], answer' = [answer EXCEPT ![r] = code],
         Reached(r, g)', Answered(r, code)'
  PROVE  ProgressInv'
<1>1. /\ ingest' \in [Requests -> Progress] /\ answer' \in [Requests -> Answers \cup {None}]
      /\ DOMAIN stored' = Packs
  BY DEF KnowledgeInv, ProgressInv, Growth
<1>2. ASSUME NEW q \in Requests
      PROVE  Reached(q, ingest[q])' /\ Answered(q, answer[q])'
  <2>1. CASE q = r
    <3>1. ingest'[q] = g /\ answer'[q] = code
      BY <2>1 DEF KnowledgeInv, ProgressInv
    <3> QED BY <2>1, <3>1
  <2>2. CASE q # r
    <3>1. PICK h, c : h = ingest[q] /\ c = answer[q]
      OBVIOUS
    <3>2. h = ingest'[q] /\ c = answer'[q]
      BY <2>2, <3>1 DEF KnowledgeInv, ProgressInv
    <3>3. Reached(q, h) /\ Answered(q, c)
      BY <3>1 DEF KnowledgeInv, ProgressInv
    <3>4. Reached(q, h)' /\ Answered(q, c)'
      BY <3>3, ReachedStable, AnsweredStable
    <3> QED BY <3>2, <3>4
  <2> QED BY <2>1, <2>2
<1> QED BY <1>1, <1>2 DEF ProgressInv

LEMMA RequestsStay ==
  ASSUME KnowledgeInv, Growth, UNCHANGED <<ingest, answer>>
  PROVE  ProgressInv'
<1>1. ASSUME NEW q \in Requests
      PROVE  Reached(q, ingest[q])' /\ Answered(q, answer[q])'
  <2>1. PICK h, c : h = ingest[q] /\ c = answer[q] /\ h = ingest'[q] /\ c = answer'[q]
    OBVIOUS
  <2>2. Reached(q, h) /\ Answered(q, c)
    BY <2>1 DEF KnowledgeInv, ProgressInv
  <2>3. Reached(q, h)' /\ Answered(q, c)'
    BY <2>2, ReachedStable, AnsweredStable
  <2> QED BY <2>1, <2>3
<1> QED BY <1>1 DEF ProgressInv, KnowledgeInv, Growth

\* The type invariant from its parts.
LEMMA TypesFromParts ==
  ASSUME LogInv', ProgressInv', (erased \subseteq stored[NodePack])', crashes' \in 0..MaxCrashes
  PROVE  KnowledgeTypeOK'
<1>1. \A r \in Requests : /\ ingest'[r].pc \in {"idle", "source", "validate", "commit"}
                          /\ answer'[r] \in Answers \cup {None}
  BY DEF ProgressInv, Progress
<1> QED BY <1>1 DEF KnowledgeTypeOK, LogInv

\* Events of the node stay backed by their request.
LEMMA NodeEventsStay ==
  ASSUME NodeEventInv, Growth, ever' = ever
  PROVE  NodeEventInv'
BY DEF NodeEventInv, Growth

LEMMA AuthorityStays ==
  ASSUME PinInv, AgentEventsAreAttributed, ever' = ever
  PROVE  PinInv' /\ AgentEventsAreAttributed'
BY DEF PinInv, AgentEventsAreAttributed

LEMMA InitKnowledgeInv == KnowledgeInit => KnowledgeInv
<1> SUFFICES ASSUME KnowledgeInit PROVE KnowledgeInv
  OBVIOUS
<1> USE NodeAssumption DEF KnowledgeInit
<1>1. ProgressInv
  BY DEF ProgressInv, Progress, Reached, Answered, Idle, Answers
<1>2. KnowledgeTypeOK
  BY DEF KnowledgeTypeOK, Idle
<1>3. NodeEventInv /\ PinInv /\ AgentEventsAreAttributed
  BY DEF NodeEventInv, PinInv, AgentEventsAreAttributed
<1> QED BY <1>1, <1>2, <1>3 DEF KnowledgeInv

LEMMA AgentCommitStep ==
  ASSUME KnowledgeInv, NEW a \in Agents, NEW e \in Offers, AgentCommit(a, e)
  PROVE  KnowledgeInv'
<1> USE DEF KnowledgeInv
<1>1. /\ Commit(e) /\ UNCHANGED <<stored, erased, ingest, answer, crashes>>
      /\ authorized(a, "commit") /\ e.pack \in CanWrite[a] /\ e.actor = a
  BY DEF AgentCommit
<1>2. /\ LogInv' /\ validate(e) /\ ever' = ever \cup {e}
      /\ \A f : Entered(f) => f \in log' \/ event_id(f) \in gone'
  BY <1>1, TypesHaveLog, CommitLog
<1>3. Growth
  BY <1>1, <1>2 DEF Growth, ProgressInv
<1>4. ProgressInv'
  BY <1>1, <1>3, RequestsStay
<1>5. KnowledgeTypeOK'
  BY <1>1, <1>2, <1>4, TypesFromParts DEF KnowledgeTypeOK
<1>6. NodeEventInv'
  BY <1>1, <1>2, NodeAssumption DEF NodeEventInv
<1>7. PinInv'
  BY <1>2, TypesHaveLog, PinCommit
<1>8. AgentEventsAreAttributed'
  BY <1>1, <1>2 DEF AgentEventsAreAttributed, authorized
<1> QED BY <1>4, <1>5, <1>6, <1>7, <1>8

LEMMA CrashStep == ASSUME KnowledgeInv, Crash PROVE KnowledgeInv'
<1> USE DEF KnowledgeInv, store
<1>1. /\ UNCHANGED <<log, ever, gone, stored, erased, answer>>
      /\ ingest' = [r \in Requests |-> Idle] /\ crashes' = crashes + 1 /\ crashes < MaxCrashes
  BY DEF Crash
<1>2. Growth
  BY <1>1 DEF Growth, Entered, ProgressInv
<1>3. ProgressInv'
  <2>1. ASSUME NEW r \in Requests PROVE Reached(r, ingest[r])' /\ Answered(r, answer[r])'
    <3>1. Reached(r, ingest[r])'
      BY <1>1 DEF Reached, Idle
    <3>2. PICK c : c = answer[r] /\ c = answer'[r]
      BY <1>1
    <3>3. Answered(r, c)'
      BY <1>2, <3>2, AnsweredStable DEF ProgressInv
    <3> QED BY <3>1, <3>2, <3>3
  <2>2. Idle \in Progress
    BY DEF Idle, Progress
  <2> QED BY <1>1, <2>1, <2>2 DEF ProgressInv
<1>4. LogInv'
  BY <1>1, TypesHaveLog DEF LogInv
<1>5. crashes' \in 0..MaxCrashes
  BY <1>1, NodeAssumption DEF KnowledgeTypeOK
<1>6. KnowledgeTypeOK'
  BY <1>1, <1>3, <1>4, <1>5, TypesFromParts DEF KnowledgeTypeOK
<1> QED BY <1>1, <1>2, <1>3, <1>6, NodeEventsStay, AuthorityStays

LEMMA EraseEventStep == ASSUME KnowledgeInv, NEW e \in log, EraseEvent(e) PROVE KnowledgeInv'
<1> USE DEF KnowledgeInv
<1>1. /\ UNCHANGED <<ever, stored, erased, ingest, answer, crashes>>
      /\ log' = log \ {e} /\ gone' = gone \cup {event_id(e)}
  BY DEF EraseEvent
<1>2. LogInv' /\ Growth
  BY <1>1, TypesHaveLog, EraseLog DEF Growth, ProgressInv
<1>3. ProgressInv'
  BY <1>1, <1>2, RequestsStay
<1>4. KnowledgeTypeOK'
  BY <1>1, <1>2, <1>3, TypesFromParts DEF KnowledgeTypeOK
<1> QED BY <1>1, <1>2, <1>3, <1>4, NodeEventsStay, AuthorityStays

LEMMA EraseSourceStep ==
  ASSUME KnowledgeInv, NEW s \in stored[NodePack], EraseSource(s) PROVE KnowledgeInv'
<1> USE DEF KnowledgeInv, store
<1>1. /\ UNCHANGED <<log, ever, gone, stored, ingest, answer, crashes>>
      /\ erased' = erased \cup {s}
  BY DEF EraseSource
<1>2. LogInv' /\ Growth
  BY <1>1, TypesHaveLog DEF LogInv, Growth, Entered, ProgressInv
<1>3. ProgressInv'
  BY <1>1, <1>2, RequestsStay
<1>4. KnowledgeTypeOK'
  BY <1>1, <1>2, <1>3, TypesFromParts DEF KnowledgeTypeOK
<1> QED BY <1>1, <1>2, <1>3, <1>4, NodeEventsStay, AuthorityStays

-----------------------------------------------------------------------------
(***************************************************************************)
(* The ingest route                                                        *)
(***************************************************************************)

\* An answer, or one more step, of a request that writes no event.
LEMMA QuietStep ==
  ASSUME KnowledgeInv, NEW r \in Requests, NEW g \in Progress,
         NEW code \in Answers \cup {None},
         ingest' = [ingest EXCEPT ![r] = g], answer' = [answer EXCEPT ![r] = code],
         UNCHANGED <<log, ever, gone, erased, crashes>>,
         DOMAIN stored' = Packs, stored[NodePack] \subseteq stored'[NodePack],
         Reached(r, g)', Answered(r, code)'
  PROVE  KnowledgeInv'
<1> USE DEF KnowledgeInv
<1>1. LogInv' /\ Growth
  BY TypesHaveLog DEF LogInv, Growth, Entered
<1>2. ProgressInv'
  BY <1>1, RequestMoves
<1>3. (erased \subseteq stored[NodePack])' /\ crashes' \in 0..MaxCrashes
  BY DEF KnowledgeTypeOK
<1>4. KnowledgeTypeOK'
  BY <1>1, <1>2, <1>3, TypesFromParts
<1> QED BY <1>1, <1>2, <1>4, NodeEventsStay, AuthorityStays

LEMMA IdleIsProgress == Idle \in Progress /\ Idle.pc = "idle" /\ Idle.next = 1
BY DEF Idle, Progress

\* The answers that a request may get before anything is written.
LEMMA EarlyAnswers ==
  ASSUME NEW r
  PROVE  early_answer(r) \in {"unauthorized", "invalid", "rejected", None}
BY DEF early_answer

LEMMA IngestBeginStep ==
  ASSUME KnowledgeInv, NEW r \in Requests, IngestBegin(r) PROVE KnowledgeInv'
<1> USE DEF KnowledgeInv, store
<1>1. /\ ingest[r].pc = "idle" /\ UNCHANGED <<log, ever, gone, stored, erased, crashes>>
      /\ ingest[r] \in Progress /\ Reached(r, ingest[r]) /\ Answered(r, answer[r])
      /\ answer[r] \in Answers \cup {None} /\ DOMAIN stored = Packs
      /\ answer \in [Requests -> Answers \cup {None}]
      /\ ingest \in [Requests -> Progress]
  BY DEF IngestBegin, ProgressInv
<1>2. CASE early_answer(r) # None
  <2>1. PICK code \in {"unauthorized", "invalid", "rejected"} : code = early_answer(r)
    BY <1>2, EarlyAnswers
  <2>2. ingest' = [ingest EXCEPT ![r] = Idle] /\ answer' = [answer EXCEPT ![r] = code]
    BY <1>2, <2>1 DEF IngestBegin, Answer
  <2>3. Reached(r, Idle)'
    BY IdleIsProgress DEF Reached
  <2>4. Answered(r, code)'
    BY <1>2, <2>1 DEF Answered, Good
  <2>5. code \in Answers \cup {None}
    BY <2>1 DEF Answers
  <2> QED BY <1>1, <2>2, <2>3, <2>4, <2>5, IdleIsProgress, QuietStep
<1>3. CASE early_answer(r) = None
  <2> DEFINE g == [ingest[r] EXCEPT !.pc = "source"]
  <2>1. ingest' = [ingest EXCEPT ![r] = g] /\ answer' = answer
    BY <1>3 DEF IngestBegin
  <2>2. g \in Progress /\ g.pc = "source" /\ g.next = 1
    BY <1>1 DEF Progress, Reached
  <2> HIDE DEF g
  <2>3. PICK h : h = g
    OBVIOUS
  <2>4. Reached(r, h)'
    BY <1>3, <2>2, <2>3 DEF Reached
  <2>5. PICK code : code = answer[r]
    OBVIOUS
  <2>6. Answered(r, code)'
    BY <1>1, <2>5 DEF Answered, Entered
  <2>7. answer' = [answer EXCEPT ![r] = code]
    BY <1>1, <2>1, <2>5
  <2> QED BY <1>1, <2>1, <2>2, <2>3, <2>4, <2>5, <2>6, <2>7, QuietStep
<1> QED BY <1>2, <1>3

LEMMA IngestSourceStep ==
  ASSUME KnowledgeInv, NEW r \in Requests, IngestSource(r) PROVE KnowledgeInv'
<1> USE DEF KnowledgeInv, store
<1>1. /\ ingest[r].pc = "source" /\ UNCHANGED <<log, ever, gone, erased, crashes>>
      /\ ingest[r] \in Progress /\ Reached(r, ingest[r]) /\ Answered(r, answer[r])
      /\ answer[r] \in Answers \cup {None} /\ DOMAIN stored = Packs
      /\ answer \in [Requests -> Answers \cup {None}]
      /\ ingest \in [Requests -> Progress]
  BY DEF IngestSource, ProgressInv
<1>2. CASE r.source \in erased
  <2>1. /\ ingest' = [ingest EXCEPT ![r] = Idle]
        /\ answer' = [answer EXCEPT ![r] = "unavailable"] /\ stored' = stored
    BY <1>2 DEF IngestSource, Answer
  <2>2. Reached(r, Idle)'
    BY IdleIsProgress DEF Reached
  <2>3. Answered(r, "unavailable")'
    BY DEF Answered
  <2> QED BY <1>1, <2>1, <2>2, <2>3, IdleIsProgress, QuietStep DEF Answers
<1>3. CASE r.source \notin erased
  <2> DEFINE g == [ingest[r] EXCEPT !.pc = "validate"]
  <2>1. /\ ingest' = [ingest EXCEPT ![r] = g] /\ answer' = answer
        /\ stored' = [stored EXCEPT ![NodePack] = @ \cup {r.source}]
    BY <1>3 DEF IngestSource
  <2>2. g \in Progress /\ g.pc = "validate" /\ g.next = 1
    BY <1>1 DEF Progress, Reached
  <2>3. /\ DOMAIN stored' = Packs /\ stored[NodePack] \subseteq stored'[NodePack]
        /\ r.source \in stored'[NodePack]
    BY <1>1, <2>1, NodeAssumption
  <2> HIDE DEF g
  <2>4. PICK h : h = g
    OBVIOUS
  <2>5. Reached(r, h)'
    BY <1>1, <2>2, <2>3, <2>4 DEF Reached
  <2>6. PICK code : code = answer[r]
    OBVIOUS
  <2>7. Answered(r, code)'
    BY <1>1, <2>6 DEF Answered, Entered
  <2>8. answer' = [answer EXCEPT ![r] = code]
    BY <1>1, <2>1, <2>6
  <2> QED BY <1>1, <2>1, <2>2, <2>3, <2>4, <2>5, <2>6, <2>7, <2>8, QuietStep
<1> QED BY <1>2, <1>3

LEMMA IngestValidateStep ==
  ASSUME KnowledgeInv, NEW r \in Requests, IngestValidate(r) PROVE KnowledgeInv'
<1> USE DEF KnowledgeInv, store
<1>1. /\ ingest[r].pc = "validate" /\ UNCHANGED <<log, ever, gone, stored, erased, crashes>>
      /\ ingest[r] \in Progress /\ Reached(r, ingest[r]) /\ Answered(r, answer[r])
      /\ answer[r] \in Answers \cup {None} /\ DOMAIN stored = Packs
      /\ answer \in [Requests -> Answers \cup {None}]
      /\ ingest \in [Requests -> Progress]
  BY DEF IngestValidate, ProgressInv
<1> DEFINE sound == r.claims # <<>> /\ \A i \in DOMAIN r.claims : sound_draft(r, i)
<1>2. sound <=> r.claims # <<>> /\ \A i \in DOMAIN r.claims : draft_is_valid(r, i)
  BY DraftVerdict
<1>3. early_answer(r) = None /\ r.source \in stored[NodePack]
  BY <1>1 DEF Reached
<1>4. CASE ~sound
  <2>1. /\ ingest' = [ingest EXCEPT ![r] = Idle]
        /\ answer' = [answer EXCEPT ![r] = "invalid"]
    BY <1>2, <1>4 DEF IngestValidate, Answer
  <2>2. Reached(r, Idle)'
    BY IdleIsProgress DEF Reached
  <2>3. Answered(r, "invalid")'
    BY <1>4 DEF Answered, Good
  <2> QED BY <1>1, <2>1, <2>2, <2>3, IdleIsProgress, QuietStep DEF Answers
<1>5. CASE sound
  <2> DEFINE g == [ingest[r] EXCEPT !.pc = "commit"]
  <2>1. ingest' = [ingest EXCEPT ![r] = g] /\ answer' = answer
    BY <1>2, <1>5 DEF IngestValidate
  <2>2. g \in Progress /\ g.pc = "commit" /\ g.next = 1
    BY <1>1 DEF Progress, Reached
  <2>3. Good(r)
    BY <1>3, <1>5 DEF Good
  <2>4. 1 \in 1..Len(r.claims)
    <3>1. r.claims # <<>>
      BY <1>5
    <3> QED BY <3>1, ClaimSequences
  <2> HIDE DEF g
  <2>5. PICK h : h = g
    OBVIOUS
  <2>6. Reached(r, h)'
    BY <1>1, <1>3, <2>2, <2>3, <2>4, <2>5 DEF Reached
  <2>7. PICK code : code = answer[r]
    OBVIOUS
  <2>8. Answered(r, code)'
    BY <1>1, <2>7 DEF Answered, Entered
  <2>9. answer' = [answer EXCEPT ![r] = code]
    BY <1>1, <2>1, <2>7
  <2> QED BY <1>1, <2>1, <2>2, <2>5, <2>6, <2>7, <2>8, <2>9, QuietStep
<1> QED BY <1>4, <1>5

\* A validated batch is committed one proposal at a time; the answer waits for
\* the last one.
LEMMA IngestCommitStep ==
  ASSUME KnowledgeInv, NEW r \in Requests, IngestCommit(r) PROVE KnowledgeInv'
<1> USE DEF KnowledgeInv, store
<1>1. /\ ingest[r].pc = "commit" /\ UNCHANGED <<stored, erased, crashes>>
      /\ ingest[r] \in Progress /\ Reached(r, ingest[r]) /\ Answered(r, answer[r])
      /\ answer[r] \in Answers \cup {None} /\ DOMAIN stored = Packs
      /\ answer \in [Requests -> Answers \cup {None}]
      /\ ingest \in [Requests -> Progress]
  BY DEF IngestCommit, ProgressInv
<1>2. PICK n : n = ingest[r].next
  OBVIOUS
<1>3. PICK e : e = proposal(r, n)
  OBVIOUS
<1>4. /\ early_answer(r) = None /\ r.source \in stored[NodePack] /\ Good(r)
      /\ n \in 1..Len(r.claims)
      /\ \A i \in 1..(n - 1) : Entered(proposal(r, i)) /\ encodes(proposal(r, i))
  BY <1>1, <1>2 DEF Reached
<1>5. n \in Nat /\ n \in DOMAIN r.claims /\ Len(r.claims) \in Nat
  BY <1>4, ClaimSequences
<1>6. e \in Proposals(r) /\ validate(e)
  BY <1>3, <1>4, <1>5, DraftVerdict DEF Good, Proposals
<1>7. CASE Refusal(e) # None
  <2>1. PICK code \in {"unavailable", "invalid", "internal"} :
          code = Refusal(e) /\ (code = "invalid" => ~encodes(e))
    BY <1>6, <1>7 DEF Refusal
  <2>2. /\ ingest' = [ingest EXCEPT ![r] = Idle] /\ answer' = [answer EXCEPT ![r] = code]
        /\ UNCHANGED <<log, ever, gone>>
    BY <1>2, <1>3, <1>7, <2>1 DEF IngestCommit, Answer
  <2>3. Reached(r, Idle)'
    BY IdleIsProgress DEF Reached
  <2>4. Answered(r, code)'
    BY <1>3, <1>5, <2>1 DEF Answered
  <2>5. code \in Answers \cup {None}
    BY <2>1 DEF Answers
  <2> QED BY <1>1, <2>2, <2>3, <2>4, <2>5, IdleIsProgress, QuietStep
<1>8. CASE Refusal(e) = None
  <2>1. Commit(e)
    BY <1>2, <1>3, <1>8 DEF IngestCommit
  <2>2. /\ LogInv' /\ encodes(e) /\ ever' = ever \cup {e} /\ e \in log'
        /\ \A f : Entered(f) => f \in log' \/ event_id(f) \in gone'
    BY <1>6, <2>1, TypesHaveLog, CommitLog
  <2>3. Growth
    BY <1>1, <2>2 DEF Growth
  <2>4. \A i \in 1..n : Entered(proposal(r, i))' /\ encodes(proposal(r, i))
    BY <1>3, <1>4, <1>5, <2>2 DEF Entered
  <2>5. ProgressInv'
    <3>1. CASE n = Len(r.claims)
      <4>1. /\ ingest' = [ingest EXCEPT ![r] = Idle]
            /\ answer' = [answer EXCEPT ![r] = "created"]
        BY <1>2, <1>3, <1>8, <3>1 DEF IngestCommit, Answer
      <4>2. Reached(r, Idle)'
        BY IdleIsProgress DEF Reached
      <4>3. Answered(r, "created")'
        BY <2>4, <3>1, ClaimSequences DEF Answered
      <4> QED BY <2>3, <4>1, <4>2, <4>3, IdleIsProgress, RequestMoves DEF Answers
    <3>2. CASE n # Len(r.claims)
      <4> DEFINE g == [ingest[r] EXCEPT !.next = n + 1]
      <4>1. ingest' = [ingest EXCEPT ![r] = g] /\ answer' = answer
        BY <1>2, <1>3, <1>8, <3>2 DEF IngestCommit
      <4>2. g \in Progress /\ g.pc = "commit" /\ g.next = n + 1
        BY <1>1, <1>5 DEF Progress
      <4> HIDE DEF g
      <4>3. PICK h : h = g
        OBVIOUS
      <4>4. n + 1 \in 1..Len(r.claims) /\ (n + 1) - 1 = n
        BY <1>4, <1>5, <3>2
      <4>5. Reached(r, h)'
        BY <1>1, <1>4, <2>4, <4>2, <4>3, <4>4 DEF Reached
      <4>6. PICK code : code = answer[r]
        OBVIOUS
      <4>7. Answered(r, code)'
        BY <1>1, <2>3, <4>6, AnsweredStable
      <4>8. answer' = [answer EXCEPT ![r] = code]
        BY <1>1, <4>1, <4>6
      <4> QED BY <1>1, <2>3, <4>1, <4>2, <4>3, <4>5, <4>6, <4>7, <4>8, RequestMoves
    <3> QED BY <3>1, <3>2
  <2>6. KnowledgeTypeOK'
    BY <1>1, <2>2, <2>5, TypesFromParts DEF KnowledgeTypeOK
  <2>7. NodeEventInv'
    <3>1. IsProposed(e, r)
      BY <1>3, <1>5, <2>4 DEF IsProposed
    <3> QED BY <1>1, <1>4, <2>2, <3>1 DEF NodeEventInv
  <2>8. PinInv'
    BY <1>6, <2>2, TypesHaveLog, PinCommit
  <2>9. AgentEventsAreAttributed'
    <3>1. e.actor \notin Agents
      BY <1>3, ProposalShape, NodeAssumption
    <3> QED BY <2>2, <3>1 DEF AgentEventsAreAttributed
  <2> QED BY <2>5, <2>6, <2>7, <2>8, <2>9
<1> QED BY <1>7, <1>8

LEMMA KnowledgeStutter == ASSUME KnowledgeInv, UNCHANGED kvars PROVE KnowledgeInv'
<1> USE DEF KnowledgeInv
<1>1. UNCHANGED <<log, ever, gone, stored, erased, ingest, answer, crashes>>
  BY DEF kvars, store
<1>2. LogInv' /\ Growth
  BY <1>1, TypesHaveLog DEF LogInv, Growth, Entered, ProgressInv
<1>3. ProgressInv'
  BY <1>1, <1>2, RequestsStay
<1>4. KnowledgeTypeOK'
  BY <1>1, <1>2, <1>3, TypesFromParts DEF KnowledgeTypeOK
<1> QED BY <1>1, <1>2, <1>3, <1>4, NodeEventsStay, AuthorityStays

LEMMA KnowledgeStep == ASSUME KnowledgeInv, KnowledgeNext PROVE KnowledgeInv'
<1>1. ASSUME NEW a \in Agents, NEW e \in Offers, AgentCommit(a, e) PROVE KnowledgeInv'
  BY <1>1, AgentCommitStep
<1>2. ASSUME NEW r \in Requests, IngestStep(r) PROVE KnowledgeInv'
  BY <1>2, IngestBeginStep, IngestSourceStep, IngestValidateStep, IngestCommitStep
     DEF IngestStep
<1>3. ASSUME NEW e \in log, EraseEvent(e) PROVE KnowledgeInv'
  BY <1>3, EraseEventStep
<1>4. ASSUME NEW s \in stored[NodePack] \ erased, EraseSource(s) PROVE KnowledgeInv'
  BY <1>4, EraseSourceStep
<1> QED BY <1>1, <1>2, <1>3, <1>4, CrashStep DEF KnowledgeNext

\* The node's own properties follow.
LEMMA KnowledgeMeans ==
  ASSUME KnowledgeInv PROVE AnswersMatchTheLog /\ EventsKeepTheirAuthority
<1> USE DEF KnowledgeInv
<1>1. ReceiptIsBacked
  BY DEF ReceiptIsBacked, ProgressInv, Answered, Entered
<1>2. RefusedBatchLeavesNothing
  <2>1. SUFFICES ASSUME NEW r \in Requests,
                        answer[r] \in {"invalid", "rejected", "unauthorized"},
                        NEW e \in Proposals(r) \cap ever,
                        \A q \in Requests \ {r} : e \notin Proposals(q)
                 PROVE  /\ answer[r] = "invalid"
                        /\ \E i, j \in DOMAIN r.claims :
                             e = proposal(r, i) /\ i < j /\ ~encodes(proposal(r, j))
    BY DEF RefusedBatchLeavesNothing
  <2>2. e.actor = NodeActor
    BY ProposalShape DEF Proposals
  <2>3. PICK q \in Requests : Good(q) /\ IsProposed(e, q)
    BY <2>2 DEF NodeEventInv
  <2>4. q = r
    BY <2>1, <2>3 DEF IsProposed, Proposals
  <2>5. PICK i \in DOMAIN r.claims :
          e = proposal(r, i) /\ \A k \in 1..i : encodes(proposal(r, k))
    BY <2>3, <2>4 DEF IsProposed
  <2>6. answer[r] = "invalid" /\ \E j \in DOMAIN r.claims : ~encodes(proposal(r, j))
    BY <2>1, <2>3, <2>4 DEF ProgressInv, Answered
  <2>7. PICK j \in DOMAIN r.claims : ~encodes(proposal(r, j))
    BY <2>6
  <2>8. i < j
    BY <2>5, <2>7, ClaimSequences
  <2> QED BY <2>5, <2>6, <2>7, <2>8
<1>3. EvidencePrecedesClaim
  <2>1. SUFFICES ASSUME NEW e \in ever, e.actor = NodeActor
                 PROVE  e.snapshots \subseteq stored[NodePack]
    BY DEF EvidencePrecedesClaim
  <2>2. PICK q \in Requests : IsProposed(e, q) /\ q.source \in stored[NodePack]
    BY <2>1 DEF NodeEventInv
  <2>3. e.snapshots = {q.source}
    BY <2>2, ProposalShape DEF IsProposed
  <2> QED BY <2>2, <2>3
<1>4. PromotionMeaningIsFixed
  <2> DEFINE pinned(e) ==
        {s \in ever : event_id(s) = <<e.payload.source_pack_id, e.payload.source_event_id>>}
  <2>1. ASSUME NEW e \in ever, e.kind = "knowledge.promoted"
        PROVE  /\ Cardinality(pinned(e)) = 1
               /\ \A s \in pinned(e) : ToSet(e.subjects) \subseteq ToSet(s.subjects)
                                       /\ s.pack # e.pack
    <3>1. PICK s \in pinned(e) :
            s.pack # e.pack /\ ToSet(e.subjects) \subseteq ToSet(s.subjects)
      BY <2>1 DEF PinInv
    <3>2. pinned(e) = {s}
      BY <3>1 DEF KnowledgeTypeOK
    <3> QED BY <3>1, <3>2, FS_Singleton
  <2> QED BY <2>1 DEF PromotionMeaningIsFixed
<1> QED BY <1>1, <1>2, <1>3, <1>4 DEF AnswersMatchTheLog, EventsKeepTheirAuthority

-----------------------------------------------------------------------------
(***************************************************************************)
(* The projections                                                         *)
(***************************************************************************)

LEMMA InitOpsInv == OpsInit => OpsInv
<1> SUFFICES ASSUME OpsInit PROVE OpsInv
  OBVIOUS
<1>1. ProbeInv
  BY VerdictAssumption DEF OpsInit, ProbeInv, ReadyServesTheCreated, NoProbe
<1>2. SwitchInv
  BY DEF OpsInit, SwitchInv
<1>3. OperatorInv /\ op \in [Operators -> Held]
  BY DEF OpsInit, OperatorInv, NoOp, Held
<1> QED BY <1>1, <1>2, <1>3 DEF OpsInv

\* What was erased stays erased.
LEMMA GoneStays == ASSUME KnowledgeNext \/ UNCHANGED kvars PROVE gone \subseteq gone'
<1>1. ASSUME NEW a \in Agents, NEW e \in Offers, AgentCommit(a, e) PROVE gone' = gone
  BY <1>1 DEF AgentCommit, Commit
<1>2. ASSUME NEW r \in Requests, IngestStep(r) PROVE gone' = gone
  <2>1. CASE IngestCommit(r)
    BY <2>1 DEF IngestCommit, Commit, store
  <2>2. CASE IngestBegin(r) \/ IngestSource(r) \/ IngestValidate(r)
    BY <2>2 DEF IngestBegin, IngestSource, IngestValidate, store
  <2> QED BY <1>2, <2>1, <2>2 DEF IngestStep
<1>3. CASE Crash
  BY <1>3 DEF Crash, store
<1>4. ASSUME NEW e \in log, EraseEvent(e) PROVE gone \subseteq gone'
  BY <1>4 DEF EraseEvent
<1>5. ASSUME NEW s \in stored[NodePack] \ erased, EraseSource(s) PROVE gone' = gone
  BY <1>5 DEF EraseSource, store
<1>6. CASE UNCHANGED kvars
  BY <1>6 DEF kvars, store
<1> QED BY <1>1, <1>2, <1>3, <1>4, <1>5, <1>6 DEF KnowledgeNext

\* The ledger and the tombstones only grow, so a verdict stays true.
LEMMA ProbeStays ==
  ASSUME ProbeInv, probe' = probe,
         applied \subseteq applied', purged \subseteq purged', gone \subseteq gone'
  PROVE  ProbeInv'
<1>1. ASSUME probe.verdict = "ready"
      PROVE  \E S \in SUBSET probe.events :
               /\ Cardinality(S) <= MaxLag
               /\ \A r \in probe.created : \A i \in DOMAIN r.claims :
                    \/ proposal(r, i) \in S
                    \/ event_id(proposal(r, i)) \in applied' \cup purged' \cup gone'
  <2>1. PICK S \in SUBSET probe.events :
          /\ Cardinality(S) <= MaxLag
          /\ \A r \in probe.created : \A i \in DOMAIN r.claims :
               \/ proposal(r, i) \in S
               \/ event_id(proposal(r, i)) \in applied \cup purged \cup gone
    BY <1>1 DEF ProbeInv, ReadyServesTheCreated
  <2> QED BY <2>1
<1>2. ReadyServesTheCreated'
  BY <1>1 DEF ReadyServesTheCreated
<1>3. /\ probe'.created \subseteq Requests
      /\ probe'.canonical =>
           \A r \in probe'.created : \A i \in DOMAIN r.claims :
             proposal(r, i) \in probe'.events \/ event_id(proposal(r, i)) \in gone'
  BY DEF ProbeInv
<1> QED BY <1>2, <1>3 DEF ProbeInv

\* The operators and what they published, when neither changes.
LEMMA SwitchesStay ==
  ASSUME SwitchInv, OperatorInv, op \in [Operators -> Held], UNCHANGED <<op, switches>>
  PROVE  SwitchInv' /\ OperatorInv' /\ op' \in [Operators -> Held]
BY DEF SwitchInv, OperatorInv, Uids, Follows

LEMMA ReadinessStep ==
  ASSUME KnowledgeInv, OpsInv, ReadinessNext, UNCHANGED kvars PROVE OpsInv'
<1> USE DEF OpsInv
<1> gone' = gone
  BY DEF kvars, store
<1>1. ASSUME NEW e \in log, Apply(e) PROVE OpsInv'
  BY <1>1, ProbeStays, SwitchesStay DEF Apply
<1>2. ASSUME NEW id \in gone, Purge(id) PROVE OpsInv'
  BY <1>2, ProbeStays, SwitchesStay DEF Purge
<1>3. ASSUME NEW b \in BOOLEAN, ProbeRead(b) PROVE OpsInv'
  <2>1. ReadyServesTheCreated'
    BY <1>3, VerdictAssumption DEF ProbeRead, ReadyServesTheCreated
  <2>2. probe'.created = {r \in Requests : answer[r] = "created"}
    BY <1>3 DEF ProbeRead
  <2>3. probe'.canonical => probe'.events = log
    BY <1>3 DEF ProbeRead
  <2>4. \A r \in probe'.created : \A i \in DOMAIN r.claims : Entered(proposal(r, i))
    BY <2>2 DEF KnowledgeInv, ProgressInv, Answered
  <2>5. ProbeInv'
    BY <2>1, <2>2, <2>3, <2>4 DEF ProbeInv, Entered
  <2> QED BY <1>3, <2>5, SwitchesStay DEF ProbeRead
<1>4. ASSUME NEW b \in BOOLEAN, ProbeDecide(b) PROVE OpsInv'
  <2>1. /\ UNCHANGED <<applied, purged>> /\ probe'.events = probe.events
        /\ probe'.created = probe.created /\ probe'.canonical = probe.canonical
        /\ probe'.verdict = "ready" => probe.canonical /\ lag <= MaxLag
    BY <1>4 DEF ProbeDecide
  <2>2. ASSUME probe'.verdict = "ready"
        PROVE  \E S \in SUBSET probe.events :
                 /\ Cardinality(S) <= MaxLag
                 /\ \A r \in probe.created : \A i \in DOMAIN r.claims :
                      \/ proposal(r, i) \in S
                      \/ event_id(proposal(r, i)) \in applied \cup purged \cup gone
    <3>1. pending_event_ids \in SUBSET probe.events /\ Cardinality(pending_event_ids) <= MaxLag
      BY <2>1, <2>2 DEF pending_event_ids, lag
    <3>2. ASSUME NEW r \in probe.created, NEW i \in DOMAIN r.claims
          PROVE  \/ proposal(r, i) \in pending_event_ids
                 \/ event_id(proposal(r, i)) \in applied \cup purged \cup gone
      <4>1. proposal(r, i) \in probe.events \/ event_id(proposal(r, i)) \in gone
        BY <2>1, <2>2 DEF ProbeInv
      <4> QED BY <4>1 DEF pending_event_ids
    <3> QED BY <3>1, <3>2
  <2>3. ReadyServesTheCreated'
    BY <2>1, <2>2 DEF ReadyServesTheCreated
  <2>4. ProbeInv'
    BY <2>1, <2>3 DEF ProbeInv
  <2> QED BY <1>4, <2>4, SwitchesStay DEF ProbeDecide
<1> QED BY <1>1, <1>2, <1>3, <1>4 DEF ReadinessNext

\* What operator o holds after a step that does not publish.
LEMMA OperatorMoves ==
  ASSUME OpsInv, NEW o \in Operators, NEW g \in Held, op' = [op EXCEPT ![o] = g],
         g.pc = "publish" => g.seen \subseteq Uids /\ Follows(g.from, g.seen),
         UNCHANGED <<applied, purged, probe, switches>>, gone' = gone
  PROVE  OpsInv'
<1>1. op' \in [Operators -> Held] /\ ProbeInv'
  BY ProbeStays DEF OpsInv
<1>2. Uids' = Uids /\ \A from, seen : Follows(from, seen)' <=> Follows(from, seen)
  BY DEF Uids, Follows
<1>3. SwitchInv'
  BY DEF OpsInv, SwitchInv, Uids, Follows
<1>4. OperatorInv'
  <2>1. SUFFICES ASSUME NEW q \in Operators, op'[q].pc = "publish"
                 PROVE  op'[q].seen \subseteq Uids /\ Follows(op'[q].from, op'[q].seen)
    BY DEF OperatorInv, Uids, Follows
  <2>2. CASE q = o
    BY <2>1, <2>2 DEF OpsInv
  <2>3. CASE q # o
    BY <2>1, <2>3 DEF OpsInv, OperatorInv
  <2> QED BY <2>2, <2>3
<1> QED BY <1>1, <1>3, <1>4 DEF OpsInv

LEMMA NoOpWaits == NoOp \in Held /\ NoOp.pc # "publish"
BY DEF NoOp, Held

LEMMA SwitchReadStep ==
  ASSUME OpsInv, gone' = gone, NEW o \in Operators, NEW from \in Slots \cup {None},
         SwitchRead(o, from)
  PROVE  OpsInv'
<1>1. UNCHANGED <<applied, purged, probe, switches>> /\ op[o].pc = "switch"
  BY DEF SwitchRead
<1>2. CASE op' = [op EXCEPT ![o] = NoOp]
  BY <1>1, <1>2, NoOpWaits, OperatorMoves
<1>3. CASE /\ \A x \in active_switch : from = x.to
           /\ op' = [op EXCEPT ![o] = [op[o] EXCEPT !.pc = "publish", !.from = from,
                                                     !.seen = {x.uid : x \in switches}]]
  <2>1. PICK g : g = [op[o] EXCEPT !.pc = "publish", !.from = from,
                                    !.seen = {x.uid : x \in switches}]
    OBVIOUS
  <2>2. op[o] \in Held /\ Uids \in SUBSET Int
    BY DEF OpsInv, SwitchInv, Uids
  <2>3. g \in Held /\ g.from = from /\ g.seen = Uids
    BY <2>1, <2>2 DEF Held, Uids
  <2>4. Follows(from, Uids)
    <3>1. SUFFICES ASSUME NEW x \in switches, \A z \in switches \ {x} : z.uid \in Uids => Later(x, z)
                   PROVE  x \in active_switch
      BY <1>3 DEF Follows
    <3> QED BY <3>1 DEF active_switch, Uids
  <2> QED BY <1>1, <1>3, <2>1, <2>3, <2>4, OperatorMoves
<1> QED BY <1>2, <1>3 DEF SwitchRead

LEMMA MigrationBeginStep ==
  ASSUME KnowledgeInv, OpsInv, gone' = gone, NEW o \in Operators, NEW to \in Slots,
         MigrationBegin(o, to)
  PROVE  OpsInv'
<1>1. PICK g : g = [pc |-> "compare", to |-> to, expected |-> log, from |-> None, seen |-> {}]
  OBVIOUS
<1>2. g \in Held /\ g.pc = "compare"
  BY <1>1 DEF Held, KnowledgeInv, KnowledgeTypeOK
<1>3. op' = [op EXCEPT ![o] = g] /\ UNCHANGED <<applied, purged, probe, switches>>
  BY <1>1 DEF MigrationBegin
<1> QED BY <1>2, <1>3, OperatorMoves

LEMMA CompareStep ==
  ASSUME OpsInv, gone' = gone, NEW o \in Operators, NEW benchmarks, Compare(o, benchmarks)
  PROVE  OpsInv'
<1>1. UNCHANGED <<applied, purged, probe, switches>>
  BY DEF Compare
<1>2. CASE op' = [op EXCEPT ![o] = NoOp]
  BY <1>1, <1>2, NoOpWaits, OperatorMoves
<1>3. CASE op' = [op EXCEPT ![o] = [op[o] EXCEPT !.pc = "switch", !.expected = {}]]
  <2>1. op[o] \in Held
    BY DEF OpsInv
  <2>2. PICK h : h = [op[o] EXCEPT !.pc = "switch", !.expected = {}]
    OBVIOUS
  <2>3. h \in Held /\ h.pc = "switch"
    BY <2>1, <2>2 DEF Held
  <2> QED BY <1>1, <1>3, <2>2, <2>3, OperatorMoves
<1> QED BY <1>2, <1>3 DEF Compare

\* A record published under a new identity is none of those seen before.
LEMMA SwitchPublishStep ==
  ASSUME OpsInv, gone' = gone, NEW o \in Operators, NEW at \in Int, NEW uid \in Int,
         SwitchPublish(o, at, uid)
  PROVE  OpsInv'
<1> USE DEF OpsInv
<1>1. /\ op[o].pc = "publish" /\ UNCHANGED <<applied, purged, probe>>
      /\ op' = [op EXCEPT ![o] = NoOp]
  BY DEF SwitchPublish
<1>2. PICK w : w = Switch(o, at, uid)
  OBVIOUS
<1>3. /\ w.uid = uid /\ w.stamp = at /\ w.from = op[o].from /\ w.seen = op[o].seen
      /\ switches' = switches \cup {w} /\ uid \notin Uids
  BY <1>2 DEF Switch, SwitchPublish, Uids
<1>4. Uids' = Uids \cup {uid}
  BY <1>3 DEF Uids
<1>5. ASSUME NEW from, NEW seen \in SUBSET Uids, Follows(from, seen)
      PROVE  Follows(from, seen)'
  <2>1. SUFFICES ASSUME NEW x \in switches', x.uid \in seen,
                        \A z \in switches' \ {x} : z.uid \in seen => Later(x, z)
                 PROVE  from = x.to
    BY DEF Follows, Later
  <2>2. x \in switches
    BY <1>3, <2>1
  <2> QED BY <1>3, <1>5, <2>1, <2>2 DEF Follows
<1>6. op[o].seen \subseteq Uids /\ Follows(op[o].from, op[o].seen)
  BY <1>1 DEF OperatorInv
<1>7. SwitchInv'
  <2>1. \A x, y \in switches' : x.uid = y.uid => x = y
    BY <1>3 DEF SwitchInv, Uids
  <2>2. ASSUME NEW y \in switches'
        PROVE  /\ y.uid \in Int /\ y.stamp \in Int
               /\ y.seen \subseteq Uids' /\ Follows(y.from, y.seen)'
    <3>1. CASE y = w
      BY <1>3, <1>4, <1>5, <1>6, <3>1
    <3>2. CASE y \in switches
      BY <1>4, <1>5, <3>2 DEF SwitchInv
    <3> QED BY <1>3, <3>1, <3>2
  <2> QED BY <2>1, <2>2 DEF SwitchInv
<1>8. OperatorInv'
  <2>1. SUFFICES ASSUME NEW q \in Operators, (op[q].pc = "publish")'
                 PROVE  (op[q].seen \subseteq Uids /\ Follows(op[q].from, op[q].seen))'
    BY DEF OperatorInv
  <2>2. q # o /\ op'[q] = op[q]
    BY <1>1, <2>1, NoOpWaits
  <2>3. op[q].seen \subseteq Uids /\ Follows(op[q].from, op[q].seen)
    BY <2>1, <2>2 DEF OperatorInv
  <2>4. PICK from, seen : from = op[q].from /\ seen = op[q].seen
    OBVIOUS
  <2>5. Follows(from, seen)'
    BY <1>5, <2>3, <2>4
  <2> QED BY <1>4, <2>2, <2>3, <2>4, <2>5 DEF Follows
<1>9. ProbeInv' /\ op' \in [Operators -> Held]
  BY <1>1, ProbeStays, NoOpWaits
<1> QED BY <1>7, <1>8, <1>9

LEMMA MigrationStep ==
  ASSUME KnowledgeInv, OpsInv, MigrationNext, UNCHANGED kvars PROVE OpsInv'
<1> gone' = gone
  BY DEF kvars, store
<1>1. ASSUME NEW s \in Slots, NEW complete \in BOOLEAN, DestructiveRebuild(s, complete)
      PROVE  OpsInv'
  BY <1>1, ProbeStays, SwitchesStay DEF DestructiveRebuild, OpsInv
<1>2. ASSUME NEW o \in Operators, NEW to \in Slots, MigrationBegin(o, to) PROVE OpsInv'
  BY <1>2, MigrationBeginStep
<1>3. ASSUME NEW o \in Operators, NEW b \in BOOLEAN, Compare(o, b) PROVE OpsInv'
  BY <1>3, CompareStep
<1>4. ASSUME NEW o \in Operators, NEW from \in Slots \cup {None}, SwitchRead(o, from)
      PROVE  OpsInv'
  BY <1>4, SwitchReadStep
<1>5. ASSUME NEW o \in Operators, NEW at \in 1..MaxStamp, NEW uid \in 1..MaxSwitches,
             SwitchPublish(o, at, uid)
      PROVE  OpsInv'
  BY <1>5, SwitchPublishStep
<1> QED BY <1>1, <1>2, <1>3, <1>4, <1>5 DEF MigrationNext

LEMMA OpsStutter == ASSUME OpsInv, UNCHANGED ovars, gone \subseteq gone' PROVE OpsInv'
BY ProbeStays, SwitchesStay DEF ovars, OpsInv

\* Of the records an operator saw, all read before its own, the one just before
\* its own is the latest.
LEMMA OpsMean == ASSUME OpsInv PROVE ProjectionsAreServedRight
<1>1. SwitchesFormAChain
  <2>1. SUFFICES ASSUME NEW x \in switches, NEW y \in switches, RecordedBefore(x, y),
                        ~\E z \in switches : RecordedBefore(x, z) /\ RecordedBefore(z, y),
                        x.uid \in y.seen,
                        \A z \in switches : z.uid \in y.seen => RecordedBefore(z, y)
                 PROVE  y.from = x.to
    BY DEF SwitchesFormAChain
  <2>2. ASSUME NEW z \in switches \ {x}, z.uid \in y.seen PROVE Later(x, z)
    <3>1. RecordedBefore(z, y) /\ ~RecordedBefore(x, z)
      BY <2>1, <2>2
    <3>2. /\ x.uid \in Int /\ x.stamp \in Int /\ z.uid \in Int /\ z.stamp \in Int
          /\ x.uid # z.uid
      BY <2>2 DEF OpsInv, SwitchInv
    <3> QED BY <3>1, <3>2 DEF RecordedBefore, Later
  <2>3. Follows(y.from, y.seen)
    BY DEF OpsInv, SwitchInv
  <2> QED BY <2>1, <2>2, <2>3 DEF Follows
<1> QED BY <1>1 DEF OpsInv, ProbeInv, ProjectionsAreServedRight
-----------------------------------------------------------------------------
(***************************************************************************)
(* Passes over a sequence.  What holds before the first item and after     *)
(* each further one holds after the last.                                  *)
(***************************************************************************)

\* A set of numbers with an element has a least one.
LEMMA LeastNumber ==
  ASSUME NEW T \in SUBSET Nat, T # {}
  PROVE  \E m \in T : \A n \in T : m <= n
<1>1. PICK R : IsWellFoundedOn(R, Nat) /\ \A m, n \in Nat : n < m => <<n, m>> \in R
  <2> DEFINE R == OpToRel(<, Nat)
  <2>1. IsWellFoundedOn(R, Nat)
    BY NatLessThanWellFounded
  <2>2. \A m, n \in Nat : n < m => <<n, m>> \in R
    BY DEF OpToRel
  <2> QED BY <2>1, <2>2
<1>2. PICK m \in T : \A n \in T : <<n, m>> \notin R
  BY <1>1, WFMin
<1>3. ASSUME NEW n \in T PROVE m <= n
  <2>1. ~(n < m)
    BY <1>1, <1>2
  <2> QED BY <2>1
<1> QED BY <1>3

\* A set with i, and with n + 1 when it has n, has all numbers from i to N.
LEMMA Onwards ==
  ASSUME NEW N \in Nat, NEW i \in 0..N, NEW T, i \in T,
         \A n \in i..N : n \in T /\ n < N => n + 1 \in T
  PROVE  i..N \subseteq T
<1> SUFFICES ASSUME ~(i..N \subseteq T) PROVE FALSE
  OBVIOUS
<1> DEFINE Out == {n \in i..N : n \notin T}
<1>1. PICK m \in Out : \A n \in Out : m <= n
  <2>1. Out \in SUBSET Nat /\ Out # {}
    OBVIOUS
  <2> QED BY <2>1, LeastNumber
<1>2. m # i /\ m - 1 \in i..N /\ m - 1 < N
  OBVIOUS
<1>3. m - 1 \in T
  <2>1. m - 1 \notin Out
    BY <1>1, <1>2
  <2> QED BY <2>1, <1>2
<1> QED BY <1>2, <1>3

-----------------------------------------------------------------------------
(***************************************************************************)
(* Replay: what one event does to a knowledge state                        *)
(***************************************************************************)

\* A history and one that continues it.
Begins(h, g) == Len(h) <= Len(g) /\ \A i \in 1..Len(h) : h[i] = g[i]

IsHistory(h, States) == h \in Seq(States) /\ h # <<>>

IsRelation(rel) ==
  DOMAIN rel = {"type", "source", "target", "history"} /\ IsHistory(rel.history, RELATION_STATES)

ClaimsFormed(claims) == \A c \in DOMAIN claims : IsHistory(claims[c], CLAIM_STATES)
RelationsFormed(relations) ==
  IsFiniteSet(DOMAIN relations) /\ \A r \in DOMAIN relations : IsRelation(relations[r])

IsState(s) ==
  /\ DOMAIN s = {"claims", "relations", "raised"}
  /\ ClaimsFormed(s.claims) /\ RelationsFormed(s.relations)

LEMMA LifecycleKinds ==
  /\ DOMAIN ClaimContracts = {"claim.proposed", "claim.state_changed", "claim.superseded"}
  /\ DOMAIN RelationContracts = {"relation.proposed", "relation.state_changed", "relation.superseded"}
BY DEF ClaimContracts, RelationContracts

LEMMA OneMore ==
  ASSUME NEW h, NEW States, IsHistory(h, States), NEW x \in States
  PROVE  LET g == Append(h, x)
         IN  IsHistory(g, States) /\ Begins(h, g) /\ Last(g) = x
BY DEF IsHistory, Begins, Last

LEMMA ManyMore ==
  ASSUME NEW h, NEW States, IsHistory(h, States), NEW x \in States, NEW k \in Nat
  PROVE  LET g == h \o [i \in 1..k |-> x]
         IN  /\ IsHistory(g, States) /\ Begins(h, g)
             /\ IF k = 0 THEN g = h ELSE Last(g) = x
<1> DEFINE m == [i \in 1..k |-> x]
           g == h \o m
<1>1. m \in Seq(States) /\ Len(m) = k
  OBVIOUS
<1>2. /\ g \in Seq(States) /\ Len(g) = Len(h) + k
      /\ \A i \in 1..Len(g) : g[i] = IF i <= Len(h) THEN h[i] ELSE m[i - Len(h)]
  BY <1>1 DEF IsHistory
<1>3. h \in Seq(States) /\ Len(h) \in Nat /\ Len(h) # 0
  BY DEF IsHistory
<1> HIDE DEF g
<1>4. IsHistory(g, States) /\ Begins(h, g)
  BY <1>2, <1>3 DEF IsHistory, Begins
<1>5. k = 0 => g = h
  BY <1>2, <1>3
<1>6. k # 0 => Last(g) = x
  <2>1. k # 0 => g[Len(g)] = m[k] /\ m[k] = x
    BY <1>2, <1>3
  <2> QED BY <2>1 DEF Last
<1> QED BY <1>4, <1>5, <1>6 DEF g

LEMMA SameHistory ==
  ASSUME NEW h, NEW States, IsHistory(h, States)
  PROVE  Begins(h, h)
BY DEF IsHistory, Begins

\* What an event does to the claims.  c is the claim it names.
ClaimMoves(s, e, t) ==
  LET subject == e.subjects[1]
  IN  /\ DOMAIN s.claims \subseteq DOMAIN t.claims
      /\ \A c \in DOMAIN t.claims \ DOMAIN s.claims : e.kind = "claim.proposed" /\ c = subject
      /\ e.kind = "claim.proposed" => subject \in DOMAIN t.claims \ DOMAIN s.claims
      /\ \A c \in DOMAIN s.claims : Begins(s.claims[c], t.claims[c])
      /\ \A c \in DOMAIN s.claims : ~About(e, c) =>
           \/ claim_state(t, c) = claim_state(s, c)
           \/ claim_state(s, c) \notin TERMINAL /\ claim_state(t, c) = "stale_pending_review"
      /\ e.kind = "claim.state_changed" =>
           subject \in DOMAIN t.claims /\ claim_state(t, subject) = e.payload.to_state
      /\ e.kind = "claim.superseded" =>
           subject \in DOMAIN t.claims /\ claim_state(t, subject) = "superseded"

Waiting == TERMINAL \cup {"stale_pending_review"}

\* A superseded premise leaves its dependents waiting.
PremiseFalls(s, e, t) ==
  e.kind = "claim.superseded" =>
    \A r \in DOMAIN t.relations :
      /\ t.relations[r].type = "DEPENDS_ON" /\ relation_state(t, r) = "active"
      /\ t.relations[r].target = e.subjects[1] /\ t.relations[r].source \in DOMAIN t.claims
      => claim_state(t, t.relations[r].source) \in Waiting

RelationMoves(s, e, t) ==
  LET p == e.payload
  IN  /\ DOMAIN s.relations \subseteq DOMAIN t.relations
      /\ \A r \in DOMAIN t.relations \ DOMAIN s.relations :
           /\ e.kind = "relation.proposed" /\ r = p.relation_id
           /\ relation_state(t, r) = IF "state" \in DOMAIN p THEN p.state ELSE "proposed"
      /\ e.kind = "relation.proposed" => p.relation_id \in DOMAIN t.relations \ DOMAIN s.relations
      /\ \A r \in DOMAIN s.relations :
           /\ Begins(s.relations[r].history, t.relations[r].history)
           /\ ~Moves(e, r) => t.relations[r] = s.relations[r]
           /\ relation_state(t, r) = "active" /\ relation_state(s, r) # "active" =>
                /\ e.kind = "relation.state_changed" /\ r = p.relation_id
                /\ p.to_state = "active"

\* One event, when it does not end in an error.
Advance(s, e, t) ==
  /\ ~s.raised /\ IsState(t)
  /\ ClaimMoves(s, e, t) /\ PremiseFalls(s, e, t) /\ RelationMoves(s, e, t)

LEMMA StateFields ==
  ASSUME NEW s, IsState(s), NEW x
  PROVE  /\ DOMAIN Raise(s) = {"claims", "relations", "raised"} /\ Raise(s).raised
         /\ Raise(s).claims = s.claims /\ Raise(s).relations = s.relations
         /\ [s EXCEPT !.claims = x].claims = x /\ [s EXCEPT !.claims = x].relations = s.relations
         /\ [s EXCEPT !.claims = x].raised = s.raised
         /\ DOMAIN [s EXCEPT !.claims = x] = {"claims", "relations", "raised"}
         /\ [s EXCEPT !.relations = x].relations = x /\ [s EXCEPT !.relations = x].claims = s.claims
         /\ [s EXCEPT !.relations = x].raised = s.raised
         /\ DOMAIN [s EXCEPT !.relations = x] = {"claims", "relations", "raised"}
BY DEF IsState, Raise

\* Histories are not empty, and every history begins itself.
LEMMA KeptHistories ==
  ASSUME NEW s, IsState(s)
  PROVE  /\ \A c \in DOMAIN s.claims : Begins(s.claims[c], s.claims[c])
         /\ \A r \in DOMAIN s.relations : Begins(s.relations[r].history, s.relations[r].history)
BY SameHistory DEF IsState, ClaimsFormed, RelationsFormed, IsRelation

LEMMA Proposed ==
  ASSUME NEW s, IsState(s), NEW e, NEW t, t = apply(s, e), ~t.raised, ~s.raised,
         e.kind = "claim.proposed"
  PROVE  Advance(s, e, t)
<1> DEFINE subject == e.subjects[1]
           new == With(s.claims, subject, <<"proposed">>)
<1>1. t = [s EXCEPT !.claims = new] /\ subject \notin DOMAIN s.claims
  BY StateFields DEF apply
<1>2. t.claims = new /\ t.relations = s.relations /\ ~t.raised
      /\ DOMAIN t = {"claims", "relations", "raised"}
  BY <1>1, StateFields
<1>3. /\ DOMAIN new = DOMAIN s.claims \cup {subject} /\ new[subject] = <<"proposed">>
      /\ \A c \in DOMAIN s.claims : new[c] = s.claims[c]
  BY <1>1 DEF With
<1>4. IsHistory(<<"proposed">>, CLAIM_STATES)
  BY DEF IsHistory, CLAIM_STATES
<1> HIDE DEF new
<1>5. IsState(t)
  BY <1>2, <1>3, <1>4 DEF IsState, ClaimsFormed
<1>6. ClaimMoves(s, e, t)
  BY <1>1, <1>2, <1>3, KeptHistories DEF ClaimMoves, claim_state
<1>7. RelationMoves(s, e, t) /\ PremiseFalls(s, e, t)
  BY <1>2, KeptHistories DEF RelationMoves, PremiseFalls, relation_state
<1> QED BY <1>5, <1>6, <1>7 DEF Advance

\* change_claim, when it does not raise.
LEMMA ClaimChanged ==
  ASSUME NEW s, IsState(s), ~s.raised, NEW c, NEW to, NEW expected, NEW t,
         t = change_claim(s, c, to, expected), ~t.raised
  PROVE  /\ c \in DOMAIN s.claims /\ to \in CLAIM_STATES
         /\ IsState(t) /\ t.relations = s.relations /\ DOMAIN t.claims = DOMAIN s.claims
         /\ \A d \in DOMAIN s.claims : Begins(s.claims[d], t.claims[d])
         /\ \A d \in DOMAIN s.claims \ {c} : t.claims[d] = s.claims[d]
         /\ claim_state(t, c) = to
<1> DEFINE new == With(s.claims, c, Append(s.claims[c], to))
<1>1. t = [s EXCEPT !.claims = new] /\ c \in DOMAIN s.claims /\ to \in CLAIM_STATES
  BY StateFields DEF change_claim
<1>2. t.claims = new /\ t.relations = s.relations /\ ~t.raised
      /\ DOMAIN t = {"claims", "relations", "raised"}
  BY <1>1, StateFields
<1>3. /\ DOMAIN new = DOMAIN s.claims /\ new[c] = Append(s.claims[c], to)
      /\ \A d \in DOMAIN s.claims \ {c} : new[d] = s.claims[d]
  BY <1>1 DEF With
<1>4. /\ IsHistory(new[c], CLAIM_STATES) /\ Begins(s.claims[c], new[c]) /\ Last(new[c]) = to
  BY <1>1, <1>3, OneMore DEF IsState, ClaimsFormed
<1> HIDE DEF new
<1>5. IsState(t)
  BY <1>2, <1>3, <1>4 DEF IsState, ClaimsFormed
<1>6. \A d \in DOMAIN s.claims : Begins(s.claims[d], t.claims[d])
  BY <1>2, <1>3, <1>4, KeptHistories
<1> QED BY <1>1, <1>2, <1>3, <1>4, <1>5, <1>6 DEF claim_state

LEMMA StateChanged ==
  ASSUME NEW s, IsState(s), NEW e, NEW t, t = apply(s, e), ~t.raised, ~s.raised,
         e.kind = "claim.state_changed"
  PROVE  Advance(s, e, t)
<1>1. t = change_claim(s, e.subjects[1], e.payload.to_state, Field(e.payload, "from_state"))
  BY DEF apply
<1>2. /\ e.subjects[1] \in DOMAIN s.claims
      /\ IsState(t) /\ t.relations = s.relations /\ DOMAIN t.claims = DOMAIN s.claims
      /\ \A d \in DOMAIN s.claims : Begins(s.claims[d], t.claims[d])
      /\ \A d \in DOMAIN s.claims \ {e.subjects[1]} : t.claims[d] = s.claims[d]
      /\ claim_state(t, e.subjects[1]) = e.payload.to_state
  BY <1>1, ClaimChanged
<1>3. ClaimMoves(s, e, t)
  BY <1>2, LifecycleKinds DEF ClaimMoves, About, claim_state
<1>4. RelationMoves(s, e, t) /\ PremiseFalls(s, e, t)
  BY <1>2, KeptHistories DEF RelationMoves, PremiseFalls, relation_state
<1> QED BY <1>2, <1>3, <1>4 DEF Advance

\* mark_dependents_stale: claims that are not terminal and depend on the
\* premise wait, the others keep their histories.
LEMMA Marked ==
  ASSUME NEW u, IsState(u), ~u.raised, NEW premise, NEW t, t = mark_dependents_stale(u, premise)
  PROVE  /\ IsState(t) /\ ~t.raised /\ t.relations = u.relations /\ DOMAIN t.claims = DOMAIN u.claims
         /\ \A c \in DOMAIN u.claims :
              /\ Begins(u.claims[c], t.claims[c])
              /\ IF Dependencies(u, premise, c) = {} THEN t.claims[c] = u.claims[c]
                 ELSE claim_state(t, c) = "stale_pending_review"
<1> DEFINE k(c) == Cardinality(Dependencies(u, premise, c))
           new == [c \in DOMAIN u.claims |-> u.claims[c] \o [i \in 1..k(c) |-> "stale_pending_review"]]
<1>1. t = [u EXCEPT !.claims = new]
  BY DEF mark_dependents_stale
<1>2. t.claims = new /\ t.relations = u.relations /\ ~t.raised
      /\ DOMAIN t = {"claims", "relations", "raised"}
  BY <1>1, StateFields
<1>3. ASSUME NEW c \in DOMAIN u.claims
      PROVE  /\ IsHistory(new[c], CLAIM_STATES) /\ Begins(u.claims[c], new[c])
             /\ IF Dependencies(u, premise, c) = {} THEN new[c] = u.claims[c]
                ELSE Last(new[c]) = "stale_pending_review"
  <2>1. Dependencies(u, premise, c) \in SUBSET DOMAIN u.relations
    BY DEF Dependencies
  <2>2. IsFiniteSet(Dependencies(u, premise, c))
    BY <2>1, FS_Subset DEF IsState, RelationsFormed
  <2>3. k(c) \in Nat /\ (k(c) = 0 <=> Dependencies(u, premise, c) = {})
    BY <2>2, FS_CardinalityType, FS_EmptySet
  <2>4. IsHistory(u.claims[c], CLAIM_STATES) /\ "stale_pending_review" \in CLAIM_STATES
    BY DEF IsState, ClaimsFormed, CLAIM_STATES
  <2>5. new[c] = u.claims[c] \o [i \in 1..k(c) |-> "stale_pending_review"]
    OBVIOUS
  <2> HIDE DEF k, new
  <2>6. /\ IsHistory(new[c], CLAIM_STATES) /\ Begins(u.claims[c], new[c])
        /\ IF k(c) = 0 THEN new[c] = u.claims[c] ELSE Last(new[c]) = "stale_pending_review"
    BY <2>3, <2>4, <2>5, ManyMore
  <2> QED BY <2>3, <2>6
<1>4. DOMAIN new = DOMAIN u.claims
  OBVIOUS
<1> HIDE DEF new
<1>5. IsState(t)
  BY <1>2, <1>3, <1>4 DEF IsState, ClaimsFormed
<1> QED BY <1>2, <1>3, <1>4, <1>5 DEF claim_state

LEMMA ClaimSuperseded ==
  ASSUME NEW s, IsState(s), NEW e, NEW t, t = apply(s, e), ~t.raised, ~s.raised,
         e.kind = "claim.superseded"
  PROVE  Advance(s, e, t)
<1> DEFINE premise == e.subjects[1]
<1>0. PICK u : u = change_claim(s, premise, "superseded", Field(e.payload, "from_state"))
  OBVIOUS
<1>1. t = mark_dependents_stale(u, premise)
  BY <1>0 DEF apply
<1>2. ~u.raised
  BY <1>1 DEF mark_dependents_stale
<1>3. /\ premise \in DOMAIN s.claims
      /\ IsState(u) /\ u.relations = s.relations /\ DOMAIN u.claims = DOMAIN s.claims
      /\ \A d \in DOMAIN s.claims : Begins(s.claims[d], u.claims[d])
      /\ \A d \in DOMAIN s.claims \ {premise} : u.claims[d] = s.claims[d]
      /\ claim_state(u, premise) = "superseded"
  BY <1>0, <1>2, ClaimChanged
<1>4. /\ IsState(t) /\ t.relations = u.relations /\ DOMAIN t.claims = DOMAIN u.claims
      /\ \A c \in DOMAIN u.claims :
           /\ Begins(u.claims[c], t.claims[c])
           /\ IF Dependencies(u, premise, c) = {} THEN t.claims[c] = u.claims[c]
              ELSE claim_state(t, c) = "stale_pending_review"
  BY <1>1, <1>2, <1>3, Marked
<1>5. ASSUME NEW c \in DOMAIN s.claims
      PROVE  /\ claim_state(u, c) \in TERMINAL => claim_state(t, c) = claim_state(u, c)
             /\ \/ claim_state(t, c) = claim_state(u, c)
                \/ claim_state(u, c) \notin TERMINAL /\ claim_state(t, c) = "stale_pending_review"
  <2>1. claim_state(u, c) \in TERMINAL => Dependencies(u, premise, c) = {}
    BY DEF Dependencies
  <2>2. Dependencies(u, premise, c) = {} => claim_state(t, c) = claim_state(u, c)
    BY <1>3, <1>4 DEF claim_state
  <2> QED BY <2>1, <2>2, <1>3, <1>4
<1>6. ASSUME NEW c \in DOMAIN s.claims PROVE Begins(s.claims[c], t.claims[c])
  <2>1. /\ IsHistory(s.claims[c], CLAIM_STATES) /\ IsHistory(u.claims[c], CLAIM_STATES)
        /\ IsHistory(t.claims[c], CLAIM_STATES)
    BY <1>3, <1>4 DEF IsState, ClaimsFormed
  <2>2. Begins(s.claims[c], u.claims[c]) /\ Begins(u.claims[c], t.claims[c])
    BY <1>3, <1>4
  <2> QED BY <2>1, <2>2 DEF Begins, IsHistory
<1>7. ClaimMoves(s, e, t)
  <2>1. \A c \in DOMAIN s.claims : ~About(e, c) => claim_state(u, c) = claim_state(s, c)
    BY <1>3, LifecycleKinds DEF About, claim_state
  <2>2. claim_state(t, premise) = "superseded"
    BY <1>3, <1>5 DEF TERMINAL
  <2> QED BY <1>3, <1>4, <1>5, <1>6, <2>1, <2>2 DEF ClaimMoves
<1>8. RelationMoves(s, e, t)
  BY <1>3, <1>4, KeptHistories DEF RelationMoves, relation_state
<1>9. PremiseFalls(s, e, t)
  <2> SUFFICES ASSUME NEW r \in DOMAIN t.relations,
                      t.relations[r].type = "DEPENDS_ON", relation_state(t, r) = "active",
                      t.relations[r].target = premise, t.relations[r].source \in DOMAIN t.claims
               PROVE  claim_state(t, t.relations[r].source) \in Waiting
    BY DEF PremiseFalls
  <2> DEFINE c == t.relations[r].source
  <2>1. claim_state(u, c) \notin TERMINAL => r \in Dependencies(u, premise, c)
    BY <1>4 DEF Dependencies, relation_state
  <2>2. c \in DOMAIN s.claims /\ c \in DOMAIN u.claims
    BY <1>3, <1>4
  <2>3. CASE claim_state(u, c) \in TERMINAL
    BY <2>2, <2>3, <1>5 DEF Waiting
  <2>4. CASE claim_state(u, c) \notin TERMINAL
    BY <2>1, <2>2, <2>4, <1>4 DEF Waiting
  <2> QED BY <2>3, <2>4
<1> QED BY <1>4, <1>7, <1>8, <1>9 DEF Advance

LEMMA RelationProposed ==
  ASSUME NEW s, IsState(s), NEW e, NEW t, t = apply(s, e), ~t.raised, ~s.raised,
         e.kind = "relation.proposed"
  PROVE  Advance(s, e, t)
<1> DEFINE p == e.payload
           state == IF "state" \in DOMAIN p THEN p.state ELSE "proposed"
           rel == [type |-> p.relation_type, source |-> p.source_ref,
                   target |-> p.target_ref, history |-> <<state>>]
           new == With(s.relations, p.relation_id, rel)
<1>0. t = propose_relation(s, p)
  BY DEF apply
<1>1. /\ t = [s EXCEPT !.relations = new]
      /\ p.relation_id \notin DOMAIN s.relations /\ state \in RELATION_STATES
  BY <1>0, StateFields DEF propose_relation
<1>2. t.claims = s.claims /\ t.relations = new /\ ~t.raised
      /\ DOMAIN t = {"claims", "relations", "raised"}
  BY <1>1, StateFields
<1>3. /\ DOMAIN new = DOMAIN s.relations \cup {p.relation_id} /\ new[p.relation_id] = rel
      /\ \A r \in DOMAIN s.relations : new[r] = s.relations[r]
  BY <1>1 DEF With
<1>4. IsRelation(rel) /\ Last(rel.history) = state
  BY <1>1 DEF IsRelation, IsHistory, Last
<1> HIDE DEF new, rel
<1>5. IsFiniteSet(DOMAIN new)
  BY <1>3, FS_AddElement DEF IsState, RelationsFormed
<1>6. IsState(t)
  BY <1>2, <1>3, <1>4, <1>5 DEF IsState, RelationsFormed
<1>7. ClaimMoves(s, e, t) /\ PremiseFalls(s, e, t)
  BY <1>2, KeptHistories DEF ClaimMoves, PremiseFalls, claim_state
<1>8. RelationMoves(s, e, t)
  BY <1>1, <1>2, <1>3, <1>4, KeptHistories DEF RelationMoves, relation_state
<1> QED BY <1>6, <1>7, <1>8 DEF Advance

\* change_relation, when it does not raise.
LEMMA RelationChanged ==
  ASSUME NEW s, IsState(s), ~s.raised, NEW p, NEW to, NEW t, t = change_relation(s, p, to), ~t.raised
  PROVE  /\ IsState(t) /\ t.claims = s.claims /\ DOMAIN t.relations = DOMAIN s.relations
         /\ \A r \in DOMAIN s.relations : Begins(s.relations[r].history, t.relations[r].history)
         /\ \A r \in DOMAIN s.relations \ {p.relation_id} : t.relations[r] = s.relations[r]
         /\ p.relation_id \in DOMAIN s.relations /\ relation_state(t, p.relation_id) = to
<1> DEFINE r == s.relations[p.relation_id]
           rel == [r EXCEPT !.history = Append(r.history, to)]
           new == With(s.relations, p.relation_id, rel)
<1>1. t = [s EXCEPT !.relations = new] /\ p.relation_id \in DOMAIN s.relations /\ to \in RELATION_STATES
  BY StateFields DEF change_relation
<1>2. t.claims = s.claims /\ t.relations = new /\ ~t.raised
      /\ DOMAIN t = {"claims", "relations", "raised"}
  BY <1>1, StateFields
<1>3. /\ DOMAIN new = DOMAIN s.relations /\ new[p.relation_id] = rel
      /\ \A x \in DOMAIN s.relations \ {p.relation_id} : new[x] = s.relations[x]
  BY <1>1 DEF With
<1>4. IsRelation(r)
  BY <1>1 DEF IsState, RelationsFormed
<1>5. /\ IsHistory(Append(r.history, to), RELATION_STATES)
      /\ Begins(r.history, Append(r.history, to)) /\ Last(Append(r.history, to)) = to
  BY <1>1, <1>4, OneMore DEF IsRelation
<1>6. rel.history = Append(r.history, to) /\ DOMAIN rel = DOMAIN r
  BY <1>4 DEF IsRelation
<1>7. IsRelation(rel) /\ Begins(r.history, rel.history) /\ Last(rel.history) = to
  BY <1>4, <1>5, <1>6 DEF IsRelation
<1> HIDE DEF new, rel
<1>8. IsState(t)
  BY <1>2, <1>3, <1>7 DEF IsState, RelationsFormed
<1>9. \A x \in DOMAIN s.relations : Begins(s.relations[x].history, t.relations[x].history)
  BY <1>2, <1>3, <1>7, KeptHistories
<1> QED BY <1>1, <1>2, <1>3, <1>7, <1>8, <1>9 DEF relation_state

LEMMA RelationMoved ==
  ASSUME NEW s, IsState(s), NEW e, NEW t, t = apply(s, e), ~t.raised, ~s.raised,
         e.kind \in {"relation.state_changed", "relation.superseded"}
  PROVE  Advance(s, e, t)
<1> DEFINE p == e.payload
<1>1. PICK to : /\ t = change_relation(s, p, to)
                /\ e.kind = "relation.state_changed" => to = p.to_state
                /\ e.kind = "relation.superseded" => to = "superseded"
  <2>1. CASE e.kind = "relation.state_changed"
    <3>1. t = change_relation(s, p, p.to_state)
      BY <2>1 DEF apply
    <3> QED BY <2>1, <3>1
  <2>2. CASE e.kind = "relation.superseded"
    <3>1. t = change_relation(s, p, "superseded")
      BY <2>2 DEF apply
    <3> QED BY <2>2, <3>1
  <2> QED BY <2>1, <2>2
<1>2. /\ IsState(t) /\ t.claims = s.claims /\ DOMAIN t.relations = DOMAIN s.relations
      /\ \A r \in DOMAIN s.relations : Begins(s.relations[r].history, t.relations[r].history)
      /\ \A r \in DOMAIN s.relations \ {p.relation_id} : t.relations[r] = s.relations[r]
      /\ p.relation_id \in DOMAIN s.relations /\ relation_state(t, p.relation_id) = to
  BY <1>1, RelationChanged
<1>3. ClaimMoves(s, e, t) /\ PremiseFalls(s, e, t)
  BY <1>2, KeptHistories DEF ClaimMoves, PremiseFalls, claim_state
<1>4. \A r \in DOMAIN s.relations : ~Moves(e, r) => t.relations[r] = s.relations[r]
  BY <1>2, LifecycleKinds DEF Moves
<1>5. \A r \in DOMAIN s.relations : relation_state(t, r) = "active" /\ relation_state(s, r) # "active" =>
        e.kind = "relation.state_changed" /\ r = p.relation_id /\ p.to_state = "active"
  BY <1>1, <1>2 DEF relation_state
<1>6. RelationMoves(s, e, t)
  BY <1>2, <1>4, <1>5 DEF RelationMoves
<1> QED BY <1>2, <1>3, <1>6 DEF Advance

\* One event of a replay that does not end in an error there.
LEMMA OneEvent ==
  ASSUME NEW s, IsState(s), NEW e, NEW t, t = apply(s, e), ~t.raised
  PROVE  Advance(s, e, t)
<1>1. ~s.raised
  BY DEF apply
<1>2. CASE e.kind \notin {"claim.proposed", "claim.state_changed", "claim.superseded",
                          "relation.proposed", "relation.state_changed", "relation.superseded"}
  <2>1. t = s
    BY <1>1, <1>2 DEF apply
  <2>2. ClaimMoves(s, e, t) /\ RelationMoves(s, e, t) /\ PremiseFalls(s, e, t)
    BY <1>2, <2>1, KeptHistories DEF ClaimMoves, RelationMoves, PremiseFalls
  <2> QED BY <1>1, <2>1, <2>2 DEF Advance
<1> QED BY <1>1, <1>2, Proposed, StateChanged, ClaimSuperseded, RelationProposed, RelationMoved

-----------------------------------------------------------------------------
(***************************************************************************)
(* Replay: the states on the way                                           *)
(***************************************************************************)

\* s are the states after 0, 1, .. N events.
Replaying(s, N, events) ==
  s = [n \in 0..N |-> IF n = 0 THEN EmptyState ELSE apply(s[n - 1], events[n])]

LEMMA ReplayingExists ==
  ASSUME NEW events, NEW N \in Nat
  PROVE  \E s : Replaying(s, N, events)
<1> DEFINE T == {n \in 0..N : \E s : Replaying(s, n, events)}
<1>1. 0 \in T
  <2> DEFINE s == [n \in 0..0 |-> EmptyState]
  <2>1. Replaying(s, 0, events)
    BY DEF Replaying
  <2> QED BY <2>1
<1>2. ASSUME NEW n \in 0..N, n \in T, n < N PROVE n + 1 \in T
  <2>1. PICK s : Replaying(s, n, events)
    BY <1>2
  <2> DEFINE t == [k \in 0..(n + 1) |-> IF k = n + 1 THEN apply(s[n], events[n + 1]) ELSE s[k]]
  <2>2. ASSUME NEW k \in 0..(n + 1)
        PROVE  t[k] = IF k = 0 THEN EmptyState ELSE apply(t[k - 1], events[k])
    <3>1. \A j \in 0..n : s[j] = IF j = 0 THEN EmptyState ELSE apply(s[j - 1], events[j])
      BY <2>1 DEF Replaying
    <3>2. CASE k = 0
      BY <3>1, <3>2
    <3>3. CASE k = n + 1
      BY <3>3
    <3>4. CASE k # 0 /\ k # n + 1
      <4>1. k \in 0..n /\ k - 1 \in 0..n /\ k - 1 # n + 1 /\ k - 1 \in 0..(n + 1)
        BY <3>4
      <4> QED BY <4>1, <3>1, <3>4
    <3> QED BY <3>2, <3>3, <3>4
  <2>3. Replaying(t, n + 1, events)
    <3>1. t = [k \in 0..(n + 1) |-> t[k]]
      OBVIOUS
    <3> HIDE DEF t
    <3> QED BY <3>1, <2>2 DEF Replaying
  <2>4. n + 1 \in 0..N
    BY <1>2
  <2> QED BY <2>3, <2>4
<1>3. 0..N \subseteq T
  <2> HIDE DEF T
  <2> QED BY <1>1, <1>2, Onwards
<1> QED BY <1>3

LEMMA ReplayIs ==
  ASSUME NEW events, Len(events) \in Nat
  PROVE  \E s : Replaying(s, Len(events), events) /\ replay(events) = s[Len(events)]
<1>1. \E s : Replaying(s, Len(events), events)
  BY ReplayingExists
<1> DEFINE s == CHOOSE s : s = [n \in 0..Len(events) |->
                   IF n = 0 THEN EmptyState ELSE apply(s[n - 1], events[n])]
<1>2. s = [n \in 0..Len(events) |-> IF n = 0 THEN EmptyState ELSE apply(s[n - 1], events[n])]
  BY <1>1 DEF Replaying
<1>3. replay(events) = s[Len(events)]
  BY DEF replay
<1> QED BY <1>2, <1>3 DEF Replaying

\* A replay that has not ended in an error.
Journey(s, N, events) ==
  /\ \A n \in 0..N : ~s[n].raised /\ IsState(s[n])
  /\ s[0] = EmptyState
  /\ \A n \in 0..N : n < N => Advance(s[n], events[n + 1], s[n + 1])

LEMMA EmptyIsState == IsState(EmptyState) /\ ~EmptyState.raised
<1>1. DOMAIN <<>> = {}
  OBVIOUS
<1> QED BY <1>1, FS_EmptySet DEF IsState, EmptyState, ClaimsFormed, RelationsFormed

LEMMA ReplayJourney ==
  ASSUME NEW N \in Nat, NEW events, NEW s, Replaying(s, N, events), ~s[N].raised
  PROVE  Journey(s, N, events)
<1>0. \A n \in 0..N : s[n] = IF n = 0 THEN EmptyState ELSE apply(s[n - 1], events[n])
  BY DEF Replaying
<1>1. ASSUME NEW n \in 0..N, n < N
      PROVE  /\ n + 1 \in 0..N /\ s[n + 1] = apply(s[n], events[n + 1])
             /\ s[n].raised => s[n + 1].raised
  <2>1. n + 1 \in 0..N /\ n + 1 # 0 /\ (n + 1) - 1 = n
    BY <1>1
  <2>2. s[n + 1] = apply(s[n], events[n + 1])
    BY <2>1, <1>0
  <2> QED BY <2>1, <2>2 DEF apply
<1>2. ASSUME NEW n \in 0..N PROVE ~s[n].raised
  <2> SUFFICES ASSUME s[n].raised PROVE FALSE
    OBVIOUS
  <2> DEFINE T == {m \in 0..N : s[m].raised}
  <2>1. n..N \subseteq T
    <3>1. \A m \in n..N : m \in T /\ m < N => m + 1 \in T
      BY <1>1
    <3>2. n \in T
      OBVIOUS
    <3> HIDE DEF T
    <3> QED BY <3>1, <3>2, Onwards
  <2> QED BY <2>1
<1>3. \A n \in 0..N : IsState(s[n])
  <2> DEFINE T == {m \in 0..N : IsState(s[m])}
  <2>1. 0 \in T
    BY <1>0, EmptyIsState
  <2>2. ASSUME NEW m \in 0..N, m \in T, m < N PROVE m + 1 \in T
    <3>1. m + 1 \in 0..N /\ s[m + 1] = apply(s[m], events[m + 1]) /\ ~s[m + 1].raised
      BY <1>1, <1>2, <2>2
    <3>2. Advance(s[m], events[m + 1], s[m + 1])
      BY <3>1, <2>2, OneEvent
    <3> QED BY <3>1, <3>2 DEF Advance
  <2>3. 0..N \subseteq T
    <3> HIDE DEF T
    <3> QED BY <2>1, <2>2, Onwards
  <2> QED BY <2>3
<1>4. ASSUME NEW n \in 0..N, n < N PROVE Advance(s[n], events[n + 1], s[n + 1])
  BY <1>1, <1>2, <1>3, <1>4, OneEvent
<1> QED BY <1>0, <1>2, <1>3, <1>4 DEF Journey

\* Every claim and relation was proposed on the way, and a relation is active
\* only if an event made it so.
MadeActive(e, r) ==
  \/ e.kind = "relation.proposed" /\ "state" \in DOMAIN e.payload /\ e.payload.state = "active"
  \/ e.kind = "relation.state_changed" /\ e.payload.relation_id = r /\ e.payload.to_state = "active"

HasOrigins(s, n, events) ==
  /\ \A c \in DOMAIN s.claims : \E j \in 1..n :
       events[j].kind = "claim.proposed" /\ events[j].subjects[1] = c
  /\ \A r \in DOMAIN s.relations : \E j \in 1..n :
       events[j].kind = "relation.proposed" /\ events[j].payload.relation_id = r
  /\ \A r \in DOMAIN s.relations : relation_state(s, r) = "active" =>
       \E j \in 1..n : MadeActive(events[j], r)

LEMMA JourneyOrigins ==
  ASSUME NEW N \in Nat, NEW events, NEW s, Journey(s, N, events)
  PROVE  \A n \in 0..N : HasOrigins(s[n], n, events)
<1> DEFINE T == {n \in 0..N : HasOrigins(s[n], n, events)}
<1>1. 0 \in T
  <2>1. DOMAIN EmptyState.claims = {} /\ DOMAIN EmptyState.relations = {}
    BY DEF EmptyState
  <2> QED BY <2>1 DEF Journey, HasOrigins
<1>2. ASSUME NEW n \in 0..N, n \in T, n < N PROVE n + 1 \in T
  <2> DEFINE e == events[n + 1]
  <2>1. n + 1 \in 0..N /\ n + 1 \in 1..(n + 1) /\ 1..n \subseteq 1..(n + 1)
    BY <1>2
  <2>2. HasOrigins(s[n], n, events)
    BY <1>2
  <2>3. ClaimMoves(s[n], e, s[n + 1]) /\ RelationMoves(s[n], e, s[n + 1])
    BY <1>2 DEF Journey, Advance
  <2>4. ASSUME NEW c \in DOMAIN s[n + 1].claims
        PROVE  \E j \in 1..(n + 1) : events[j].kind = "claim.proposed" /\ events[j].subjects[1] = c
    <3>1. CASE c \in DOMAIN s[n].claims
      BY <2>1, <2>2, <3>1 DEF HasOrigins
    <3>2. CASE c \notin DOMAIN s[n].claims
      BY <2>1, <2>3, <3>2 DEF ClaimMoves
    <3> QED BY <3>1, <3>2
  <2>5. ASSUME NEW r \in DOMAIN s[n + 1].relations
        PROVE  /\ \E j \in 1..(n + 1) :
                    events[j].kind = "relation.proposed" /\ events[j].payload.relation_id = r
               /\ relation_state(s[n + 1], r) = "active" =>
                    \E j \in 1..(n + 1) : MadeActive(events[j], r)
    <3>1. CASE r \in DOMAIN s[n].relations
      <4>1. \E j \in 1..(n + 1) :
              events[j].kind = "relation.proposed" /\ events[j].payload.relation_id = r
        BY <2>1, <2>2, <3>1 DEF HasOrigins
      <4>2. CASE relation_state(s[n], r) = "active"
        BY <2>1, <2>2, <3>1, <4>1, <4>2 DEF HasOrigins
      <4>3. CASE relation_state(s[n], r) # "active" /\ relation_state(s[n + 1], r) = "active"
        <5>1. MadeActive(e, r)
          BY <2>3, <3>1, <4>3 DEF RelationMoves, MadeActive
        <5> QED BY <2>1, <4>1, <5>1
      <4> QED BY <4>1, <4>2, <4>3
    <3>2. CASE r \notin DOMAIN s[n].relations
      <4>1. /\ e.kind = "relation.proposed" /\ r = e.payload.relation_id
            /\ relation_state(s[n + 1], r) =
                 IF "state" \in DOMAIN e.payload THEN e.payload.state ELSE "proposed"
        BY <2>3, <3>2 DEF RelationMoves
      <4>2. relation_state(s[n + 1], r) = "active" => MadeActive(e, r)
        BY <4>1 DEF MadeActive
      <4> QED BY <2>1, <4>1, <4>2
    <3> QED BY <3>1, <3>2
  <2>6. HasOrigins(s[n + 1], n + 1, events)
    BY <2>4, <2>5 DEF HasOrigins
  <2> QED BY <2>1, <2>6
<1>3. 0..N \subseteq T
  <2> HIDE DEF T
  <2> QED BY <1>1, <1>2, Onwards
<1> QED BY <1>3

\* While no event is about a claim, it is not proposed, what is terminal
\* stays as it is, and what waits goes on waiting.
LEMMA QuietClaim ==
  ASSUME NEW N \in Nat, NEW events, NEW s, Journey(s, N, events), NEW i \in 0..N,
         NEW c \in DOMAIN s[N].claims, \A j \in (i + 1)..N : ~About(events[j], c)
  PROVE  /\ c \in DOMAIN s[i].claims
         /\ claim_state(s[i], c) \in TERMINAL => claim_state(s[N], c) = claim_state(s[i], c)
         /\ claim_state(s[i], c) \in Waiting => claim_state(s[N], c) \in Waiting
<1> DEFINE Still(n) ==
             /\ c \in DOMAIN s[n].claims => c \in DOMAIN s[i].claims
             /\ c \in DOMAIN s[n].claims /\ claim_state(s[i], c) \in TERMINAL =>
                  claim_state(s[n], c) = claim_state(s[i], c)
             /\ c \in DOMAIN s[n].claims /\ claim_state(s[i], c) \in Waiting =>
                  claim_state(s[n], c) \in Waiting
           T == {n \in i..N : Still(n)}
<1>1. i \in T
  OBVIOUS
<1>2. ASSUME NEW n \in i..N, n \in T, n < N PROVE n + 1 \in T
  <2>1. n \in 0..N /\ n + 1 \in i..N /\ n + 1 \in (i + 1)..N
    BY <1>2
  <2>2. ~About(events[n + 1], c)
    BY <2>1
  <2>3. ClaimMoves(s[n], events[n + 1], s[n + 1])
    BY <1>2, <2>1 DEF Journey, Advance
  <2>4. c \in DOMAIN s[n + 1].claims => c \in DOMAIN s[n].claims
    BY <2>2, <2>3, LifecycleKinds DEF ClaimMoves, About
  <2>5. c \in DOMAIN s[n].claims =>
          \/ claim_state(s[n + 1], c) = claim_state(s[n], c)
          \/ claim_state(s[n], c) \notin TERMINAL /\ claim_state(s[n + 1], c) = "stale_pending_review"
    BY <2>2, <2>3 DEF ClaimMoves
  <2>6. Still(n)
    BY <1>2
  <2>7. Still(n + 1)
    BY <2>4, <2>5, <2>6 DEF Waiting
  <2> QED BY <2>1, <2>7
<1>3. i..N \subseteq T
  <2> HIDE DEF T
  <2> QED BY <1>1, <1>2, Onwards
<1>4. N \in T
  BY <1>3
<1> QED BY <1>4

\* While no event moves a relation, it stays as it is.
LEMMA QuietRelation ==
  ASSUME NEW N \in Nat, NEW events, NEW s, Journey(s, N, events), NEW i \in 0..N,
         NEW r \in DOMAIN s[N].relations, \A j \in (i + 1)..N : ~Moves(events[j], r)
  PROVE  r \in DOMAIN s[i].relations /\ s[i].relations[r] = s[N].relations[r]
<1> DEFINE Still(n) ==
             r \in DOMAIN s[n].relations =>
               r \in DOMAIN s[i].relations /\ s[n].relations[r] = s[i].relations[r]
           T == {n \in i..N : Still(n)}
<1>1. i \in T
  OBVIOUS
<1>2. ASSUME NEW n \in i..N, n \in T, n < N PROVE n + 1 \in T
  <2>1. n \in 0..N /\ n + 1 \in i..N /\ n + 1 \in (i + 1)..N
    BY <1>2
  <2>2. ~Moves(events[n + 1], r)
    BY <2>1
  <2>3. RelationMoves(s[n], events[n + 1], s[n + 1])
    BY <1>2, <2>1 DEF Journey, Advance
  <2>4. r \in DOMAIN s[n + 1].relations => r \in DOMAIN s[n].relations
    BY <2>2, <2>3, LifecycleKinds DEF RelationMoves, Moves
  <2>5. r \in DOMAIN s[n].relations => s[n + 1].relations[r] = s[n].relations[r]
    BY <2>2, <2>3 DEF RelationMoves
  <2>6. Still(n)
    BY <1>2
  <2>7. Still(n + 1)
    BY <2>4, <2>5, <2>6
  <2> QED BY <2>1, <2>7
<1>3. i..N \subseteq T
  <2> HIDE DEF T
  <2> QED BY <1>1, <1>2, Onwards
<1>4. N \in T
  BY <1>3
<1> QED BY <1>4

\* DependentsAwaitReview of any sequence of events that replays.
LEMMA DependentsOf ==
  ASSUME NEW N \in Nat, NEW events, NEW s, Journey(s, N, events), NEW i \in 1..N,
         NEW r \in DOMAIN s[N].relations,
         events[i].kind = "claim.superseded",
         s[N].relations[r].target = events[i].subjects[1],
         s[N].relations[r].type = "DEPENDS_ON", relation_state(s[N], r) = "active",
         s[N].relations[r].source \in DOMAIN s[N].claims,
         \A j \in (i + 1)..N : ~About(events[j], s[N].relations[r].source) /\ ~Moves(events[j], r)
  PROVE  claim_state(s[N], s[N].relations[r].source) \in Waiting
<1> DEFINE d == s[N].relations[r].source
<1>1. /\ d \in DOMAIN s[i].claims
      /\ claim_state(s[i], d) \in Waiting => claim_state(s[N], d) \in Waiting
  BY QuietClaim
<1>2. r \in DOMAIN s[i].relations /\ s[i].relations[r] = s[N].relations[r]
  BY QuietRelation
<1>3. i - 1 \in 0..N /\ i - 1 < N /\ (i - 1) + 1 = i
  OBVIOUS
<1>4. PremiseFalls(s[i - 1], events[i], s[i])
  BY <1>3 DEF Journey, Advance
<1>5. claim_state(s[i], d) \in Waiting
  BY <1>1, <1>2, <1>4 DEF PremiseFalls, relation_state
<1> QED BY <1>1, <1>5

LEMMA TerminalOf ==
  ASSUME NEW N \in Nat, NEW events, NEW s, Journey(s, N, events), NEW i \in 1..N, NEW to \in TERMINAL,
         events[i].kind \in {"claim.state_changed", "claim.superseded"},
         to = IF events[i].kind = "claim.superseded" THEN "superseded"
              ELSE Field(events[i].payload, "to_state"),
         \A j \in (i + 1)..N : ~About(events[j], events[i].subjects[1])
  PROVE  claim_state(s[N], events[i].subjects[1]) = to
<1> DEFINE c == events[i].subjects[1]
<1>1. i - 1 \in 0..N /\ i - 1 < N /\ (i - 1) + 1 = i /\ i \in 0..N
  OBVIOUS
<1>2. ClaimMoves(s[i - 1], events[i], s[i])
  BY <1>1 DEF Journey, Advance
<1>3. events[i].kind = "claim.state_changed" => events[i].payload.to_state = to
  BY DEF Field, TERMINAL
<1>4. c \in DOMAIN s[i].claims /\ claim_state(s[i], c) = to
  BY <1>2, <1>3 DEF ClaimMoves
<1>5. c \in DOMAIN s[N].claims
  <2> DEFINE T == {n \in i..N : c \in DOMAIN s[n].claims}
  <2>1. i \in T
    BY <1>1, <1>4
  <2>2. ASSUME NEW n \in i..N, n \in T, n < N PROVE n + 1 \in T
    <3>1. n \in 0..N /\ n + 1 \in i..N
      BY <2>2
    <3>2. ClaimMoves(s[n], events[n + 1], s[n + 1])
      BY <3>1, <2>2 DEF Journey, Advance
    <3> QED BY <2>2, <3>1, <3>2 DEF ClaimMoves
  <2>3. i..N \subseteq T
    <3> HIDE DEF T
    <3> QED BY <1>1, <2>1, <2>2, Onwards
  <2> QED BY <2>3
<1> QED BY <1>1, <1>4, <1>5, QuietClaim

\* The log as a sequence.
LEMMA LogDomain ==
  ASSUME NEW S, IsFiniteSet(S)
  PROVE  /\ Cardinality(S) \in Nat /\ DOMAIN ordered_events(S) = 1..Cardinality(S)
         /\ Len(ordered_events(S)) = Cardinality(S)
<1>1. Cardinality(S) \in Nat
  BY FS_CardinalityType
<1> QED BY <1>1 DEF ordered_events

LEMMA DependentsWait ==
  ASSUME IsFiniteSet(log)
  PROVE  DependentsAwaitReview
<1> DEFINE events == ordered_events(log)
           N == Cardinality(log)
<1>1. N \in Nat /\ DOMAIN events = 1..N /\ Len(events) = N
  BY LogDomain
<1>2. PICK s : Replaying(s, N, events) /\ replay(events) = s[N]
  <2> HIDE DEF events, N
  <2> QED BY <1>1, ReplayIs
<1> HIDE DEF events, N
<1>3. CASE s[N].raised
  BY <1>2, <1>3 DEF DependentsAwaitReview, events
<1>4. CASE ~s[N].raised
  <2>1. Journey(s, N, events)
    BY <1>1, <1>2, <1>4, ReplayJourney
  <2>2. ASSUME NEW i \in 1..N, NEW r \in DOMAIN s[N].relations,
               events[i].kind = "claim.superseded",
               s[N].relations[r].target = events[i].subjects[1],
               s[N].relations[r].type = "DEPENDS_ON", relation_state(s[N], r) = "active",
               s[N].relations[r].source \in DOMAIN s[N].claims,
               \A j \in (i + 1)..N :
                 ~About(events[j], s[N].relations[r].source) /\ ~Moves(events[j], r)
        PROVE  claim_state(s[N], s[N].relations[r].source) \in TERMINAL \cup {"stale_pending_review"}
    BY <1>1, <2>1, <2>2, DependentsOf DEF Waiting
  <2>3. ASSUME NEW i \in 1..N, NEW to,
               events[i].kind \in {"claim.state_changed", "claim.superseded"},
               to = IF events[i].kind = "claim.superseded" THEN "superseded"
                    ELSE Field(events[i].payload, "to_state"),
               to \in TERMINAL,
               \A j \in (i + 1)..N : ~About(events[j], events[i].subjects[1])
        PROVE  claim_state(s[N], events[i].subjects[1]) = to
    BY <1>1, <2>1, <2>3, TerminalOf
  <2>4. replay(ordered_events(log)) = s[N] /\ events = ordered_events(log)
    BY <1>2 DEF events
  <2> QED BY <1>1, <2>2, <2>3, <2>4 DEF DependentsAwaitReview
<1> QED BY <1>3, <1>4

-----------------------------------------------------------------------------
(***************************************************************************)
(* The canonical order                                                     *)
(***************************************************************************)

\* Events the canonical order tells apart.
Timed(S) ==
  /\ IsFiniteSet(S)
  /\ \A e \in S : e.at \in Int /\ IdRank[event_id(e)] \in Int
  /\ \A e, f \in S : IdRank[event_id(e)] = IdRank[event_id(f)] => e = f

Earlier(S, e) == {f \in S : canonical_event_order(f, e)}

LEMMA TotalOrder ==
  ASSUME NEW S, Timed(S), NEW d \in S, NEW e \in S
  PROVE  /\ ~canonical_event_order(e, e)
         /\ d = e \/ canonical_event_order(d, e) \/ canonical_event_order(e, d)
         /\ canonical_event_order(d, e) => ~canonical_event_order(e, d) /\ d.at <= e.at
         /\ \A f \in S : canonical_event_order(f, d) /\ canonical_event_order(d, e) =>
              canonical_event_order(f, e)
<1>1. /\ d.at \in Int /\ e.at \in Int /\ IdRank[event_id(d)] \in Int /\ IdRank[event_id(e)] \in Int
      /\ IdRank[event_id(d)] = IdRank[event_id(e)] => d = e
  BY DEF Timed
<1>2. \A f \in S : f.at \in Int /\ IdRank[event_id(f)] \in Int
  BY DEF Timed
<1> QED BY <1>1, <1>2 DEF canonical_event_order

LEMMA EarlierProperties ==
  ASSUME NEW S, Timed(S)
  PROVE  /\ Cardinality(S) \in Nat
         /\ \A e \in S : Cardinality(Earlier(S, e)) + 1 \in 1..Cardinality(S)
         /\ \A d, e \in S : canonical_event_order(d, e) =>
              Cardinality(Earlier(S, d)) < Cardinality(Earlier(S, e))
         /\ \A i \in 1..Cardinality(S) : \E e \in S : Cardinality(Earlier(S, e)) = i - 1
<1>0. IsFiniteSet(S) /\ Cardinality(S) \in Nat
  BY FS_CardinalityType DEF Timed
<1>1. ASSUME NEW e \in S
      PROVE  /\ IsFiniteSet(Earlier(S, e)) /\ Cardinality(Earlier(S, e)) \in Nat
             /\ Cardinality(Earlier(S, e)) < Cardinality(S)
  <2>1. Earlier(S, e) \in SUBSET S /\ e \notin Earlier(S, e)
    BY TotalOrder DEF Earlier
  <2>2. IsFiniteSet(Earlier(S, e)) /\ Cardinality(Earlier(S, e)) <= Cardinality(S)
        /\ (Cardinality(Earlier(S, e)) = Cardinality(S) => Earlier(S, e) = S)
    BY <1>0, <2>1, FS_Subset
  <2>3. Cardinality(Earlier(S, e)) \in Nat
    BY <2>2, FS_CardinalityType
  <2> QED BY <1>0, <2>1, <2>2, <2>3
<1>2. ASSUME NEW d \in S, NEW e \in S, canonical_event_order(d, e)
      PROVE  Cardinality(Earlier(S, d)) < Cardinality(Earlier(S, e))
  <2>1. Earlier(S, d) \in SUBSET Earlier(S, e)
    BY <1>2, TotalOrder DEF Earlier
  <2>2. d \in Earlier(S, e) /\ d \notin Earlier(S, d)
    BY <1>2, TotalOrder DEF Earlier
  <2>3. Cardinality(Earlier(S, d)) <= Cardinality(Earlier(S, e))
        /\ (Cardinality(Earlier(S, d)) = Cardinality(Earlier(S, e)) => Earlier(S, d) = Earlier(S, e))
    BY <1>1, <2>1, FS_Subset
  <2> QED BY <1>1, <2>2, <2>3
<1>3. ASSUME NEW i \in 1..Cardinality(S) PROVE \E e \in S : Cardinality(Earlier(S, e)) = i - 1
  <2> DEFINE f == [e \in S |-> Cardinality(Earlier(S, e)) + 1]
             D == 1..Cardinality(S)
  <2>1. IsFiniteSet(D) /\ Cardinality(D) = Cardinality(S)
    BY <1>0, FS_Interval
  <2>2. f \in [S -> D]
    BY <1>0, <1>1
  <2>3. ASSUME NEW d \in S, NEW e \in S, f[d] = f[e] PROVE d = e
    <3>1. Cardinality(Earlier(S, d)) = Cardinality(Earlier(S, e))
      BY <2>3, <1>1
    <3>2. ~canonical_event_order(d, e) /\ ~canonical_event_order(e, d)
      BY <1>1, <1>2, <3>1
    <3> QED BY <3>2, TotalOrder
  <2>4. f \in Injection(S, D)
    BY <2>2, <2>3 DEF Injection, IsInjective
  <2>5. f \in Surjection(S, D)
    BY <1>0, <2>1, <2>4, FS_Injection
  <2>6. PICK e \in S : f[e] = i
    BY <2>5 DEF Surjection
  <2> QED BY <2>6, <1>1
<1> QED BY <1>0, <1>1, <1>2, <1>3

\* The log in its canonical order: every event once, earlier ones first.
LEMMA OrderedProperties ==
  ASSUME NEW S, Timed(S)
  PROVE  LET o == ordered_events(S)
             N == Cardinality(S)
         IN  /\ \A i \in 1..N : o[i] \in S /\ Cardinality(Earlier(S, o[i])) = i - 1
             /\ \A e \in S : o[Cardinality(Earlier(S, e)) + 1] = e
             /\ \A i, j \in 1..N : i < j => canonical_event_order(o[i], o[j])
<1> DEFINE o == ordered_events(S)
           N == Cardinality(S)
           At(i) == CHOOSE e \in S : Cardinality(Earlier(S, e)) = i - 1
<1>0. N \in Nat
  BY EarlierProperties
<1>1. o = [i \in 1..N |-> At(i)]
  BY DEF ordered_events, Earlier
<1>2. ASSUME NEW i \in 1..N PROVE o[i] \in S /\ Cardinality(Earlier(S, o[i])) = i - 1
  <2>1. \E e \in S : Cardinality(Earlier(S, e)) = i - 1
    BY EarlierProperties
  <2>2. At(i) \in S /\ Cardinality(Earlier(S, At(i))) = i - 1
    BY <2>1
  <2> QED BY <1>1, <2>2
<1>3. ASSUME NEW d \in S, NEW e \in S, Cardinality(Earlier(S, d)) = Cardinality(Earlier(S, e))
      PROVE  d = e
  <2>1. Cardinality(Earlier(S, d)) + 1 \in 1..N
    BY EarlierProperties
  <2>2. Cardinality(Earlier(S, d)) \in Int
    BY <2>1, FS_CardinalityType, FS_Subset DEF Earlier, Timed
  <2>3. ~canonical_event_order(d, e) /\ ~canonical_event_order(e, d)
    BY <1>3, <2>2, EarlierProperties
  <2> QED BY <2>3, TotalOrder
<1>4. ASSUME NEW e \in S PROVE o[Cardinality(Earlier(S, e)) + 1] = e
  <2> DEFINE i == Cardinality(Earlier(S, e)) + 1
  <2>1. i \in 1..N /\ Cardinality(Earlier(S, e)) \in Nat
    BY EarlierProperties, FS_CardinalityType, FS_Subset DEF Earlier, Timed
  <2>2. i - 1 = Cardinality(Earlier(S, e))
    BY <2>1
  <2>3. o[i] \in S /\ Cardinality(Earlier(S, o[i])) = i - 1
    BY <1>2, <2>1
  <2> QED BY <1>3, <2>2, <2>3
<1>5. ASSUME NEW i \in 1..N, NEW j \in 1..N, i < j PROVE canonical_event_order(o[i], o[j])
  <2>1. /\ o[i] \in S /\ Cardinality(Earlier(S, o[i])) = i - 1
        /\ o[j] \in S /\ Cardinality(Earlier(S, o[j])) = j - 1
    BY <1>2
  <2>2. o[i] # o[j]
    BY <1>5, <2>1
  <2>3. ~canonical_event_order(o[j], o[i])
    <3>1. canonical_event_order(o[j], o[i]) =>
            Cardinality(Earlier(S, o[j])) < Cardinality(Earlier(S, o[i]))
      BY <2>1, EarlierProperties
    <3>2. ~(j - 1 < i - 1)
      BY <1>5
    <3> QED BY <2>1, <3>1, <3>2
  <2> QED BY <2>1, <2>2, <2>3, TotalOrder
<1> QED BY <1>2, <1>4, <1>5

-----------------------------------------------------------------------------
(***************************************************************************)
(* Replay: the log of a node                                               *)
(***************************************************************************)

\* What the gate has seen to of the relations in the log.
Gated(e) ==
  /\ e.kind = "relation.proposed" /\ "state" \in DOMAIN e.payload => e.payload.state = "proposed"
  /\ e.kind = "relation.state_changed" => resolved_endpoints_are_legal(e.payload, EndpointKinds)

GateInv == IsFiniteSet(ever) /\ \A e \in ever : Gated(e)

LEMMA GateSeesRelations ==
  ASSUME NEW e, validate(e)
  PROVE  Gated(e)
<1>1. ASSUME e.kind \in {"relation.proposed", "relation.state_changed"}
      PROVE  EVENT_TYPE_CONTRACTS[e.kind].ontology
  <2>1. e.kind \in DOMAIN RelationContracts /\ e.kind \notin DOMAIN ClaimContracts
    BY <1>1, LifecycleKinds
  <2>2. EVENT_TYPE_CONTRACTS[e.kind] = RelationContracts[e.kind]
    BY <2>1 DEF EVENT_TYPE_CONTRACTS
  <2>3. RelationContracts[e.kind].ontology
    BY <1>1 DEF RelationContracts, Contract
  <2> QED BY <2>2, <2>3
<1>2. ASSUME e.kind \in {"relation.proposed", "relation.state_changed"}
      PROVE  RelationIsValid(e.kind, e.payload, EndpointKinds)
  BY <1>1, <1>2 DEF validate, validate_event_for_commit
<1> QED BY <1>2 DEF RelationIsValid, Gated

LEMMA GateCommit ==
  ASSUME GateInv, NEW e, Commit(e)
  PROVE  GateInv'
<1>1. validate(e) /\ ever' = ever \cup {e}
  BY NodeAssumption DEF Commit, Refusal, Answers
<1>2. IsFiniteSet(ever')
  BY <1>1, FS_AddElement DEF GateInv
<1>3. \A f \in ever' : Gated(f)
  BY <1>1, GateSeesRelations DEF GateInv
<1> QED BY <1>2, <1>3 DEF GateInv

LEMMA GateStep ==
  ASSUME GateInv, KnowledgeNext \/ UNCHANGED kvars
  PROVE  GateInv'
<1>1. ASSUME ever' = ever PROVE GateInv'
  BY <1>1 DEF GateInv
<1>2. ASSUME NEW a \in Agents, NEW e \in Offers, AgentCommit(a, e) PROVE GateInv'
  BY <1>2, GateCommit DEF AgentCommit
<1>3. ASSUME NEW r \in Requests, IngestStep(r) PROVE GateInv'
  <2>1. CASE IngestCommit(r)
    BY <1>1, <2>1, GateCommit DEF IngestCommit, store
  <2>2. CASE IngestBegin(r) \/ IngestSource(r) \/ IngestValidate(r)
    BY <1>1, <2>2 DEF IngestBegin, IngestSource, IngestValidate, store
  <2> QED BY <1>3, <2>1, <2>2 DEF IngestStep
<1>4. CASE Crash
  BY <1>1, <1>4 DEF Crash, store
<1>5. ASSUME NEW e \in log, EraseEvent(e) PROVE GateInv'
  BY <1>1, <1>5 DEF EraseEvent
<1>6. ASSUME NEW s \in stored[NodePack] \ erased, EraseSource(s) PROVE GateInv'
  BY <1>1, <1>6 DEF EraseSource, store
<1>7. CASE UNCHANGED kvars
  BY <1>1, <1>7 DEF kvars, store
<1> QED BY <1>2, <1>3, <1>4, <1>5, <1>6, <1>7 DEF KnowledgeNext

\* The events of the log, and of a part of it, have a place each.
LEMMA LogIsTimed ==
  ASSUME KnowledgeTypeOK, GateInv, NEW S \in SUBSET log
  PROVE  Timed(S)
<1>1. S \in SUBSET ever
  BY DEF KnowledgeTypeOK
<1>2. IsFiniteSet(S)
  BY <1>1, FS_Subset DEF GateInv
<1>3. \A e, f \in S :
        /\ e.at \in Int /\ IdRank[event_id(e)] \in Int
        /\ IdRank[event_id(e)] = IdRank[event_id(f)] => event_id(e) = event_id(f)
  BY <1>1, OrderAssumption DEF KnowledgeTypeOK
<1>4. \A e, f \in S : event_id(e) = event_id(f) => e = f
  BY <1>1 DEF KnowledgeTypeOK
<1> QED BY <1>2, <1>3, <1>4 DEF Timed

LEMMA ActiveIsLegal ==
  ASSUME KnowledgeTypeOK, GateInv
  PROVE  ActiveRelationIsLegal
<1> DEFINE events == ordered_events(log)
           N == Cardinality(log)
<1>1. Timed(log)
  BY LogIsTimed
<1>2. /\ N \in Nat /\ Len(events) = N
      /\ \A i \in 1..N : events[i] \in log
  BY <1>1, LogDomain, OrderedProperties DEF Timed
<1>3. PICK s : Replaying(s, N, events) /\ replay(events) = s[N]
  <2> HIDE DEF events, N
  <2> QED BY <1>2, ReplayIs
<1>4. replay(ordered_events(log)) = s[N]
  BY <1>3
<1> HIDE DEF events, N
<1> DEFINE other(r) == \E e \in log :
        /\ e.kind \in {"relation.state_changed", "relation.superseded"}
        /\ e.payload.relation_id = r
        /\ <<e.payload.relation_type, e.payload.source_ref, e.payload.target_ref>>
             # <<s[N].relations[r].type, s[N].relations[r].source, s[N].relations[r].target>>
<1>5. ASSUME ~s[N].raised, NEW r \in DOMAIN s[N].relations,
             relation_state(s[N], r) = "active", ~other(r)
      PROVE  LET rel == s[N].relations[r]
             IN  /\ resolves(EndpointKinds, rel.source) /\ resolves(EndpointKinds, rel.target)
                 /\ endpoints_are_legal(rel.type, EndpointKinds[rel.source],
                                        EndpointKinds[rel.target], CORE_ONTOLOGY_REF)
  <2>1. Journey(s, N, events)
    BY <1>2, <1>3, <1>5, ReplayJourney
  <2>2. PICK j \in 1..N : MadeActive(events[j], r)
    <3>1. N \in 0..N
      BY <1>2
    <3>2. HasOrigins(s[N], N, events)
      BY <1>2, <2>1, <3>1, JourneyOrigins
    <3> QED BY <1>5, <3>2 DEF HasOrigins
  <2> DEFINE e == events[j]
  <2>3. e \in log /\ Gated(e)
    BY <1>2 DEF GateInv, KnowledgeTypeOK
  <2>4. e.kind = "relation.state_changed" /\ e.payload.relation_id = r
    BY <2>2, <2>3 DEF MadeActive, Gated
  <2>5. resolved_endpoints_are_legal(e.payload, EndpointKinds)
    BY <2>3, <2>4 DEF Gated
  <2>6. /\ e.payload.relation_type = s[N].relations[r].type
        /\ e.payload.source_ref = s[N].relations[r].source
        /\ e.payload.target_ref = s[N].relations[r].target
    BY <1>5, <2>3, <2>4
  <2> QED BY <2>5, <2>6 DEF resolved_endpoints_are_legal, endpoints_are_legal
<1> QED BY <1>4, <1>5 DEF ActiveRelationIsLegal

LEMMA ReplaySound ==
  ASSUME KnowledgeTypeOK, GateInv
  PROVE  ReplayIsSound
<1>1. IsFiniteSet(log)
  BY LogIsTimed DEF Timed
<1> QED BY <1>1, ActiveIsLegal, DependentsWait DEF ReplayIsSound

-----------------------------------------------------------------------------
(***************************************************************************)
(* Replay: the log as of an earlier time                                   *)
(***************************************************************************)

LEMMA BeginsIsPrefix ==
  ASSUME NEW States, NEW h, IsHistory(h, States), NEW g, IsHistory(g, States), Begins(h, g)
  PROVE  IsPrefix(h, g)
<1>1. h \in Seq(States) /\ g \in Seq(States) /\ Len(h) \in Nat /\ Len(g) \in Nat /\ Len(h) <= Len(g)
  BY DEF IsHistory, Begins
<1>2. /\ SubSeq(h, 1, Len(h)) \in Seq(States) /\ Len(SubSeq(h, 1, Len(h))) = Len(h)
      /\ \A i \in 1..Len(h) : SubSeq(h, 1, Len(h))[i] = h[i]
  BY <1>1
<1>3. /\ SubSeq(g, 1, Len(h)) \in Seq(States) /\ Len(SubSeq(g, 1, Len(h))) = Len(h)
      /\ \A i \in 1..Len(h) : SubSeq(g, 1, Len(h))[i] = g[i]
  BY <1>1
<1>4. SubSeq(h, 1, Len(h)) = SubSeq(g, 1, Len(h))
  BY <1>1, <1>2, <1>3 DEF Begins
<1> QED BY <1>1, <1>4 DEF IsPrefix

\* What was there stays there, under the history it had and what came after.
Continues(s, t) ==
  /\ DOMAIN s.claims \subseteq DOMAIN t.claims /\ DOMAIN s.relations \subseteq DOMAIN t.relations
  /\ \A c \in DOMAIN s.claims : Begins(s.claims[c], t.claims[c])
  /\ \A r \in DOMAIN s.relations : Begins(s.relations[r].history, t.relations[r].history)

LEMMA BeginsOnwards ==
  ASSUME NEW States, NEW f, IsHistory(f, States), NEW h, IsHistory(h, States), NEW g,
         IsHistory(g, States), Begins(f, h), Begins(h, g)
  PROVE  Begins(f, g)
BY DEF IsHistory, Begins

LEMMA ContinuesOnwards ==
  ASSUME NEW s, IsState(s), NEW u, IsState(u), NEW t, IsState(t), Continues(s, u), Continues(u, t)
  PROVE  Continues(s, t)
<1>1. ASSUME NEW c \in DOMAIN s.claims PROVE Begins(s.claims[c], t.claims[c])
  <2>1. c \in DOMAIN u.claims /\ c \in DOMAIN t.claims
    BY DEF Continues
  <2>2. /\ IsHistory(s.claims[c], CLAIM_STATES) /\ IsHistory(u.claims[c], CLAIM_STATES)
        /\ IsHistory(t.claims[c], CLAIM_STATES)
    BY <2>1 DEF IsState, ClaimsFormed
  <2>3. Begins(s.claims[c], u.claims[c]) /\ Begins(u.claims[c], t.claims[c])
    BY <2>1 DEF Continues
  <2> QED BY <2>2, <2>3, BeginsOnwards
<1>2. ASSUME NEW r \in DOMAIN s.relations
      PROVE  Begins(s.relations[r].history, t.relations[r].history)
  <2>1. r \in DOMAIN u.relations /\ r \in DOMAIN t.relations
    BY DEF Continues
  <2>2. /\ IsHistory(s.relations[r].history, RELATION_STATES)
        /\ IsHistory(u.relations[r].history, RELATION_STATES)
        /\ IsHistory(t.relations[r].history, RELATION_STATES)
    BY <2>1 DEF IsState, RelationsFormed, IsRelation
  <2>3. Begins(s.relations[r].history, u.relations[r].history)
        /\ Begins(u.relations[r].history, t.relations[r].history)
    BY <2>1 DEF Continues
  <2> QED BY <2>2, <2>3, BeginsOnwards
<1> QED BY <1>1, <1>2 DEF Continues

LEMMA JourneyContinues ==
  ASSUME NEW N \in Nat, NEW events, NEW s, Journey(s, N, events), NEW i \in 0..N
  PROVE  \A n \in i..N : Continues(s[i], s[n])
<1> DEFINE T == {n \in i..N : Continues(s[i], s[n])}
<1>0. \A n \in 0..N : IsState(s[n])
  BY DEF Journey
<1>1. i \in T
  BY <1>0, KeptHistories DEF Continues
<1>2. ASSUME NEW n \in i..N, n \in T, n < N PROVE n + 1 \in T
  <2>1. n \in 0..N /\ n + 1 \in 0..N /\ n + 1 \in i..N
    BY <1>2
  <2>2. ClaimMoves(s[n], events[n + 1], s[n + 1]) /\ RelationMoves(s[n], events[n + 1], s[n + 1])
    BY <1>2, <2>1 DEF Journey, Advance
  <2>3. Continues(s[n], s[n + 1])
    BY <2>2 DEF ClaimMoves, RelationMoves, Continues
  <2>4. Continues(s[i], s[n])
    BY <1>2
  <2>5. Continues(s[i], s[n + 1])
    BY <1>0, <2>1, <2>3, <2>4, ContinuesOnwards
  <2> QED BY <2>1, <2>5
<1>3. i..N \subseteq T
  <2> HIDE DEF T
  <2> QED BY <1>1, <1>2, Onwards
<1> QED BY <1>3

\* The events up to a time are the first of the canonical order.
UpTo(S, t) == {e \in S : e.at <= t}

LEMMA FirstOfOrder ==
  ASSUME NEW S, Timed(S), NEW t \in Int
  PROVE  LET C == UpTo(S, t)
             M == Cardinality(C)
             o == ordered_events(S)
         IN  /\ Timed(C) /\ M \in 0..Cardinality(S)
             /\ \A i \in 1..M : ordered_events(C)[i] = o[i]
             /\ \A i \in 1..Cardinality(S) : o[i] \in C <=> i <= M
<1> DEFINE C == UpTo(S, t)
           M == Cardinality(C)
           o == ordered_events(S)
           N == Cardinality(S)
<1>1. C \in SUBSET S
  BY DEF UpTo
<1>2. IsFiniteSet(C) /\ M \in Nat /\ N \in Nat /\ M <= N
  BY <1>1, FS_Subset, FS_CardinalityType DEF Timed
<1>3. Timed(C)
  BY <1>1, <1>2 DEF Timed
<1>4. ASSUME NEW e \in C PROVE Earlier(C, e) = Earlier(S, e)
  <2>1. ASSUME NEW f \in S, canonical_event_order(f, e) PROVE f.at <= t
    <3>1. f.at <= e.at /\ e.at <= t /\ f.at \in Int /\ e.at \in Int
      BY <1>1, <2>1, TotalOrder DEF UpTo, Timed
    <3> QED BY <3>1
  <2> QED BY <1>1, <2>1 DEF Earlier, UpTo
<1>5. ASSUME NEW i \in 1..M PROVE ordered_events(C)[i] = o[i] /\ o[i] \in C
  <2>1. PICK e : e = ordered_events(C)[i]
    OBVIOUS
  <2>2. e \in C /\ Cardinality(Earlier(C, e)) = i - 1
    BY <1>3, <2>1, OrderedProperties
  <2>3. e \in S /\ Cardinality(Earlier(S, e)) = i - 1
    BY <1>1, <1>4, <2>2
  <2>4. o[Cardinality(Earlier(S, e)) + 1] = e
    BY <2>3, OrderedProperties
  <2>5. Cardinality(Earlier(S, e)) + 1 = i
    BY <1>2, <2>3
  <2> QED BY <2>1, <2>2, <2>4, <2>5
<1>6. ASSUME NEW i \in 1..N, o[i] \in C PROVE i <= M
  <2>1. PICK e : e = o[i]
    OBVIOUS
  <2>2. Cardinality(Earlier(S, e)) = i - 1
    BY <2>1, OrderedProperties
  <2>3. Cardinality(Earlier(C, e)) + 1 \in 1..M
    BY <1>3, <1>6, <2>1, EarlierProperties
  <2>4. Cardinality(Earlier(C, e)) = i - 1
    BY <1>4, <1>6, <2>1, <2>2
  <2>5. (i - 1) + 1 \in 1..M
    BY <2>3, <2>4
  <2> QED BY <1>2, <2>5
<1> QED BY <1>2, <1>3, <1>5, <1>6

LEMMA EarlierState ==
  ASSUME NEW S, Timed(S), NEW t \in Int, NEW s, Replaying(s, Cardinality(S), ordered_events(S))
  PROVE  replay(ordered_events(UpTo(S, t))) = s[Cardinality(UpTo(S, t))]
<1> DEFINE C == UpTo(S, t)
           M == Cardinality(C)
           N == Cardinality(S)
           o == ordered_events(S)
           p == ordered_events(C)
<1>1. /\ Timed(C) /\ M \in 0..N /\ \A i \in 1..M : p[i] = o[i]
  BY FirstOfOrder
<1>2. N \in Nat /\ M \in Nat /\ Len(p) = M
  BY <1>1, EarlierProperties, LogDomain DEF Timed
<1>3. PICK q : Replaying(q, M, p) /\ replay(p) = q[M]
  <2> HIDE DEF p, M
  <2> QED BY <1>2, ReplayIs
<1>4. \A n \in 0..N : s[n] = IF n = 0 THEN EmptyState ELSE apply(s[n - 1], o[n])
  BY DEF Replaying
<1>5. \A n \in 0..M : q[n] = IF n = 0 THEN EmptyState ELSE apply(q[n - 1], p[n])
  BY <1>3 DEF Replaying
<1> HIDE DEF C, M, N, o, p
<1> DEFINE T == {n \in 0..M : q[n] = s[n]}
<1>6. 0 \in T
  BY <1>1, <1>2, <1>4, <1>5
<1>7. ASSUME NEW n \in 0..M, n \in T, n < M PROVE n + 1 \in T
  <2>1. n + 1 \in 0..M /\ n + 1 \in 0..N /\ n + 1 \in 1..M /\ n + 1 # 0 /\ (n + 1) - 1 = n
    BY <1>1, <1>2, <1>7
  <2>2. q[n + 1] = apply(q[n], p[n + 1]) /\ s[n + 1] = apply(s[n], o[n + 1])
    BY <1>4, <1>5, <2>1
  <2>3. q[n] = s[n] /\ p[n + 1] = o[n + 1]
    BY <1>1, <1>7, <2>1
  <2> QED BY <2>1, <2>2, <2>3
<1>8. M \in T
  <2>1. 0..M \subseteq T
    <3> HIDE DEF T
    <3> QED BY <1>2, <1>6, <1>7, Onwards
  <2> QED BY <1>2, <2>1
<1> QED BY <1>3, <1>8 DEF p, C, M

\* A pack that replays as a whole replays up to any time, to claims and
\* relations whose proposing events are there.
LEMMA PackThen ==
  ASSUME NEW p, Timed(events_of(log, p)), ~replay(ordered_events(events_of(log, p))).raised,
         NEW t \in Int
  PROVE  LET S == events_of(log, p)
             o == ordered_events(S)
             M == Cardinality(UpTo(S, t))
         IN  \E s : /\ Journey(s, Cardinality(S), o) /\ M \in 0..Cardinality(S)
                    /\ state_as_of(log, p, t) = s[M]
                    /\ \A u \in Int : state_as_of(log, p, u) = s[Cardinality(UpTo(S, u))]
<1> DEFINE S == events_of(log, p)
           o == ordered_events(S)
           N == Cardinality(S)
<1>1. N \in Nat /\ Len(o) = N
  BY LogDomain DEF Timed
<1>2. PICK s : Replaying(s, N, o) /\ replay(o) = s[N]
  <2> HIDE DEF o, N
  <2> QED BY <1>1, ReplayIs
<1>3. Journey(s, N, o)
  <2> HIDE DEF o, N, S
  <2>1. ~s[N].raised
    BY <1>2 DEF o, S
  <2> QED BY <1>1, <1>2, <2>1, ReplayJourney
<1>4. ASSUME NEW u \in Int PROVE state_as_of(log, p, u) = s[Cardinality(UpTo(S, u))]
  <2>1. events_as_of(log, p, u) = UpTo(S, u)
    BY DEF events_as_of, UpTo
  <2>2. replay(ordered_events(UpTo(S, u))) = s[Cardinality(UpTo(S, u))]
    BY <1>2, EarlierState
  <2> QED BY <2>1, <2>2 DEF state_as_of
<1>5. Cardinality(UpTo(S, t)) \in 0..N
  BY FirstOfOrder
<1> QED BY <1>3, <1>4, <1>5

LEMMA PackIsBuilt ==
  ASSUME NEW p, Timed(events_of(log, p)), ~replay(ordered_events(events_of(log, p))).raised,
         NEW t \in Int
  PROVE  LET s == state_as_of(log, p, t)
         IN  /\ ~s.raised /\ IsState(s)
             /\ \A c \in DOMAIN s.claims : claim_event(log, p, t, c) # {}
             /\ \A r \in DOMAIN s.relations : relation_event(log, p, t, r) # {}
<1> DEFINE S == events_of(log, p)
           o == ordered_events(S)
           N == Cardinality(S)
           M == Cardinality(UpTo(S, t))
<1>1. PICK s : Journey(s, N, o) /\ M \in 0..N /\ state_as_of(log, p, t) = s[M]
  BY PackThen
<1>2. N \in Nat
  BY EarlierProperties
<1>3. /\ ~s[M].raised /\ IsState(s[M])
  BY <1>1 DEF Journey
<1>4. HasOrigins(s[M], M, o)
  BY <1>1, <1>2, JourneyOrigins
<1>5. \A j \in 1..M : o[j] \in UpTo(S, t)
  <2>1. \A j \in 1..M : j \in 1..N /\ j <= M
    BY <1>1, <1>2
  <2> QED BY <2>1, FirstOfOrder
<1>6. events_as_of(log, p, t) = UpTo(S, t)
  BY DEF events_as_of, UpTo
<1>7. \A c \in DOMAIN s[M].claims : claim_event(log, p, t, c) # {}
  BY <1>4, <1>5, <1>6 DEF HasOrigins, claim_event
<1>8. \A r \in DOMAIN s[M].relations : relation_event(log, p, t, r) # {}
  BY <1>4, <1>5, <1>6 DEF HasOrigins, relation_event
<1> QED BY <1>1, <1>3, <1>7, <1>8

\* No claim or relation that is there is proposed again later.
LEMMA ProposedOnce ==
  ASSUME NEW N \in Nat, NEW o, NEW s, Journey(s, N, o), NEW M \in 0..N, NEW j \in 1..N, M < j
  PROVE  /\ o[j].kind = "claim.proposed" => o[j].subjects[1] \notin DOMAIN s[M].claims
         /\ o[j].kind = "relation.proposed" => o[j].payload.relation_id \notin DOMAIN s[M].relations
<1>1. j - 1 \in 0..N /\ j - 1 < N /\ (j - 1) + 1 = j /\ j - 1 \in M..N
  OBVIOUS
<1>2. ClaimMoves(s[j - 1], o[j], s[j]) /\ RelationMoves(s[j - 1], o[j], s[j])
  BY <1>1 DEF Journey, Advance
<1>3. Continues(s[M], s[j - 1])
  BY <1>1, JourneyContinues
<1> QED BY <1>2, <1>3 DEF ClaimMoves, RelationMoves, Continues

LEMMA PackGrows ==
  ASSUME NEW p, Timed(events_of(log, p)), ~replay(ordered_events(events_of(log, p))).raised,
         NEW t \in Int, NEW u \in Int, t <= u
  PROVE  LET s == state_as_of(log, p, t)
         IN  /\ Continues(s, state_as_of(log, p, u))
             /\ \A c \in DOMAIN s.claims : claim_event(log, p, t, c) = claim_event(log, p, u, c)
             /\ \A r \in DOMAIN s.relations :
                  relation_event(log, p, t, r) = relation_event(log, p, u, r)
<1> DEFINE S == events_of(log, p)
           o == ordered_events(S)
           N == Cardinality(S)
           M == Cardinality(UpTo(S, t))
           K == Cardinality(UpTo(S, u))
<1>1. PICK s : /\ Journey(s, N, o) /\ M \in 0..N /\ state_as_of(log, p, t) = s[M]
               /\ state_as_of(log, p, u) = s[K]
  <2> HIDE DEF N, o, M, K
  <2> QED BY PackThen DEF S, N, o, M, K
<1>2. N \in Nat /\ K \in 0..N
  BY EarlierProperties, FirstOfOrder
<1>3. UpTo(S, t) \subseteq UpTo(S, u)
  BY DEF UpTo, Timed
<1>4. M <= K
  <2>1. IsFiniteSet(UpTo(S, u))
    BY FirstOfOrder DEF Timed
  <2> QED BY <1>3, <2>1, FS_Subset
<1>5. Continues(s[M], s[K])
  BY <1>1, <1>2, <1>4, JourneyContinues
<1>6. ASSUME NEW e \in UpTo(S, u), e \notin UpTo(S, t)
      PROVE  \E j \in 1..N : M < j /\ o[j] = e
  <2> DEFINE j == Cardinality(Earlier(S, e)) + 1
  <2>1. e \in S
    BY DEF UpTo
  <2>2. j \in 1..N /\ o[j] = e
    BY <2>1, EarlierProperties, OrderedProperties
  <2>3. ~(j <= M)
    BY <1>6, <2>2, FirstOfOrder
  <2> QED BY <1>1, <1>2, <2>2, <2>3
<1>7. \A e \in UpTo(S, u) :
        /\ e.kind = "claim.proposed" /\ e.subjects[1] \in DOMAIN s[M].claims => e \in UpTo(S, t)
        /\ e.kind = "relation.proposed" /\ e.payload.relation_id \in DOMAIN s[M].relations =>
             e \in UpTo(S, t)
  <2> HIDE DEF N, o, M, K
  <2> QED BY <1>1, <1>2, <1>6, ProposedOnce
<1>8. /\ events_as_of(log, p, t) = UpTo(S, t)
      /\ events_as_of(log, p, u) = UpTo(S, u)
  BY DEF events_as_of, UpTo
<1> HIDE DEF S, N, o, M, K
<1>9. \A c \in DOMAIN s[M].claims : claim_event(log, p, t, c) = claim_event(log, p, u, c)
  BY <1>3, <1>7, <1>8 DEF claim_event
<1>10. \A r \in DOMAIN s[M].relations : relation_event(log, p, t, r) = relation_event(log, p, u, r)
  BY <1>3, <1>7, <1>8 DEF relation_event
<1> QED BY <1>1, <1>5, <1>9, <1>10

\* The latest of the log.
LEMMA LatestOfLog ==
  ASSUME NEW S, Timed(S), NEW t \in {e.at : e \in S}
  PROVE  /\ Max({e.at : e \in S}) \in Int /\ t \in Int
         /\ t <= Max({e.at : e \in S})
<1> DEFINE N == Cardinality(S)
           o == ordered_events(S)
           At == {e.at : e \in S}
<1>1. N \in Nat /\ \A e \in S : Cardinality(Earlier(S, e)) + 1 \in 1..N
  BY EarlierProperties
<1>2. N \in 1..N
  BY <1>1
<1>3. o[N] \in S
  BY <1>2, OrderedProperties
<1>4. ASSUME NEW e \in S PROVE e.at <= o[N].at
  <2>1. PICK j \in 1..N : o[j] = e
    BY <1>1, OrderedProperties
  <2>2. CASE j = N
    BY <2>1, <2>2 DEF Timed
  <2>3. CASE j < N
    <3>1. canonical_event_order(e, o[N])
      BY <1>2, <2>1, <2>3, OrderedProperties
    <3> QED BY <1>3, <3>1, TotalOrder
  <2> QED BY <1>1, <2>2, <2>3
<1>5. At \subseteq Int /\ \E x \in At : \A y \in At : x >= y
  BY <1>3, <1>4 DEF Timed
<1>6. Max(At) \in At /\ \A y \in At : Max(At) >= y
  BY <1>5 DEF Max
<1> QED BY <1>5, <1>6

LEMMA PastStays ==
  ASSUME KnowledgeTypeOK, GateInv
  PROVE  PastIsReconstructable
<1> SUFFICES ASSUME \A p \in Packs : ~replay(ordered_events(events_of(log, p))).raised,
                    NEW t \in {e.at : e \in log}
             PROVE  /\ documents_can_be_built(log, t)
                    /\ \A p \in Packs : \A d \in documents(log, p, t) :
                         \E n \in documents(log, p, Max({e.at : e \in log})) :
                           d.id = n.id /\ IsPrefix(d.history, n.history) /\ d.event = n.event
  BY DEF PastIsReconstructable, audit_passes
<1>1. PICK u : u = Max({e.at : e \in log})
  OBVIOUS
<1>2. t \in Int /\ u \in Int /\ t <= u
  BY <1>1, LogIsTimed, LatestOfLog
<1>3. ASSUME NEW p \in Packs PROVE Timed(events_of(log, p))
  <2>1. events_of(log, p) \in SUBSET log
    BY DEF events_of
  <2> QED BY <2>1, LogIsTimed
<1>4. documents_can_be_built(log, t)
  BY <1>2, <1>3, PackIsBuilt DEF documents_can_be_built
<1>5. ASSUME NEW p \in Packs, NEW d \in documents(log, p, t)
      PROVE  \E n \in documents(log, p, u) :
               d.id = n.id /\ IsPrefix(d.history, n.history) /\ d.event = n.event
  <2>1. PICK s, now : s = state_as_of(log, p, t) /\ now = state_as_of(log, p, u)
    OBVIOUS
  <2>2. IsState(s) /\ IsState(now)
    BY <1>2, <1>3, <2>1, PackIsBuilt
  <2>3. /\ Continues(s, now)
        /\ \A c \in DOMAIN s.claims : claim_event(log, p, t, c) = claim_event(log, p, u, c)
        /\ \A r \in DOMAIN s.relations : relation_event(log, p, t, r) = relation_event(log, p, u, r)
    BY <1>2, <1>3, <2>1, PackGrows
  <2>4. CASE d \in claim_documents(log, p, t)
    <3>1. PICK c \in DOMAIN s.claims :
            d = [id |-> c, history |-> s.claims[c], event |-> claim_event(log, p, t, c)]
      BY <2>1, <2>4 DEF claim_documents
    <3> DEFINE n == [id |-> c, history |-> now.claims[c], event |-> claim_event(log, p, u, c)]
    <3>2. c \in DOMAIN now.claims /\ Begins(s.claims[c], now.claims[c])
      BY <2>3 DEF Continues
    <3>3. n \in documents(log, p, u)
      BY <2>1, <3>2 DEF documents, claim_documents
    <3>4. IsHistory(s.claims[c], CLAIM_STATES) /\ IsHistory(now.claims[c], CLAIM_STATES)
      BY <2>2, <3>2 DEF IsState, ClaimsFormed
    <3>5. IsPrefix(s.claims[c], now.claims[c])
      BY <3>2, <3>4, BeginsIsPrefix
    <3> QED BY <2>3, <3>1, <3>3, <3>5
  <2>5. CASE d \in relation_documents(log, p, t)
    <3>1. PICK r \in DOMAIN s.relations :
            /\ d.id = r /\ d.history = s.relations[r].history
            /\ d.event = relation_event(log, p, t, r)
      BY <2>1, <2>5 DEF relation_documents
    <3> DEFINE n == [id |-> r, history |-> now.relations[r].history, type |-> now.relations[r].type,
                     source |-> now.relations[r].source, target |-> now.relations[r].target,
                     event |-> relation_event(log, p, u, r)]
    <3>2. r \in DOMAIN now.relations /\ Begins(s.relations[r].history, now.relations[r].history)
      BY <2>3 DEF Continues
    <3>3. n \in documents(log, p, u)
      BY <2>1, <3>2 DEF documents, relation_documents
    <3>4. /\ IsHistory(s.relations[r].history, RELATION_STATES)
          /\ IsHistory(now.relations[r].history, RELATION_STATES)
      BY <2>2, <3>2 DEF IsState, RelationsFormed, IsRelation
    <3>5. IsPrefix(s.relations[r].history, now.relations[r].history)
      BY <3>2, <3>4, BeginsIsPrefix
    <3> QED BY <2>3, <3>1, <3>3, <3>5
  <2> QED BY <2>4, <2>5 DEF documents
<1> QED BY <1>1, <1>4, <1>5

-----------------------------------------------------------------------------
(***************************************************************************)
(* The theorems                                                            *)
(***************************************************************************)

NodeInv == KnowledgeInv /\ GateInv /\ OpsInv

LEMMA NodeStep == ASSUME NodeInv, [OpsNext]_<<kvars, ovars>> PROVE NodeInv'
<1> USE DEF NodeInv
<1>1. CASE KnowledgeNext /\ UNCHANGED ovars
  BY <1>1, KnowledgeStep, GateStep, GoneStays, OpsStutter
<1>2. CASE (ReadinessNext \/ MigrationNext) /\ UNCHANGED kvars
  BY <1>2, ReadinessStep, MigrationStep, KnowledgeStutter, GateStep
<1>3. CASE UNCHANGED <<kvars, ovars>>
  BY <1>3, KnowledgeStutter, GateStep, GoneStays, OpsStutter DEF kvars
<1> QED BY <1>1, <1>2, <1>3 DEF OpsNext

LEMMA NodeSafety == OpsSpec => []NodeInv
<1>1. KnowledgeInit /\ OpsInit => NodeInv
  BY InitKnowledgeInv, InitOpsInv, FS_EmptySet DEF NodeInv, GateInv, KnowledgeInit
<1>2. NodeInv /\ [OpsNext]_<<kvars, ovars>> => NodeInv'
  BY NodeStep
<1> QED BY <1>1, <1>2, PTL DEF OpsSpec

\* A request answered "created" has its whole batch in the log or erased since,
\* one refused as invalid, rejected or unauthorized left nothing there, except,
\* of a batch answered invalid, proposals before one that cannot be encoded,
\* and no proposal precedes its source, whatever else is committed or erased
\* and wherever the process dies (ingest of runtime/network.py and of
\* reviewed_evidence.py, event store commit).
THEOREM HonestAnswers == OpsSpec => []AnswersMatchTheLog
<1>1. NodeInv => AnswersMatchTheLog
  BY KnowledgeMeans DEF NodeInv
<1> QED BY <1>1, NodeSafety, PTL

\* An event that names an agent came from its authorized session, and what a
\* promotion pins in its source pack has that meaning forever (agent.py
\* commit, promotion.py validate_promotion_source).
THEOREM KeptAuthority == OpsSpec => []EventsKeepTheirAuthority
<1>1. NodeInv => EventsKeepTheirAuthority
  BY KnowledgeMeans DEF NodeInv
<1> QED BY <1>1, NodeSafety, PTL

\* Whatever was committed in whatever order, replaying the log activates only
\* relations that join resolved endpoints of legal kinds, unless an acceptance
\* named others than its proposal, lets no claim stand on a superseded premise
\* without review, and revives no terminal one (domain/lifecycle.py, behind
\* validate_event_for_commit).
THEOREM SoundReplay == OpsSpec => []ReplayIsSound
<1>1. NodeInv => ReplayIsSound
  BY ReplaySound DEF NodeInv, KnowledgeInv
<1> QED BY <1>1, NodeSafety, PTL

\* Packs that pass the audit can be rebuilt as of any recorded time, and every
\* history of then is the beginning of the one known now, on the same
\* proposing event (retrieval_documents_from_pack_fixtures).
THEOREM PastRebuilt == OpsSpec => []PastIsReconstructable
<1>1. NodeInv => PastIsReconstructable
  BY PastStays DEF NodeInv, KnowledgeInv
<1> QED BY <1>1, NodeSafety, PTL

\* A node that answers ready has what it acknowledged before its probe read the
\* log in its projection, but for the tolerated lag and what was erased, and
\* whatever times operators give their switches and however they interleave,
\* a record switches from the slot of the record it is read after, unless its
\* operator had not seen that one or gave a time before that of another it had
\* seen (NodeReadinessProbe, projection/migration.py record_switch).
THEOREM ServedRight == OpsSpec => []ProjectionsAreServedRight
<1>1. NodeInv => ProjectionsAreServedRight
  BY OpsMean DEF NodeInv
<1> QED BY <1>1, NodeSafety, PTL
=============================================================================
