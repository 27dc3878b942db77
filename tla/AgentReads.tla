----------------------------- MODULE AgentReads -----------------------------
(***************************************************************************)
(* What an agent session reads and proposes through CorpusService          *)
(* (agent.py), over an event store other writers change.  A session is     *)
(* [actor, skill, version, read, write]; its actor stands for the durable  *)
(* actor with model, harness and skill.  Retrievers and context providers  *)
(* answer anything.  An event is [id, pack, words, actor]; ids are numbers *)
(* in the order of a scan.                                                 *)
(***************************************************************************)
EXTENDS Ordering, SequencesExt

CONSTANTS Sessions,        \* the contexts and accesses composed at start
          Skills,          \* skill -> [version, grants]
          StoredEvents,    \* what writers may commit
          Results,         \* what a retriever or provider may return
          Needles,         \* words searched for, "" among them
          Threads,         \* conversation -> the pack its lineage is registered in
          MaxResults,
          NoReply

ASSUME AgentAssumption ==
  /\ MaxResults \in Nat
  /\ StoredEvents \subseteq [id : Nat, pack : {e.pack : e \in StoredEvents},
                            words : {e.words : e \in StoredEvents},
                            actor : {e.actor : e \in StoredEvents}]

VARIABLES events,
          reply            \* the last answer a session got, NoReply at first

avars == <<events, reply>>

\* The events in the order of their ids.
Scan(S) == InOrder(S, [e \in S |-> e.id])
Firsts(s, n) == SubSeq(s, 1, IF n < Len(s) THEN n ELSE Len(s))

\* PackAccess.
require_read(access, pack) == pack \in access.read
require_write(access, pack) == pack \in access.write

_authorize(s, capability) ==
  /\ s.skill \in DOMAIN Skills
  /\ capability \in Skills[s.skill].grants
  /\ s.version = Skills[s.skill].version

_require_actor_match(e, s) == e.actor = s.actor

\* None in the request means every readable pack.
_authorized_pack_ids(requested, s) ==
  IF requested = {} THEN s.read ELSE requested

\* One result outside the scope, and there is no answer at all.
_require_result_scope(items, scope) ==
  \A i \in DOMAIN items : items[i].pack # "" /\ items[i].pack \in scope

Answered(op, s, scope, items) ==
  [op |-> op, session |-> s, scope |-> scope, items |-> items, needle |-> "", limit |-> 0]

\* search with a retriever: what is beyond the limit is checked and cut off.
SearchRetriever(s, limit, items) ==
  /\ _authorize(s, "search")
  /\ _require_result_scope(items, s.read)
  /\ reply' = Answered("search", s, s.read, Firsts(items, limit))
  /\ UNCHANGED events

\* Defect: the scan is cut off before the mounts are looked at.
SearchEvents_cut(s, needle, limit) ==
  LET matching == {e \in events : needle = "" \/ needle \in e.words}
      found == {e \in Range(Firsts(Scan(matching), limit)) : e.pack \in s.read}
  IN  /\ _authorize(s, "search")
      /\ reply' = [Answered("search", s, s.read, Scan(found)) EXCEPT !.needle = needle, !.limit = limit]
      /\ UNCHANGED events

\* search without one: the first matches among the readable events.
SearchEvents(s, needle, limit) ==
  LET found == {e \in events : e.pack \in s.read /\ (needle = "" \/ needle \in e.words)}
  IN  /\ _authorize(s, "search")
      /\ reply' = [Answered("search", s, s.read, Firsts(Scan(found), limit))
                   EXCEPT !.needle = needle, !.limit = limit]
      /\ UNCHANGED events

ReadContext(s, requested, items) ==
  LET scope == _authorized_pack_ids(requested, s)
  IN  /\ _authorize(s, "context")
      /\ \A p \in scope : require_read(s, p)
      /\ _require_result_scope(items, scope)
      /\ reply' = Answered("context", s, scope, items)
      /\ UNCHANGED events

ReadEvent(s, e) ==
  /\ _authorize(s, "read")
  /\ e \in events /\ require_read(s, e.pack)
  /\ reply' = Answered("read", s, {e.pack}, <<e>>)
  /\ UNCHANGED events

ReadThread(s, conversation) ==
  /\ _authorize(s, "lineage")
  /\ require_read(s, Threads[conversation])
  /\ reply' = Answered("lineage", s, {Threads[conversation]},
                       <<[id |-> conversation, pack |-> Threads[conversation]]>>)
  /\ UNCHANGED events

\* propose returns an event of the session; nothing is stored.
Propose(s, e) ==
  /\ _authorize(s, "propose") /\ require_write(s, e.pack)
  /\ reply' = Answered("propose", s, s.write, <<[e EXCEPT !.actor = s.actor]>>)
  /\ UNCHANGED events

\* propose_promotion wants the source pack readable; commit will not.  The
\* promotion is an event of its own, after the others in a scan.
ProposePromotion(s, source, target) ==
  /\ _authorize(s, "propose")
  /\ require_read(s, source.pack) /\ require_write(s, target)
  /\ reply' = Answered("propose", s, s.write,
                       <<[source EXCEPT !.id = @ + 100, !.pack = target, !.actor = s.actor]>>)
  /\ UNCHANGED events

\* validate and commit of a session accept an event under the same checks.
accepts(s, capability, e) ==
  _authorize(s, capability) /\ require_write(s, e.pack) /\ _require_actor_match(e, s)

AgentWrite(s, e) ==
  /\ accepts(s, "commit", e)
  /\ \A d \in events : d.id # e.id
  /\ events' = events \cup {e}
  /\ UNCHANGED reply

\* Other writers, and privileged erasure.
OtherWrite(e) ==
  /\ \A d \in events : d.id # e.id
  /\ events' = events \cup {e}
  /\ UNCHANGED reply

Erase(e) ==
  /\ events' = events \ {e}
  /\ UNCHANGED reply

AgentInit == events = {} /\ reply = NoReply

\* The session goes on.
Consume == reply # NoReply /\ reply' = NoReply /\ UNCHANGED events

AgentNext ==
  \/ \E s \in Sessions :
       /\ reply = NoReply
       /\ \/ \E limit \in 1..MaxResults, items \in SeqOf(Results, MaxResults + 1) :
               SearchRetriever(s, limit, items)
          \/ \E limit \in 1..MaxResults, needle \in Needles : SearchEvents(s, needle, limit)
          \/ \E requested \in SUBSET (s.read \cup {e.pack : e \in StoredEvents}),
                items \in SeqOf(Results, 1) : ReadContext(s, requested, items)
          \/ \E e \in events : ReadEvent(s, e)
          \/ \E c \in DOMAIN Threads : ReadThread(s, c)
          \/ \E e \in StoredEvents : Propose(s, e)
          \/ \E e \in StoredEvents, target \in s.write : ProposePromotion(s, e, target)
  \/ /\ reply # NoReply /\ reply.op = "propose"
     /\ \E s \in Sessions : AgentWrite(s, reply.items[1])
  \/ Consume
  \/ \E e \in StoredEvents : OtherWrite(e)
  \/ \E e \in events : Erase(e)

AgentSpec == AgentInit /\ [][AgentNext]_avars
-----------------------------------------------------------------------------
\* Whatever a retriever, a provider or another writer does, a reply holds
\* items of packs the session mounts and of those it asked for only; what it
\* proposes is for its write targets.
RepliesStayInScope ==
  reply # NoReply =>
    /\ reply.scope \subseteq (IF reply.op = "propose" THEN reply.session.write ELSE reply.session.read)
    /\ \A i \in DOMAIN reply.items : reply.items[i].pack \in reply.scope

\* The fallback search leaves out a readable match only when the limit was
\* reached with earlier ones: events of other packs use up no place.
SearchSkipsNothing ==
  [][reply' \notin {reply, NoReply} /\ reply'.limit > 0 =>
       LET found == Range(reply'.items)
           readable == {e \in events : e.pack \in reply'.session.read
                                       /\ (reply'.needle = "" \/ reply'.needle \in e.words)}
       IN  \A e \in readable \ found :
             Len(reply'.items) = reply'.limit /\ \A d \in found : d.id < e.id]_avars

\* A proposal is its session's: only sessions that are the same actor can
\* have it accepted, under the name of the one that proposed it.
ProposalsBindTheirActor ==
  reply # NoReply /\ reply.op = "propose" =>
    \A s \in Sessions : accepts(s, "commit", reply.items[1]) => s.actor = reply.session.actor

\* A session reads and speaks for its own mounts and actor only, and inside
\* them misses nothing for what it may not see (AgentBoundary).
AgentsStayInTheirPacks ==
  [](RepliesStayInScope /\ ProposalsBindTheirActor) /\ SearchSkipsNothing
=============================================================================
