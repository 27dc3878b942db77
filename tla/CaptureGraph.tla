---------------------------- MODULE CaptureGraph ----------------------------
(***************************************************************************)
(* Completeness of a shared-chat capture                                   *)
(* (application/ingest/shared_chat_capture.py): what the receipt builder   *)
(* derives from the conversation graph a provider exposed, and what the    *)
(* validator demands of any receipt.                                       *)
(*                                                                         *)
(* nodes maps each discovered node to its parent_id, child_ids and         *)
(* message_present; an id it names that is not discovered is dangling.     *)
(***************************************************************************)
EXTENDS Naturals, Sequences, FiniteSetsExt

CONSTANT NoNode      \* None as a parent or current node

\* Continuation accounting: which state proves that nothing was left behind.
continuation_is_terminal_success(k) ==
  \/ k.state = "not_present" /\ k.reason = "source_terminal" /\ k.attempts = <<>>
  \/ /\ k.state = "resolved" /\ k.reason = "continuation_exhausted"
     /\ k.attempts # <<>>
     /\ \A i \in DOMAIN k.attempts : k.attempts[i] = "success"

\* The parent chain from n: n, its parent, and so on, NoNode after its end; a
\* dangling parent is its last element.
Chain(nodes, n) ==
  LET up[i \in 0..Cardinality(DOMAIN nodes)] ==
        IF i = 0 THEN n
        ELSE IF up[i - 1] \in DOMAIN nodes THEN nodes[up[i - 1]].parent ELSE NoNode
  IN  up

\* The places where the chain comes back to a node it has visited.
Returns(nodes, n) ==
  LET up == Chain(nodes, n) IN
  {i \in DOMAIN up : up[i] \in DOMAIN nodes /\ \E j \in 0..(i - 1) : up[j] = up[i]}

\* Defect: consistent parent and child lists are taken for a sound graph.
graph_unresolved_refs_nocycle(nodes) ==
  LET D == DOMAIN nodes IN
       {<<n, "parent", nodes[n].parent>> : n \in {x \in D : nodes[x].parent \notin D \cup {NoNode}}}
  \cup {<<n, "other", nodes[n].parent>> : n \in
          {x \in D : nodes[x].parent \in D /\ x \notin nodes[nodes[x].parent].children}}
  \cup (UNION {{<<n, "child", c>> : c \in nodes[n].children \ D} : n \in D})
  \cup (UNION {{<<n, "other", c>> :
                c \in {y \in nodes[n].children \cap D : nodes[y].parent # n}} : n \in D})

\* Dangling parents and children, parent and child lists that disagree, and
\* one entry for each start whose parent chain runs into a cycle.
graph_unresolved_refs(nodes) ==
  LET D == DOMAIN nodes IN
       {<<n, "parent", nodes[n].parent>> : n \in {x \in D : nodes[x].parent \notin D \cup {NoNode}}}
  \cup {<<n, "other", nodes[n].parent>> : n \in
          {x \in D : nodes[x].parent \in D /\ x \notin nodes[nodes[x].parent].children}}
  \cup (UNION {{<<n, "child", c>> : c \in nodes[n].children \ D} : n \in D})
  \cup (UNION {{<<n, "other", c>> :
                c \in {y \in nodes[n].children \cap D : nodes[y].parent # n}} : n \in D})
  \cup {LET x == Chain(nodes, n)[Min(Returns(nodes, n))] IN <<x, "other", x>> :
          n \in {y \in D : Returns(nodes, y) # {}}}

\* The nodes from the current one up to a root, a dangling parent or the first
\* repetition, and what is unresolved about them.
active_branch(nodes, current) ==
  LET D == DOMAIN nodes
      back == Returns(nodes, current)
      cycle == Chain(nodes, current)[Min(back)]
  IN
  IF current = NoNode \/ D = {} THEN [path |-> {}, unresolved |-> {}]
  ELSE IF current \notin D
       THEN [path |-> {}, unresolved |-> {<<Min(D), "other", current>>}]
  ELSE [path |-> {Chain(nodes, current)[i] : i \in DOMAIN Chain(nodes, current)} \cap D,
        unresolved |-> IF back = {} THEN {} ELSE {<<cycle, "other", cycle>>}]

recorded_current(nodes, current) == IF current \in DOMAIN nodes THEN current ELSE NoNode

build_receipt(nodes, current, continuation) ==
  LET D == DOMAIN nodes
      active == active_branch(nodes, current)
      unresolved == graph_unresolved_refs(nodes) \cup active.unresolved
      roots == {n \in D : nodes[n].parent = NoNode}
      messages == {n \in D : nodes[n].message}
      complete == /\ D # {} /\ messages # {} /\ roots # {} /\ unresolved = {}
                  /\ continuation_is_terminal_success(continuation)
  IN [completeness |-> IF complete THEN "complete" ELSE "incomplete",
      discovered |-> D, accounted |-> D, messages |-> messages, roots |-> roots,
      current |-> recorded_current(nodes, current), active |-> active.path,
      non_active |-> D \ active.path, unresolved |-> unresolved,
      continuation |-> continuation]

\* validate_shared_chat_capture_receipt: the receipt is accepted.  Counts are
\* the sizes of the sets they count.
receipt_is_valid(r) ==
  /\ r.accounted \cup r.messages \cup r.roots \subseteq r.discovered
  /\ r.active \cap r.non_active = {} /\ r.active \cup r.non_active = r.discovered
  /\ r.current \in r.discovered \cup {NoNode}
  /\ \A u \in r.unresolved : u[1] \in r.discovered
  /\ r.completeness = "complete" =>
       /\ r.discovered # {} /\ r.messages # {} /\ r.roots # {}
       /\ r.accounted = r.discovered /\ r.unresolved = {}
       /\ continuation_is_terminal_success(r.continuation)

\* require_complete_shared_chat_capture accepts the receipt.
require_complete(r) == receipt_is_valid(r) /\ r.completeness = "complete"

\* bind_shared_chat_capture_source: the declared digest, byte count and
\* artifact identity (absent, or one of the stored bytes) are those of bytes,
\* and the receipt then names the artifact.
bind_source(r, declared, bytes) ==
  IF /\ receipt_is_valid(r)
     /\ declared.sha256 = bytes /\ declared.byte_count = Len(bytes)
     /\ declared.artifact_id \in {NoNode, bytes}
  THEN [bound |-> TRUE, artifact_id |-> bytes]
  ELSE [bound |-> FALSE, artifact_id |-> declared.artifact_id]
-----------------------------------------------------------------------------
(***************************************************************************)
(* Reference definition: a whole conversation is a finite forest that its  *)
(* own roots span.                                                         *)
(***************************************************************************)
Spanned(nodes) ==
  LET D == DOMAIN nodes
      reach[i \in 0..Cardinality(D)] ==
        IF i = 0 THEN {n \in D : nodes[n].parent = NoNode}
        ELSE reach[i - 1] \cup ((UNION {nodes[n].children : n \in reach[i - 1]}) \cap D)
  IN  reach[Cardinality(D)]

IsForest(nodes) ==
  LET D == DOMAIN nodes IN
  /\ \A n \in D : nodes[n].children \subseteq D
  /\ \A n, m \in D : m \in nodes[n].children <=> nodes[m].parent = n
  /\ Spanned(nodes) = D
=============================================================================
