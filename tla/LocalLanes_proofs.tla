------------------------- MODULE LocalLanes_proofs --------------------------
(***************************************************************************)
(* Proofs about the two lanes that work on the issue, TrustedLocalBroker   *)
(* and PrivilegedVerifier, for any brokers, verifiers, tasks, lease and    *)
(* deadline, with any number of crashes, failed requests and delays.       *)
(*                                                                         *)
(* The argument is the same in both: an agent has at most one live claim   *)
(* on a task, because it only claims what it saw unclaimed; comment order  *)
(* never changes, so a claim that was the earliest once stays the earliest *)
(* until it dies; and while it lives nobody else confirms a claim, so no   *)
(* other agent can make a WorkOrder of a newer generation.                 *)
(***************************************************************************)
EXTENDS TrustedLocalBroker, PrivilegedVerifier, FiniteSetTheorems, SequenceTheorems,
        WellFoundedInduction, TLAPS

(***************************************************************************)
(* The trusted lane                                                        *)
(***************************************************************************)

Holding(a) == broker[a].pc \in {"post_order", "authorize", "codex", "checks", "reconcile", "publish"}
Ordered(a) == broker[a].pc \in {"authorize", "codex", "checks", "reconcile", "publish",
                                "close_order", "close_task", "release"}

TaskInv == \A a \in Agents : broker[a].pc \notin {"idle", "dead"} => broker[a].task \in Tasks

\* One claim per agent and task, and a strict order on the claims of a task
ClaimOrder ==
  \A c, d \in claims : c.task = d.task /\ (c.agent = d.agent \/ c.no = d.no) => c = d

ClaimInv ==
  /\ ClaimOrder
  /\ \A a \in Agents : broker[a].pc = "claim" => ~HasClaim(a, broker[a].task)

HoldInv ==
  \A a \in Agents : Holding(a) /\ HasClaim(a, broker[a].task) => Winning(a, broker[a].task)

GenInv ==
  /\ \A a \in Agents : broker[a].pc = "post_order" => broker[a].generation <= latest[broker[a].task] + 1
  /\ \A a \in Agents : Ordered(a) => broker[a].generation <= latest[broker[a].task]
  /\ \A a \in Agents :
       Holding(a) /\ HasClaim(a, broker[a].task) =>
         /\ latest[broker[a].task] <= broker[a].generation
         /\ \A b \in Agents :
              broker[b].pc = "post_order" /\ broker[b].task = broker[a].task =>
                broker[b].generation <= broker[a].generation

BrokerInv ==
  /\ TypeOK
  /\ TaskInv
  /\ ClaimInv
  /\ HoldInv
  /\ GenInv
-----------------------------------------------------------------------------
\* What the comments of broker a may do to the claims of a task: only a may
\* gain one, and the earliest claim stays the earliest until it dies.
ClaimStep(a) ==
  /\ claims' \in SUBSET Claims
  /\ ClaimOrder'
  /\ \A b \in Agents, t \in Tasks : b # a /\ HasClaim(b, t)' => HasClaim(b, t)
  /\ \A b \in Agents, t \in Tasks : Winning(b, t) /\ HasClaim(b, t)' => Winning(b, t)'

LEMMA SameClaims ==
  ASSUME NEW a \in Agents, BrokerInv, UNCHANGED claims
  PROVE  ClaimStep(a)
BY DEF BrokerInv, TypeOK, ClaimInv, ClaimStep, ClaimOrder, HasClaim, Winning, ClaimsOn

LEMMA LandClaimStep ==
  ASSUME NEW a \in Agents, BrokerInv, broker[a].pc = "claim", LandClaim(a)
  PROVE  ClaimStep(a)
<1>1. CASE UNCHANGED claims
  BY <1>1, SameClaims
<1>2. CASE ~UNCHANGED claims
  <2>1. PICK n \in {1} \cup {c.no + 1 : c \in ClaimsOn(broker[a].task)} :
          /\ \A c \in ClaimsOn(broker[a].task) : c.no < n
          /\ claims' = claims \cup {[task |-> broker[a].task, agent |-> a, no |-> n,
                                     left |-> broker[a].lease]}
          /\ broker[a].lease > 0
    BY <1>2 DEF LandClaim
  <2> DEFINE new == [task |-> broker[a].task, agent |-> a, no |-> n, left |-> broker[a].lease]
  <2>2. n \in Nat \ {0}
    BY <2>1 DEF BrokerInv, TypeOK, Claims, ClaimsOn
  <2>3. new \in Claims
    BY <2>1, <2>2 DEF BrokerInv, TypeOK, TaskInv, Brokers, Claims
  <2>4. \A c \in claims : c.task = new.task => c.no < new.no /\ c.agent # a
    BY <2>1 DEF BrokerInv, ClaimInv, HasClaim, ClaimsOn
  <2>5. claims' = claims \cup {new}
    BY <2>1
  <2>6. \A c \in claims : c.no \in Nat
    BY DEF BrokerInv, TypeOK, Claims
  <2>7. new.no = n /\ new.agent = a /\ new.task = broker[a].task
    OBVIOUS
  <2> HIDE DEF new
  <2>8. claims' \in SUBSET Claims
    BY <2>3, <2>5 DEF BrokerInv, TypeOK
  <2>9. ClaimOrder'
    BY <2>2, <2>4, <2>5, <2>6, <2>7 DEF BrokerInv, ClaimInv, ClaimOrder
  <2>10. \A b \in Agents, t \in Tasks : b # a /\ HasClaim(b, t)' => HasClaim(b, t)
    BY <2>5, <2>7 DEF HasClaim, ClaimsOn
  <2>11. \A b \in Agents, t \in Tasks : Winning(b, t) => Winning(b, t)'
    BY <2>2, <2>4, <2>5, <2>6, <2>7 DEF Winning, ClaimsOn
  <2>. QED BY <2>8, <2>9, <2>10, <2>11 DEF ClaimStep
<1>. QED BY <1>1, <1>2

LEMMA FewerClaims ==
  ASSUME NEW a \in Agents, BrokerInv, claims' \subseteq claims
  PROVE  ClaimStep(a)
<1>1. claims' \in SUBSET Claims /\ ClaimOrder'
  BY DEF BrokerInv, TypeOK, ClaimInv, ClaimOrder
<1>2. \A b \in Agents, t \in Tasks : HasClaim(b, t)' => HasClaim(b, t)
  BY DEF HasClaim, ClaimsOn
<1>3. \A b \in Agents, t \in Tasks : Winning(b, t) /\ HasClaim(b, t)' => Winning(b, t)'
  BY DEF BrokerInv, ClaimInv, ClaimOrder, Winning, HasClaim, ClaimsOn
<1>. QED BY <1>1, <1>2, <1>3 DEF ClaimStep

\* Every request of a broker, landing or lost, is such a step.
LEMMA LandStep ==
  ASSUME NEW a \in Agents, BrokerInv, Land(a) \/ UNCHANGED <<issue, prs>>
  PROVE  /\ ClaimStep(a)
         /\ broker[a].pc # "claim" => claims' \subseteq claims
         /\ ready' \in SUBSET Tasks /\ latest' \in [Tasks -> Nat \cup {-1}]
         /\ ended' \in SUBSET Nat /\ prs' \in SUBSET PullRequests
<1>1. CASE broker[a].pc = "claim" /\ LandClaim(a)
  BY <1>1, LandClaimStep DEF LandClaim, BrokerInv, TypeOK
<1>2. CASE UNCHANGED <<issue, prs>>
  BY <1>2, SameClaims DEF issue, BrokerInv, TypeOK
<1>3. CASE broker[a].pc = "post_order" /\ LandOrder(a)
  BY <1>3, SameClaims DEF LandOrder, Newer, BrokerInv, TypeOK, TaskInv, Brokers
<1>4. CASE broker[a].pc = "publish" /\ LandPullRequest(a)
  BY <1>4, SameClaims DEF LandPullRequest, issue, BrokerInv, TypeOK, TaskInv, Brokers, PullRequests
<1>5. CASE broker[a].pc = "close_order" /\ LandOrderDone(a)
  BY <1>5, SameClaims DEF LandOrderDone, Newer, BrokerInv, TypeOK, TaskInv, Brokers
<1>6. CASE broker[a].pc = "close_task" /\ LandTaskDone(a)
  BY <1>6, SameClaims DEF LandTaskDone, BrokerInv, TypeOK, TaskInv, Brokers
<1>7. CASE broker[a].pc = "release" /\ LandRelease(a)
  <2>1. claims' \subseteq claims
    BY <1>7 DEF LandRelease
  <2>. QED BY <1>7, <2>1, FewerClaims DEF LandRelease, BrokerInv, TypeOK
<1>. QED BY <1>1, <1>2, <1>3, <1>4, <1>5, <1>6, <1>7 DEF Land

LEMMA PollInv ==
  ASSUME NEW t \in Tasks, NEW a \in Agents, BrokerInv, Poll(a, t)
  PROVE  BrokerInv'
<1> USE BrokerAssumption DEF BrokerInv
<1>1. TypeOK'
  BY DEF TypeOK, Brokers, Pcs, Claims, PullRequests, TaskInv, Poll, Idle, issue, count
<1>2. TaskInv'
  BY DEF TypeOK, Brokers, TaskInv, Poll, Idle, issue, count
<1>3. ClaimInv'
  BY DEF TypeOK, Brokers, TaskInv, ClaimInv, ClaimOrder, HasClaim, ClaimsOn, Poll, Idle, issue, count
<1>4. HoldInv'
  BY DEF TypeOK, Brokers, TaskInv, ClaimInv, ClaimOrder, HoldInv, Holding, HasClaim, Winning, ClaimsOn, Poll, Idle, issue, count
<1>5. GenInv'
  BY DEF TypeOK, Brokers, TaskInv, ClaimInv, ClaimOrder, HoldInv, GenInv, Holding, Ordered, HasClaim, Winning, ClaimsOn, Poll, Idle, issue, count
<1>. QED BY <1>1, <1>2, <1>3, <1>4, <1>5

LEMMA PostClaimInv ==
  ASSUME NEW a \in Agents, BrokerInv, PostClaim(a)
  PROVE  BrokerInv'
<1> USE BrokerAssumption DEF BrokerInv
<1>0. ClaimStep(a)
  BY LandClaimStep DEF PostClaim
<1>1. TypeOK'
  BY <1>0 DEF TypeOK, Brokers, Pcs, ClaimStep, PostClaim, LandClaim, Goto
<1>2. TaskInv'
  BY DEF TypeOK, Brokers, TaskInv, PostClaim, LandClaim, Goto, issue, count
<1>3. ClaimInv'
  BY <1>0 DEF TypeOK, Brokers, TaskInv, ClaimInv, ClaimStep, PostClaim, Goto
<1>4. HoldInv'
  BY <1>0 DEF TypeOK, Brokers, TaskInv, ClaimStep, HoldInv, Holding, PostClaim, Goto
<1>5. GenInv'
  BY <1>0 DEF TypeOK, Brokers, TaskInv, ClaimStep, GenInv, Holding, Ordered, PostClaim, LandClaim, Goto
<1>. QED BY <1>1, <1>2, <1>3, <1>4, <1>5

LEMMA ConfirmInv ==
  ASSUME NEW a \in Agents, BrokerInv, Confirm(a)
  PROVE  BrokerInv'
<1> USE BrokerAssumption DEF BrokerInv
<1>1. TypeOK'
  BY DEF TypeOK, Brokers, Pcs, Claims, PullRequests, TaskInv, Confirm, NextGeneration, Stop, Idle, issue, count
<1>2. TaskInv'
  BY DEF TypeOK, Brokers, TaskInv, Confirm, NextGeneration, Stop, Idle, issue, count
<1>3. ClaimInv'
  BY DEF TypeOK, Brokers, TaskInv, ClaimInv, ClaimOrder, HasClaim, ClaimsOn, Confirm, NextGeneration, Stop, Idle, issue, count
<1>4. HoldInv'
  BY DEF TypeOK, Brokers, TaskInv, ClaimInv, ClaimOrder, HoldInv, Holding, HasClaim, Winning, ClaimsOn, Confirm, NextGeneration, Stop, Idle, issue, count
<1>5. GenInv'
  <2>1. CASE ~Winning(a, broker[a].task)
    BY <2>1 DEF TypeOK, Brokers, TaskInv, GenInv, Holding, Ordered, HasClaim, ClaimsOn, Confirm, Stop, Idle, issue
  <2>2. CASE Winning(a, broker[a].task)
    <3> DEFINE t == broker[a].task
    <3>1. t \in Tasks /\ latest[t] \in Nat \cup {-1}
      BY DEF TypeOK, TaskInv, Confirm
    <3>2. /\ broker' = [broker EXCEPT ![a].pc = "post_order", ![a].attempt = attempts + 1,
                                      ![a].generation = latest[t] + 1, ![a].left = Deadline]
          /\ UNCHANGED <<claims, latest>>
      BY <2>2 DEF Confirm, NextGeneration, issue
    <3>3. /\ broker'[a].pc = "post_order" /\ broker'[a].task = t
          /\ broker'[a].generation = latest[t] + 1
          /\ \A b \in Agents : b # a => broker'[b] = broker[b]
      BY <3>2 DEF TypeOK, Brokers
    <3>4. \A b \in Agents : b # a /\ Holding(b) /\ broker[b].task = t => ~HasClaim(b, t)
      BY <2>2, <3>1 DEF TypeOK, Claims, HoldInv, Winning, HasClaim, ClaimsOn, ClaimInv, ClaimOrder
    <3>5. \A b \in Agents : HasClaim(b, broker[b].task)' => HasClaim(b, broker'[b].task)
      BY <3>2 DEF HasClaim, ClaimsOn
    <3>6. \A b \in Agents : broker[b].generation \in Nat
      BY DEF TypeOK, Brokers
    <3> HIDE DEF t
    <3>7. \A b \in Agents : broker'[b].pc = "post_order" => broker'[b].generation <= latest[broker'[b].task] + 1
      BY <3>1, <3>3 DEF GenInv
    <3>8. \A b \in Agents : Ordered(b)' => broker'[b].generation <= latest[broker'[b].task]
      BY <3>3 DEF GenInv, Ordered
    <3>9. ASSUME NEW b \in Agents, Holding(b)', HasClaim(b, broker[b].task)'
          PROVE  /\ latest[broker'[b].task] <= broker'[b].generation
                 /\ \A c \in Agents : broker'[c].pc = "post_order" /\ broker'[c].task = broker'[b].task =>
                      broker'[c].generation <= broker'[b].generation
      <4>1. CASE b = a
        BY <3>1, <3>3, <3>6, <4>1 DEF GenInv
      <4>2. CASE b # a
        <5>1. Holding(b) /\ HasClaim(b, broker[b].task) /\ broker[b].task # t
          BY <3>3, <3>4, <3>5, <3>9, <4>2 DEF Holding
        <5>. QED BY <3>3, <4>2, <5>1 DEF GenInv
      <4>. QED BY <4>1, <4>2
    <3>. QED BY <3>2, <3>7, <3>8, <3>9 DEF GenInv
  <2>. QED BY <2>1, <2>2
<1>. QED BY <1>1, <1>2, <1>3, <1>4, <1>5

LEMMA PostOrderInv ==
  ASSUME NEW a \in Agents, BrokerInv, PostOrder(a)
  PROVE  BrokerInv'
<1> USE BrokerAssumption DEF BrokerInv
<1>1. TypeOK'
  BY DEF TypeOK, Brokers, Pcs, Claims, PullRequests, TaskInv, PostOrder, LandOrder, Newer, Goto, issue, count
<1>2. TaskInv'
  BY DEF TypeOK, Brokers, TaskInv, PostOrder, LandOrder, Newer, Goto, issue, count
<1>3. ClaimInv'
  BY DEF TypeOK, Brokers, TaskInv, ClaimInv, ClaimOrder, HasClaim, ClaimsOn, PostOrder, LandOrder, Newer, Goto, issue, count
<1>4. HoldInv'
  BY DEF TypeOK, Brokers, TaskInv, ClaimInv, ClaimOrder, HoldInv, Holding, HasClaim, Winning, ClaimsOn, PostOrder, LandOrder, Newer, Goto, issue, count
<1>5. GenInv'
  BY DEF TypeOK, Brokers, TaskInv, ClaimInv, ClaimOrder, HoldInv, GenInv, Holding, Ordered, HasClaim, Winning, ClaimsOn, PostOrder, LandOrder, Newer, Goto, issue, count
<1>. QED BY <1>1, <1>2, <1>3, <1>4, <1>5

LEMMA AuthorizeInv ==
  ASSUME NEW a \in Agents, BrokerInv, Authorize(a)
  PROVE  BrokerInv'
<1> USE BrokerAssumption DEF BrokerInv
<1>1. TypeOK'
  <2>1. broker' \in [Agents -> Brokers]
    BY DEF TypeOK, Brokers, Pcs, Authorize, Goto
  <2>. QED BY <2>1 DEF TypeOK, Authorize, issue, count
<1>2. TaskInv'
  BY DEF TypeOK, Brokers, TaskInv, Authorize, Goto, issue, count
<1>3. ClaimInv'
  BY DEF TypeOK, Brokers, TaskInv, ClaimInv, ClaimOrder, HasClaim, ClaimsOn, Authorize, Goto, issue, count
<1>4. HoldInv'
  BY DEF TypeOK, Brokers, TaskInv, ClaimInv, ClaimOrder, HoldInv, Holding, HasClaim, Winning, ClaimsOn, Authorize, Goto, issue, count
<1>5. GenInv'
  BY DEF TypeOK, Brokers, TaskInv, ClaimInv, ClaimOrder, HoldInv, GenInv, Holding, Ordered, HasClaim, Winning, ClaimsOn, Authorize, Goto, issue, count
<1>. QED BY <1>1, <1>2, <1>3, <1>4, <1>5

LEMMA WorkInv ==
  ASSUME NEW a \in Agents, BrokerInv, Work(a)
  PROVE  BrokerInv'
<1> USE BrokerAssumption DEF BrokerInv
<1>1. TypeOK'
  <2>1. broker' \in [Agents -> Brokers]
    BY DEF TypeOK, Brokers, Pcs, Work, Goto
  <2>. QED BY <2>1 DEF TypeOK, Work, issue, count
<1>2. TaskInv'
  BY DEF TypeOK, Brokers, TaskInv, Work, Goto, issue, count
<1>3. ClaimInv'
  BY DEF TypeOK, Brokers, TaskInv, ClaimInv, ClaimOrder, HasClaim, ClaimsOn, Work, Goto, issue, count
<1>4. HoldInv'
  BY DEF TypeOK, Brokers, TaskInv, ClaimInv, ClaimOrder, HoldInv, Holding, HasClaim, Winning, ClaimsOn, Work, Goto, issue, count
<1>5. GenInv'
  BY DEF TypeOK, Brokers, TaskInv, ClaimInv, ClaimOrder, HoldInv, GenInv, Holding, Ordered, HasClaim, Winning, ClaimsOn, Work, Goto, issue, count
<1>. QED BY <1>1, <1>2, <1>3, <1>4, <1>5

LEMMA ReconcileInv ==
  ASSUME NEW a \in Agents, BrokerInv, Reconcile(a)
  PROVE  BrokerInv'
<1> USE BrokerAssumption DEF BrokerInv
<1>1. TypeOK'
  <2>1. broker' \in [Agents -> Brokers]
    BY DEF TypeOK, Brokers, Pcs, Reconcile, Goto
  <2>. QED BY <2>1 DEF TypeOK, Reconcile, issue, count
<1>2. TaskInv'
  BY DEF TypeOK, Brokers, TaskInv, Reconcile, Goto, issue, count
<1>3. ClaimInv'
  BY DEF TypeOK, Brokers, TaskInv, ClaimInv, ClaimOrder, HasClaim, ClaimsOn, Reconcile, Goto, issue, count
<1>4. HoldInv'
  BY DEF TypeOK, Brokers, TaskInv, ClaimInv, ClaimOrder, HoldInv, Holding, HasClaim, Winning, ClaimsOn, Reconcile, Goto, issue, count
<1>5. GenInv'
  BY DEF TypeOK, Brokers, TaskInv, ClaimInv, ClaimOrder, HoldInv, GenInv, Holding, Ordered, HasClaim, Winning, ClaimsOn, Reconcile, Goto, issue, count
<1>. QED BY <1>1, <1>2, <1>3, <1>4, <1>5

LEMMA PublishInv ==
  ASSUME NEW a \in Agents, BrokerInv, Publish(a)
  PROVE  BrokerInv'
<1> USE BrokerAssumption DEF BrokerInv
<1>1. TypeOK'
  BY DEF TypeOK, Brokers, Pcs, Claims, PullRequests, TaskInv, Publish, LandPullRequest, Goto, issue, count
<1>2. TaskInv'
  BY DEF TypeOK, Brokers, TaskInv, Publish, LandPullRequest, Goto, issue, count
<1>3. ClaimInv'
  BY DEF TypeOK, Brokers, TaskInv, ClaimInv, ClaimOrder, HasClaim, ClaimsOn, Publish, LandPullRequest, Goto, issue, count
<1>4. HoldInv'
  BY DEF TypeOK, Brokers, TaskInv, ClaimInv, ClaimOrder, HoldInv, Holding, HasClaim, Winning, ClaimsOn, Publish, LandPullRequest, Goto, issue, count
<1>5. GenInv'
  BY DEF TypeOK, Brokers, TaskInv, ClaimInv, ClaimOrder, HoldInv, GenInv, Holding, Ordered, HasClaim, Winning, ClaimsOn, Publish, LandPullRequest, Goto, issue, count
<1>. QED BY <1>1, <1>2, <1>3, <1>4, <1>5

LEMMA CloseOrderInv ==
  ASSUME NEW a \in Agents, BrokerInv, CloseOrder(a)
  PROVE  BrokerInv'
<1> USE BrokerAssumption DEF BrokerInv
<1>1. TypeOK'
  BY DEF TypeOK, Brokers, Pcs, Claims, PullRequests, TaskInv, CloseOrder, LandOrderDone, Newer, Goto, issue, count
<1>2. TaskInv'
  BY DEF TypeOK, Brokers, TaskInv, CloseOrder, LandOrderDone, Newer, Goto, issue, count
<1>3. ClaimInv'
  BY DEF TypeOK, Brokers, TaskInv, ClaimInv, ClaimOrder, HasClaim, ClaimsOn, CloseOrder, LandOrderDone, Newer, Goto, issue, count
<1>4. HoldInv'
  BY DEF TypeOK, Brokers, TaskInv, ClaimInv, ClaimOrder, HoldInv, Holding, HasClaim, Winning, ClaimsOn, CloseOrder, LandOrderDone, Newer, Goto, issue, count
<1>5. GenInv'
  BY DEF TypeOK, Brokers, TaskInv, ClaimInv, ClaimOrder, HoldInv, GenInv, Holding, Ordered, HasClaim, Winning, ClaimsOn, CloseOrder, LandOrderDone, Newer, Goto, issue, count
<1>. QED BY <1>1, <1>2, <1>3, <1>4, <1>5

LEMMA CloseTaskInv ==
  ASSUME NEW a \in Agents, BrokerInv, CloseTask(a)
  PROVE  BrokerInv'
<1> USE BrokerAssumption DEF BrokerInv
<1>1. TypeOK'
  BY DEF TypeOK, Brokers, Pcs, Claims, PullRequests, TaskInv, CloseTask, LandTaskDone, Goto, issue, count
<1>2. TaskInv'
  BY DEF TypeOK, Brokers, TaskInv, CloseTask, LandTaskDone, Goto, issue, count
<1>3. ClaimInv'
  BY DEF TypeOK, Brokers, TaskInv, ClaimInv, ClaimOrder, HasClaim, ClaimsOn, CloseTask, LandTaskDone, Goto, issue, count
<1>4. HoldInv'
  BY DEF TypeOK, Brokers, TaskInv, ClaimInv, ClaimOrder, HoldInv, Holding, HasClaim, Winning, ClaimsOn, CloseTask, LandTaskDone, Goto, issue, count
<1>5. GenInv'
  BY DEF TypeOK, Brokers, TaskInv, ClaimInv, ClaimOrder, HoldInv, GenInv, Holding, Ordered, HasClaim, Winning, ClaimsOn, CloseTask, LandTaskDone, Goto, issue, count
<1>. QED BY <1>1, <1>2, <1>3, <1>4, <1>5

LEMMA ReleaseInv ==
  ASSUME NEW a \in Agents, BrokerInv, Release(a)
  PROVE  BrokerInv'
<1> USE BrokerAssumption DEF BrokerInv
<1>1. TypeOK'
  BY DEF TypeOK, Brokers, Pcs, Claims, PullRequests, TaskInv, Release, LandRelease, Stop, Idle, issue, count
<1>2. TaskInv'
  BY DEF TypeOK, Brokers, TaskInv, Release, LandRelease, Stop, Idle, issue, count
<1>3. ClaimInv'
  BY DEF TypeOK, Brokers, TaskInv, ClaimInv, ClaimOrder, HasClaim, ClaimsOn, Release, LandRelease, Stop, Idle, issue, count
<1>4. HoldInv'
  BY DEF TypeOK, Brokers, TaskInv, ClaimInv, ClaimOrder, HoldInv, Holding, HasClaim, Winning, ClaimsOn, Release, LandRelease, Stop, Idle, issue, count
<1>5. GenInv'
  BY DEF TypeOK, Brokers, TaskInv, ClaimInv, ClaimOrder, HoldInv, GenInv, Holding, Ordered, HasClaim, Winning, ClaimsOn, Release, LandRelease, Stop, Idle, issue, count
<1>. QED BY <1>1, <1>2, <1>3, <1>4, <1>5

LEMMA RequestFailsInv ==
  ASSUME NEW a \in Agents, BrokerInv, RequestFails(a)
  PROVE  BrokerInv'
<1> USE BrokerAssumption DEF BrokerInv
<1>0. /\ ClaimStep(a)
      /\ ready' \in SUBSET Tasks /\ latest' \in [Tasks -> Nat \cup {-1}]
      /\ ended' \in SUBSET Nat /\ prs' \in SUBSET PullRequests
  BY LandStep DEF RequestFails
<1>1. TypeOK'
  BY <1>0 DEF TypeOK, Brokers, Pcs, ClaimStep, RequestFails, Goto, Stop, Idle
<1>2. TaskInv'
  BY DEF TypeOK, Brokers, TaskInv, RequestFails, Land, LandClaim, LandOrder, LandPullRequest, LandOrderDone, LandTaskDone, LandRelease, Newer, Goto, Stop, Idle, issue, count
<1>3. ClaimInv'
  BY <1>0 DEF TypeOK, Brokers, TaskInv, ClaimInv, ClaimStep, RequestFails, Goto, Stop, Idle
<1>4. HoldInv'
  <2>1. \A b \in Agents : Holding(b)' => Holding(b) /\ b # a /\ broker'[b] = broker[b]
    BY DEF TypeOK, Brokers, Holding, RequestFails, Goto, Stop, Idle
  <2>. QED BY <1>0, <2>1 DEF TypeOK, TaskInv, ClaimStep, HoldInv, Holding
<1>5. GenInv'
  <2>1. \A b \in Agents : Holding(b)' => Holding(b) /\ b # a /\ broker'[b] = broker[b]
    BY DEF TypeOK, Brokers, Holding, RequestFails, Goto, Stop, Idle
  <2>2. \A b \in Agents : Holding(b)' /\ HasClaim(b, broker[b].task)' => HasClaim(b, broker[b].task)
    BY <1>0, <2>1 DEF TaskInv, ClaimStep, Holding
  <2>. QED BY <1>0, <2>1, <2>2 DEF TypeOK, Brokers, TaskInv, GenInv, Holding, Ordered, RequestFails, Goto, Stop, Idle, Land, LandClaim, LandOrder, LandPullRequest, LandOrderDone, LandTaskDone, LandRelease, Newer, issue
<1>. QED BY <1>1, <1>2, <1>3, <1>4, <1>5

LEMMA CrashInv ==
  ASSUME NEW a \in Agents, BrokerInv, Crash(a)
  PROVE  BrokerInv'
<1> USE BrokerAssumption DEF BrokerInv
<1>0. /\ ClaimStep(a)
      /\ ready' \in SUBSET Tasks /\ latest' \in [Tasks -> Nat \cup {-1}]
      /\ ended' \in SUBSET Nat /\ prs' \in SUBSET PullRequests
  BY LandStep DEF Crash
<1>1. TypeOK'
  BY <1>0 DEF TypeOK, Brokers, Pcs, ClaimStep, Crash, Idle
<1>2. TaskInv'
  BY DEF TypeOK, Brokers, TaskInv, Crash, Land, LandClaim, LandOrder, LandPullRequest, LandOrderDone, LandTaskDone, LandRelease, Newer, Idle, issue, count
<1>3. ClaimInv'
  BY <1>0 DEF TypeOK, Brokers, TaskInv, ClaimInv, ClaimStep, Crash, Idle
<1>4. HoldInv'
  <2>1. \A b \in Agents : Holding(b)' => Holding(b) /\ b # a /\ broker'[b] = broker[b]
    BY DEF TypeOK, Brokers, Holding, Crash, Idle
  <2>. QED BY <1>0, <2>1 DEF TypeOK, TaskInv, ClaimStep, HoldInv, Holding
<1>5. GenInv'
  <2>1. \A b \in Agents : Holding(b)' => Holding(b) /\ b # a /\ broker'[b] = broker[b]
    BY DEF TypeOK, Brokers, Holding, Crash, Idle
  <2>2. \A b \in Agents : Holding(b)' /\ HasClaim(b, broker[b].task)' => HasClaim(b, broker[b].task)
    BY <1>0, <2>1 DEF TaskInv, ClaimStep, Holding
  <2>. QED BY <1>0, <2>1, <2>2 DEF TypeOK, Brokers, TaskInv, GenInv, Holding, Ordered, Crash, Idle, Land, LandClaim, LandOrder, LandPullRequest, LandOrderDone, LandTaskDone, LandRelease, Newer, issue
<1>. QED BY <1>1, <1>2, <1>3, <1>4, <1>5

LEMMA RestartInv ==
  ASSUME NEW a \in Agents, BrokerInv, Restart(a)
  PROVE  BrokerInv'
<1> USE BrokerAssumption DEF BrokerInv
<1>1. TypeOK'
  BY DEF TypeOK, Brokers, Pcs, Claims, PullRequests, TaskInv, Restart, Stop, Idle, issue, count
<1>2. TaskInv'
  BY DEF TypeOK, Brokers, TaskInv, Restart, Stop, Idle, issue, count
<1>3. ClaimInv'
  BY DEF TypeOK, Brokers, TaskInv, ClaimInv, ClaimOrder, HasClaim, ClaimsOn, Restart, Stop, Idle, issue, count
<1>4. HoldInv'
  BY DEF TypeOK, Brokers, TaskInv, ClaimInv, ClaimOrder, HoldInv, Holding, HasClaim, Winning, ClaimsOn, Restart, Stop, Idle, issue, count
<1>5. GenInv'
  BY DEF TypeOK, Brokers, TaskInv, ClaimInv, ClaimOrder, HoldInv, GenInv, Holding, Ordered, HasClaim, Winning, ClaimsOn, Restart, Stop, Idle, issue, count
<1>. QED BY <1>1, <1>2, <1>3, <1>4, <1>5

LEMMA TickInv ==
  ASSUME BrokerInv, Tick
  PROVE  BrokerInv'
<1> USE BrokerAssumption DEF BrokerInv
<1>1. \A c \in claims' : \E d \in claims : d.left > 1 /\ c = [d EXCEPT !.left = @ - 1]
  BY DEF Tick
<1>2. claims' \in SUBSET Claims
  BY <1>1 DEF TypeOK, Claims
<1>3. \A c \in claims' : \E d \in claims :
         c.task = d.task /\ c.agent = d.agent /\ c.no = d.no /\ c = [d EXCEPT !.left = @ - 1]
  BY <1>1 DEF TypeOK, Claims
<1>4. \A b \in Agents : /\ broker'[b].pc = broker[b].pc /\ broker'[b].task = broker[b].task
                       /\ broker'[b].generation = broker[b].generation
  BY DEF TypeOK, Brokers, Tick
<1>5. \A b \in Agents, t \in Tasks : HasClaim(b, t)' => HasClaim(b, t)
  BY <1>3 DEF HasClaim, ClaimsOn
<1>6. \A b \in Agents, t \in Tasks : Winning(b, t) /\ HasClaim(b, t)' => Winning(b, t)'
  <2> SUFFICES ASSUME NEW b \in Agents, NEW t \in Tasks, Winning(b, t), HasClaim(b, t)'
               PROVE  Winning(b, t)'
    OBVIOUS
  <2>1. PICK c \in claims' : c.task = t /\ c.agent = b
    BY DEF HasClaim, ClaimsOn
  <2>2. PICK d \in claims : c.task = d.task /\ c.agent = d.agent /\ c.no = d.no
    BY <1>3, <2>1
  <2>3. \A x \in claims : x.task = t => d.no <= x.no
    BY <2>1, <2>2 DEF Winning, ClaimsOn, ClaimInv, ClaimOrder
  <2>. QED BY <1>3, <2>1, <2>2, <2>3 DEF Winning, ClaimsOn
<1>7. TypeOK'
  <2>1. \A n \in Nat : Less(n) \in Nat
    BY DEF Less
  <2>2. ASSUME NEW b \in Agents
        PROVE  [broker[b] EXCEPT !.lease = Less(@), !.left = Less(@)] \in Brokers
    BY <2>1 DEF TypeOK, Brokers
  <2>3. broker' = [b \in Agents |-> [broker[b] EXCEPT !.lease = Less(@), !.left = Less(@)]]
    BY DEF Tick
  <2>4. broker' \in [Agents -> Brokers]
    BY <2>2, <2>3
  <2>. QED BY <1>2, <2>4 DEF TypeOK, Tick, count
<1>8. TaskInv'
  BY <1>4 DEF TaskInv
<1>9. ClaimInv'
  <2>1. ClaimOrder'
    BY <1>3 DEF ClaimInv, ClaimOrder
  <2>. QED BY <1>4, <1>5, <2>1 DEF ClaimInv, TaskInv
<1>10. HoldInv'
  BY <1>4, <1>5, <1>6 DEF HoldInv, Holding, TaskInv
<1>11. GenInv'
  <2>1. latest' = latest
    BY DEF Tick
  <2>2. \A b \in Agents : Holding(b)' = Holding(b) /\ Ordered(b)' = Ordered(b)
    BY <1>4 DEF Holding, Ordered
  <2>3. ASSUME NEW b \in Agents, Holding(b)', HasClaim(b, broker[b].task)'
        PROVE  Holding(b) /\ HasClaim(b, broker[b].task)
    <3>1. PICK c \in claims' : c.task = broker'[b].task /\ c.agent = b
      BY <2>3 DEF HasClaim, ClaimsOn
    <3>2. PICK d \in claims : c.task = d.task /\ c.agent = d.agent
      BY <1>3
    <3>. QED BY <1>4, <2>2, <2>3, <3>1, <3>2 DEF HasClaim, ClaimsOn
  <2>. QED BY <1>4, <2>1, <2>2, <2>3 DEF GenInv
<1>. QED BY <1>7, <1>8, <1>9, <1>10, <1>11

LEMMA PostReadyInv ==
  ASSUME NEW t \in Tasks, BrokerInv, PostReady(t)
  PROVE  BrokerInv'
<1> USE BrokerAssumption DEF BrokerInv
<1>1. TypeOK'
  BY DEF TypeOK, Brokers, Pcs, Claims, PullRequests, TaskInv, PostReady, issue, count
<1>2. TaskInv'
  BY DEF TypeOK, Brokers, TaskInv, PostReady, issue, count
<1>3. ClaimInv'
  BY DEF TypeOK, Brokers, TaskInv, ClaimInv, ClaimOrder, HasClaim, ClaimsOn, PostReady, issue, count
<1>4. HoldInv'
  BY DEF TypeOK, Brokers, TaskInv, ClaimInv, ClaimOrder, HoldInv, Holding, HasClaim, Winning, ClaimsOn, PostReady, issue, count
<1>5. GenInv'
  BY DEF TypeOK, Brokers, TaskInv, ClaimInv, ClaimOrder, HoldInv, GenInv, Holding, Ordered, HasClaim, Winning, ClaimsOn, PostReady, issue, count
<1>. QED BY <1>1, <1>2, <1>3, <1>4, <1>5

LEMMA CancelTaskInv ==
  ASSUME NEW t \in Tasks, BrokerInv, CancelTask(t)
  PROVE  BrokerInv'
<1> USE BrokerAssumption DEF BrokerInv
<1>1. TypeOK'
  BY DEF TypeOK, Brokers, Pcs, Claims, PullRequests, TaskInv, CancelTask, issue, count
<1>2. TaskInv'
  BY DEF TypeOK, Brokers, TaskInv, CancelTask, issue, count
<1>3. ClaimInv'
  BY DEF TypeOK, Brokers, TaskInv, ClaimInv, ClaimOrder, HasClaim, ClaimsOn, CancelTask, issue, count
<1>4. HoldInv'
  BY DEF TypeOK, Brokers, TaskInv, ClaimInv, ClaimOrder, HoldInv, Holding, HasClaim, Winning, ClaimsOn, CancelTask, issue, count
<1>5. GenInv'
  BY DEF TypeOK, Brokers, TaskInv, ClaimInv, ClaimOrder, HoldInv, GenInv, Holding, Ordered, HasClaim, Winning, ClaimsOn, CancelTask, issue, count
<1>. QED BY <1>1, <1>2, <1>3, <1>4, <1>5

LEMMA CancelAttemptInv ==
  ASSUME NEW a \in Agents, BrokerInv, CancelAttempt(a)
  PROVE  BrokerInv'
<1> USE BrokerAssumption DEF BrokerInv
<1>1. TypeOK'
  BY DEF TypeOK, Brokers, Pcs, Claims, PullRequests, TaskInv, CancelAttempt, issue, count
<1>2. TaskInv'
  BY DEF TypeOK, Brokers, TaskInv, CancelAttempt, issue, count
<1>3. ClaimInv'
  BY DEF TypeOK, Brokers, TaskInv, ClaimInv, ClaimOrder, HasClaim, ClaimsOn, CancelAttempt, issue, count
<1>4. HoldInv'
  BY DEF TypeOK, Brokers, TaskInv, ClaimInv, ClaimOrder, HoldInv, Holding, HasClaim, Winning, ClaimsOn, CancelAttempt, issue, count
<1>5. GenInv'
  BY DEF TypeOK, Brokers, TaskInv, ClaimInv, ClaimOrder, HoldInv, GenInv, Holding, Ordered, HasClaim, Winning, ClaimsOn, CancelAttempt, issue, count
<1>. QED BY <1>1, <1>2, <1>3, <1>4, <1>5

LEMMA InitInv ==
  ASSUME Init
  PROVE  BrokerInv
<1>1. TypeOK
  BY BrokerAssumption DEF Init, TypeOK, Idle, Brokers, Pcs
<1>2. TaskInv /\ ClaimInv /\ HoldInv /\ GenInv
  BY DEF Init, Idle, TaskInv, ClaimInv, ClaimOrder, HoldInv, GenInv, Holding, Ordered, HasClaim, ClaimsOn
<1>. QED BY <1>1, <1>2 DEF BrokerInv

LEMMA StutterInv ==
  ASSUME BrokerInv, UNCHANGED vars
  PROVE  BrokerInv'
BY DEF BrokerInv, vars, issue, count, TypeOK, TaskInv, ClaimInv, ClaimOrder, HoldInv, GenInv,
       Holding, Ordered, HasClaim, Winning, ClaimsOn

LEMMA NextInv ==
  ASSUME BrokerInv, [Next]_vars
  PROVE  BrokerInv'
<1>1. ASSUME NEW a \in Agents, Step(a)
      PROVE  BrokerInv'
  BY <1>1, PollInv, PostClaimInv, ConfirmInv, PostOrderInv, AuthorizeInv, WorkInv, ReconcileInv,
     PublishInv, CloseOrderInv, CloseTaskInv, ReleaseInv DEF Step
<1>2. ASSUME NEW a \in Agents,
             RequestFails(a) \/ Crash(a) \/ Restart(a) \/ CancelAttempt(a)
      PROVE  BrokerInv'
  BY <1>2, RequestFailsInv, CrashInv, RestartInv, CancelAttemptInv
<1>3. ASSUME NEW t \in Tasks, PostReady(t) \/ CancelTask(t)
      PROVE  BrokerInv'
  BY <1>3, PostReadyInv, CancelTaskInv
<1>. QED BY <1>1, <1>2, <1>3, TickInv, StutterInv DEF Next

LEMMA BrokerInvariant == Spec => []BrokerInv
<1>1. Init => BrokerInv
  BY InitInv
<1>2. BrokerInv /\ [Next]_vars => BrokerInv'
  BY NextInv
<1>. QED BY <1>1, <1>2, PTL DEF Spec

\* However many brokers poll, crash and retry, no two of them work on the same
\* task while both hold a live claim on it: what parse_claim_ledger and
\* authorize_work_order are for.
THEOREM ExclusiveSafety == Spec => [](TypeOK /\ ExclusiveExecution)
<1>1. BrokerInv => TypeOK /\ ExclusiveExecution
  <2> SUFFICES ASSUME BrokerInv, NEW a \in Agents, NEW b \in Agents, a # b,
                      Holding(a), Holding(b), broker[a].task = broker[b].task,
                      HasClaim(a, broker[a].task), HasClaim(b, broker[b].task)
               PROVE  FALSE
    BY DEF BrokerInv, ExclusiveExecution, Holding
  <2>1. Winning(a, broker[a].task) /\ Winning(b, broker[a].task)
    BY DEF BrokerInv, HoldInv
  <2>2. PICK c \in claims : c.task = broker[a].task /\ c.agent = a
                            /\ \A d \in ClaimsOn(broker[a].task) : c.no <= d.no
    BY <2>1 DEF Winning, ClaimsOn
  <2>3. PICK d \in claims : d.task = broker[a].task /\ d.agent = b
                            /\ \A e \in ClaimsOn(broker[a].task) : d.no <= e.no
    BY <2>1 DEF Winning, ClaimsOn
  <2>4. c.no = d.no
    BY <2>2, <2>3 DEF ClaimsOn, BrokerInv, TypeOK, Claims
  <2>. QED BY <2>2, <2>3, <2>4 DEF BrokerInv, ClaimInv, ClaimOrder
<1>. QED BY <1>1, BrokerInvariant, PTL

\* While a broker's claim is the winning one, the WorkOrder it posted keeps the
\* newest generation of its task (next_generation, authorize_work_order): nobody
\* else can post a newer one before that claim is released or expires.
THEOREM LiveOrderNewest == Spec => []LiveOrderIsNewest
<1>1. BrokerInv => LiveOrderIsNewest
  <2> SUFFICES ASSUME BrokerInv, NEW a \in Agents, Holding(a), Ordered(a),
                      Winning(a, broker[a].task)
               PROVE  broker[a].generation = latest[broker[a].task]
    BY DEF LiveOrderIsNewest, Holding, Ordered
  <2>1. HasClaim(a, broker[a].task)
    BY DEF Winning, HasClaim
  <2>2. broker[a].task \in Tasks
    BY DEF BrokerInv, TaskInv, Ordered
  <2>3. latest[broker[a].task] <= broker[a].generation /\ broker[a].generation <= latest[broker[a].task]
    BY <2>1 DEF BrokerInv, GenInv
  <2>. QED BY <2>2, <2>3 DEF BrokerInv, TypeOK, Brokers
<1>. QED BY <1>1, BrokerInvariant, PTL
-----------------------------------------------------------------------------
(***************************************************************************)
(* Pull requests: an agent owes a task at most one more than it has made   *)
(* of it, while it works on the task or could take it again.               *)
(***************************************************************************)
PRs(a, t) == {p \in prs : p.task = t /\ p.agent = a}

Working(a, t) ==
  /\ broker[a].task = t
  /\ broker[a].pc \in {"claim", "confirm", "post_order", "authorize", "codex", "checks",
                       "reconcile", "publish"}
Closing(a, t) == broker[a].task = t /\ broker[a].pc \in {"close_order", "close_task"}

\* The closing broker is about to end the directive it answered.
Due(a, t) == IF Working(a, t) \/ (t \in ready /\ ~Closing(a, t)) THEN 1 ELSE 0
Allowed(t) == readied[t] + crashes + faults

PRsWithin(a, t) == IsFiniteSet(PRs(a, t)) /\ Cardinality(PRs(a, t)) + Due(a, t) <= Allowed(t)
PRInv == \A a \in Agents, t \in Tasks : PRsWithin(a, t)

\* A step keeps what is allowed when it adds a pull request only that was due.
LEMMA PRStep ==
  ASSUME TypeOK, TypeOK', NEW a \in Agents, NEW t \in Tasks, NEW x, PRsWithin(a, t),
         \/ PRs(a, t)' = PRs(a, t) /\ Due(a, t)' + Allowed(t) <= Due(a, t) + Allowed(t)'
         \/ PRs(a, t)' = PRs(a, t) \cup {x} /\ Due(a, t)' + Allowed(t) + 1 <= Due(a, t) + Allowed(t)'
  PROVE  PRsWithin(a, t)'
<1>1. /\ Due(a, t) \in Nat /\ Due(a, t)' \in Nat
      /\ Allowed(t) \in Nat /\ Allowed(t)' \in Nat
  BY DEF TypeOK, Due, Allowed
<1>2. /\ IsFiniteSet(PRs(a, t)) /\ Cardinality(PRs(a, t)) \in Nat
      /\ Cardinality(PRs(a, t)) + Due(a, t) <= Allowed(t)
  BY FS_CardinalityType DEF PRsWithin
<1>3. CASE PRs(a, t)' = PRs(a, t) /\ Due(a, t)' + Allowed(t) <= Due(a, t) + Allowed(t)'
  <2>1. Cardinality(PRs(a, t)) + Due(a, t)' <= Allowed(t)'
    BY <1>1, <1>2, <1>3
  <2>. QED  BY <1>2, <1>3, <2>1 DEF PRsWithin
<1>4. CASE PRs(a, t)' = PRs(a, t) \cup {x} /\ Due(a, t)' + Allowed(t) + 1 <= Due(a, t) + Allowed(t)'
  <2>1. /\ IsFiniteSet(PRs(a, t) \cup {x}) /\ Cardinality(PRs(a, t) \cup {x}) \in Nat
        /\ Cardinality(PRs(a, t) \cup {x}) <= Cardinality(PRs(a, t)) + 1
    <3>1. /\ IsFiniteSet(PRs(a, t) \cup {x})
          /\ \/ Cardinality(PRs(a, t) \cup {x}) = Cardinality(PRs(a, t))
             \/ Cardinality(PRs(a, t) \cup {x}) = Cardinality(PRs(a, t)) + 1
      BY <1>2, FS_AddElement
    <3>. QED  BY <1>2, <3>1
  <2>2. Cardinality(PRs(a, t) \cup {x}) + Due(a, t)' <= Allowed(t)'
    BY <1>1, <1>2, <1>4, <2>1
  <2>. QED  BY <1>4, <2>1, <2>2 DEF PRsWithin
<1>. QED  BY <1>3, <1>4

\* A step that publishes nothing: what becomes due is allowed.
LEMMA SamePRs ==
  ASSUME TypeOK, TypeOK', PRInv, UNCHANGED prs,
         \A a \in Agents, t \in Tasks : Due(a, t)' + Allowed(t) <= Due(a, t) + Allowed(t)'
  PROVE  PRInv'
<1>. SUFFICES ASSUME NEW a \in Agents, NEW t \in Tasks PROVE PRsWithin(a, t)'
  BY DEF PRInv
<1>1. PRs(a, t)' = PRs(a, t)
  BY DEF PRs
<1>. QED  BY <1>1, PRStep DEF PRInv

\* The pull request of broker a lands: it was due to its task alone.
LEMMA LandPRs ==
  ASSUME TypeOK, TypeOK', PRInv, TaskInv, NEW a \in Agents, broker[a].pc = "publish",
         LandPullRequest(a),
         \A b \in Agents, t \in Tasks :
           /\ b # a \/ t # broker[a].task =>
                Due(b, t)' + Allowed(t) <= Due(b, t) + Allowed(t)'
           /\ b = a /\ t = broker[a].task => Due(b, t)' + Allowed(t) + 1 <= Due(b, t) + Allowed(t)'
  PROVE  PRInv'
<1> DEFINE x == [task |-> broker[a].task, agent |-> a, attempt |-> broker[a].attempt,
                 generation |-> broker[a].generation]
<1>1. prs' = prs \cup {x} /\ x.task = broker[a].task /\ x.agent = a
  BY DEF LandPullRequest
<1>. HIDE DEF x
<1>. SUFFICES ASSUME NEW b \in Agents, NEW t \in Tasks PROVE PRsWithin(b, t)'
  BY DEF PRInv
<1>2. CASE b # a \/ t # broker[a].task
  <2>1. PRs(b, t)' = PRs(b, t)
    BY <1>1, <1>2 DEF PRs
  <2>. QED  BY <1>2, <2>1, PRStep DEF PRInv
<1>3. CASE b = a /\ t = broker[a].task
  <2>1. PRs(b, t)' = PRs(b, t) \cup {x}
    BY <1>1, <1>3 DEF PRs
  <2>. QED  BY <1>3, <2>1, PRStep DEF PRInv
<1>. QED  BY <1>2, <1>3

LEMMA PRNext ==
  ASSUME BrokerInv, PRInv, [Next]_vars
  PROVE  PRInv'
<1>. USE DEF issue, count
<1>1. TypeOK /\ TypeOK' /\ TaskInv
  BY NextInv DEF BrokerInv
<1>2. \A t \in Tasks : Allowed(t) \in Nat
  BY <1>1 DEF TypeOK, Allowed
<1>3. ASSUME NEW a \in Agents,
             \/ \E t \in Tasks : Poll(a, t)
             \/ PostClaim(a) \/ Confirm(a) \/ PostOrder(a) \/ Authorize(a) \/ Work(a)
             \/ Reconcile(a) \/ CloseOrder(a) \/ CloseTask(a) \/ Release(a)
             \/ Restart(a) \/ CancelAttempt(a)
      PROVE  PRInv'
  <2>1. /\ UNCHANGED <<prs, readied, crashes, faults>>
        /\ \A b \in Agents \ {a} : broker'[b] = broker[b]
        /\ ready' = ready \/ CloseTask(a)
    BY <1>1, <1>3 DEF TypeOK, Poll, PostClaim, LandClaim, Confirm, PostOrder, LandOrder, Authorize, Work,
       Reconcile, CloseOrder, LandOrderDone, CloseTask, LandTaskDone, Release, LandRelease, Restart,
       CancelAttempt, Goto, Stop
  <2>2. CASE CloseTask(a)
    <3>1. ready' = ready \ {broker[a].task} /\ broker'[a].task = broker[a].task /\ broker'[a].pc = "release"
      BY <1>1, <2>2 DEF CloseTask, LandTaskDone, Goto, TypeOK, Brokers
    <3>2. ASSUME NEW b \in Agents, NEW t \in Tasks PROVE Due(b, t)' <= Due(b, t)
      BY <2>1, <3>1 DEF Due, Working, Closing
    <3>. QED  BY <1>1, <1>2, <2>1, <3>2, SamePRs DEF Due, Allowed
  <2>3. CASE ready' = ready
    <3>1. ASSUME NEW t \in Tasks PROVE Due(a, t)' <= Due(a, t)
      <4>1. CASE \E s \in Tasks : Poll(a, s)
        BY <1>1, <2>3, <4>1 DEF TypeOK, Brokers, Due, Working, Closing, Poll, Idle
      <4>2. CASE Confirm(a) \/ Release(a) \/ Restart(a)
        BY <1>1, <2>3, <4>2 DEF TypeOK, Brokers, Due, Working, Closing, Confirm, Release, Restart, Stop, Idle
      <4>3. CASE PostClaim(a) \/ PostOrder(a) \/ Authorize(a) \/ Work(a) \/ Reconcile(a)
        BY <1>1, <2>3, <4>3 DEF TypeOK, Brokers, Due, Working, Closing, PostClaim, PostOrder,
           Authorize, Work, Reconcile, Goto
      <4>4. CASE CloseOrder(a) \/ CloseTask(a) \/ CancelAttempt(a)
        BY <1>1, <2>3, <4>4 DEF TypeOK, Brokers, Due, Working, Closing, CloseOrder, CloseTask,
           LandTaskDone, CancelAttempt, Goto
      <4>. QED  BY <1>3, <4>1, <4>2, <4>3, <4>4
    <3>2. ASSUME NEW b \in Agents, NEW t \in Tasks PROVE Due(b, t)' <= Due(b, t)
      BY <2>1, <2>3, <3>1 DEF Due, Working, Closing
    <3>. QED  BY <1>1, <1>2, <2>1, <3>2, SamePRs DEF Due, Allowed
  <2>. QED  BY <2>1, <2>2, <2>3
<1>4. ASSUME NEW a \in Agents, Publish(a) PROVE PRInv'
  <2>1. /\ broker[a].pc = "publish" /\ broker'[a].pc = "close_order"
        /\ broker'[a].task = broker[a].task
        /\ \A b \in Agents \ {a} : broker'[b] = broker[b]
        /\ UNCHANGED <<ready, readied, crashes, faults>>
    BY <1>1, <1>4 DEF TypeOK, Brokers, Publish, LandPullRequest, Goto
  <2>2. ASSUME NEW b \in Agents, NEW t \in Tasks
        PROVE  /\ Due(b, t)' <= Due(b, t)
               /\ b = a /\ t = broker[a].task => Due(b, t)' + 1 <= Due(b, t)
    BY <2>1 DEF Due, Working, Closing
  <2>3. \A t \in Tasks : Allowed(t)' = Allowed(t)
    BY <2>1 DEF Allowed
  <2>4. \A b \in Agents, t \in Tasks : Due(b, t) \in Nat /\ Due(b, t)' \in Nat
    BY DEF Due
  <2>5. ASSUME NEW b \in Agents, NEW t \in Tasks
        PROVE  /\ Due(b, t)' + Allowed(t) <= Due(b, t) + Allowed(t)'
               /\ b = a /\ t = broker[a].task => Due(b, t)' + Allowed(t) + 1 <= Due(b, t) + Allowed(t)'
    BY <1>2, <2>2, <2>3, <2>4
  <2>. QED  BY <1>1, <1>4, <2>1, <2>5, LandPRs, SamePRs DEF Publish
<1>5. ASSUME NEW a \in Agents, RequestFails(a) \/ Crash(a) PROVE PRInv'
  <2>1. /\ \A b \in Agents \ {a} : broker'[b] = broker[b]
        /\ readied' = readied /\ ready' \subseteq ready
        /\ \/ crashes' = crashes + 1 /\ faults' = faults
           \/ crashes' = crashes /\ faults' = faults + 1
        /\ (broker[a].pc = "publish" /\ LandPullRequest(a)) \/ UNCHANGED prs
    BY <1>1, <1>5 DEF TypeOK, RequestFails, Crash, Goto, Stop, Land, LandClaim, LandOrder, LandOrderDone,
       LandTaskDone, LandRelease, LandPullRequest
  <2>2. ASSUME NEW t \in Tasks PROVE Allowed(t)' = Allowed(t) + 1
    <3>1. /\ readied[t] \in Nat /\ crashes \in Nat /\ faults \in Nat
          /\ crashes' \in Nat /\ faults' \in Nat
      BY <1>1 DEF TypeOK
    <3>2. Allowed(t)' = readied[t] + crashes' + faults'
      BY <2>1 DEF Allowed
    <3>3. readied[t] + crashes' + faults' = readied[t] + crashes + faults + 1
      BY <2>1, <3>1
    <3>. QED  BY <3>2, <3>3 DEF Allowed
  <2>3. ASSUME NEW b \in Agents, NEW t \in Tasks
        PROVE  /\ Due(b, t) \in {0, 1} /\ Due(b, t)' \in {0, 1}
               /\ b = a /\ t = broker[a].task /\ broker[a].pc = "publish" => Due(b, t) = 1
    BY DEF Due, Working
  <2>4. ASSUME NEW b \in Agents, NEW t \in Tasks
        PROVE  /\ Due(b, t)' + Allowed(t) <= Due(b, t) + Allowed(t)'
               /\ b = a /\ t = broker[a].task /\ broker[a].pc = "publish" =>
                    Due(b, t)' + Allowed(t) + 1 <= Due(b, t) + Allowed(t)'
    BY <1>2, <2>2, <2>3
  <2>. QED  BY <1>1, <2>1, <2>4, LandPRs, SamePRs
<1>6. ASSUME NEW t \in Tasks, PostReady(t) PROVE PRInv'
  <2>1. /\ UNCHANGED <<prs, broker, crashes, faults>> /\ ready' = ready \cup {t}
        /\ readied' = [readied EXCEPT ![t] = @ + 1]
    BY <1>6 DEF PostReady
  <2>2. ASSUME NEW b \in Agents, NEW s \in Tasks
        PROVE  /\ Due(b, s) \in {0, 1} /\ Due(b, s)' \in {0, 1}
               /\ s # t => Due(b, s)' = Due(b, s)
    BY <2>1 DEF Due, Working, Closing
  <2>3. ASSUME NEW s \in Tasks PROVE Allowed(s)' = IF s = t THEN Allowed(s) + 1 ELSE Allowed(s)
    BY <1>1, <2>1 DEF TypeOK, Allowed
  <2>4. ASSUME NEW b \in Agents, NEW s \in Tasks
        PROVE  Due(b, s)' + Allowed(s) <= Due(b, s) + Allowed(s)'
    BY <1>2, <2>2, <2>3
  <2>. QED  BY <1>1, <2>1, <2>4, SamePRs
<1>7. CASE (\E t \in Tasks : CancelTask(t)) \/ Tick \/ UNCHANGED vars
  <2>1. /\ UNCHANGED <<prs, readied, crashes, faults>> /\ ready' \subseteq ready
        /\ \A b \in Agents : broker'[b].pc = broker[b].pc /\ broker'[b].task = broker[b].task
    BY <1>1, <1>7 DEF TypeOK, Brokers, CancelTask, Tick, vars
  <2>2. ASSUME NEW b \in Agents, NEW t \in Tasks PROVE Due(b, t)' <= Due(b, t)
    BY <2>1 DEF Due, Working, Closing
  <2>. QED  BY <1>1, <1>2, <2>1, <2>2, SamePRs DEF Due, Allowed
<1>. QED  BY <1>3, <1>4, <1>5, <1>6, <1>7 DEF Next, Step

\* However many brokers poll, expire and retry, an agent opens no more pull
\* requests for a task than there were READY directives for it, apart from
\* crashes and failed requests: closeout ends the directive it answers.
THEOREM FewPullRequests == Spec => []DuplicatePRsNeedInterruptions
<1>1. Init => PRInv
  <2>. SUFFICES ASSUME Init, NEW a \in Agents, NEW t \in Tasks PROVE PRsWithin(a, t)
    BY DEF PRInv
  <2>1. PRs(a, t) = {} /\ Due(a, t) = 0 /\ Allowed(t) = 0
    BY DEF Init, PRs, Due, Allowed, Working, Closing, Idle
  <2>. QED  BY <2>1, FS_EmptySet DEF PRsWithin
<1>2. BrokerInv /\ PRInv /\ [Next]_vars => PRInv'
  BY PRNext
<1>3. BrokerInv /\ PRInv => DuplicatePRsNeedInterruptions
  <2>. SUFFICES ASSUME BrokerInv, PRInv, NEW a \in Agents, NEW t \in Tasks
                PROVE  Cardinality(PRs(a, t)) <= Allowed(t)
    BY DEF DuplicatePRsNeedInterruptions, PRs, Allowed
  <2>1. /\ Due(a, t) \in Nat /\ Cardinality(PRs(a, t)) \in Nat /\ Allowed(t) \in Nat
        /\ Cardinality(PRs(a, t)) + Due(a, t) <= Allowed(t)
    BY FS_CardinalityType DEF BrokerInv, TypeOK, PRInv, PRsWithin, Due, Allowed
  <2>. QED  BY <2>1
<1>. QED  BY <1>1, <1>2, <1>3, BrokerInvariant, PTL DEF Spec
-----------------------------------------------------------------------------
(***************************************************************************)
(* The privileged lane.  A verifier has at most one live claim on a task,  *)
(* so the one that confirmed its claim keeps winning until its lease runs  *)
(* out; only a winner's order is authorized, and an order is made with a   *)
(* generation above every one authorized before.                           *)
(***************************************************************************)

PrivilegedTasks == {d.task : d \in Directives}

\* What a directive looks like once the owner has posted it.
Posted == [type : {"TASK"}, no : Nat, task : PrivilegedTasks, sha : {d.sha : d \in Directives},
           reviewed : {d.reviewed : d \in Directives}, dispatch : {d.dispatch : d \in Directives},
           action : {d.action : d \in Directives}, access : {d.access : d \in Directives}]

Claimed == [type : {"CLAIM"}, task : PrivilegedTasks, agent : Verifiers, until : Nat,
            attempt : Nat \cup {Nothing}, generation : Int]

Verifying(v) == verifier[v].pc \in {"order", "authorize", "launch", "run"}
Attempting(v) == Verifying(v) \/ verifier[v].pc \in {"close", "end", "release"}

VerifierTypeOK ==
  /\ ledger.active \subseteq Posted /\ ledger.claims \in Seq(Claimed)
  /\ ledger.latest \in [PrivilegedTasks -> Int]
  /\ owner \in Nat /\ made \in Nat /\ clock \in Nat /\ interrupts \in Nat
  /\ verifier \in [Verifiers ->
       [pc : {"idle", "claim", "confirm", "order", "authorize", "launch", "run", "close", "end", "release"},
        task : Posted \cup {Nothing}, attempt : Nat \cup {Nothing}, generation : Int,
        deadline : Nat, until : Nat, status : {Nothing, "BLOCKED", "PASS", "FAILED"}]]
  /\ executed \subseteq [agent : Verifiers, directive : Posted, attempt : Nat, generation : Int,
                         deadline : Nat, until : Nat, live : BOOLEAN]

\* Every attempt is one verifier's; an action carries what its order said.
AttemptInv ==
  /\ \A v \in Verifiers :
       /\ verifier[v].pc # "idle" => verifier[v].task \in Posted
       /\ IF Attempting(v) THEN verifier[v].attempt \in 0..made - 1 ELSE verifier[v].attempt = Nothing
       /\ verifier[v].pc = "run" => clock <= verifier[v].deadline
       /\ verifier[v].pc = "launch" => verifier[v].task.dispatch \in TrustedDispatch
  /\ \A v, w \in Verifiers : Attempting(v) /\ verifier[v].attempt = verifier[w].attempt => v = w
  /\ \A x \in executed :
       /\ x.attempt \in 0..made - 1 /\ x.directive.dispatch \in TrustedDispatch
       /\ \A v \in Verifiers : verifier[v].attempt = x.attempt =>
            /\ v = x.agent /\ verifier[v].task = x.directive
            /\ verifier[v].deadline = x.deadline /\ verifier[v].until = x.until
            /\ verifier[v].pc \notin {"order", "authorize", "launch"}
            /\ x.live => verifier[v].pc = "run"
  /\ \A x, y \in executed : x.attempt = y.attempt => x = y

\* At place i of the ledger is a claim of v on the task that still runs.
ClaimAt(i, v, task) == i \in active_for(task) /\ ledger.claims[i].agent = v
Wins(v, task) == \E i \in DOMAIN ledger.claims : ClaimAt(i, v, task) /\ \A j \in active_for(task) : i <= j

LeaseOf(v) ==
  /\ verifier[v].pc = "claim" => \A i \in DOMAIN ledger.claims : ~ClaimAt(i, v, verifier[v].task.task)
  /\ verifier[v].pc = "confirm" \/ Attempting(v) => \A i \in DOMAIN ledger.claims :
       ClaimAt(i, v, verifier[v].task.task) => ledger.claims[i].until = verifier[v].until
  /\ Verifying(v) /\ verifier[v].until > clock => Wins(v, verifier[v].task.task)
LeaseInv == \A v \in Verifiers : LeaseOf(v)

\* An order in the making is newer than all that were authorized.
Same(v, task) == verifier[v].task.task = task
Live(v) == verifier[v].pc \in {"order", "authorize"} /\ verifier[v].until > clock
LatestInv ==
  /\ \A v \in Verifiers : Attempting(v) /\ verifier[v].pc # "order" =>
       verifier[v].generation <= ledger.latest[verifier[v].task.task]
  /\ \A x \in executed : x.generation <= ledger.latest[x.directive.task]
NewerInv ==
  \A v \in Verifiers : Live(v) =>
    /\ \A x \in executed : Same(v, x.directive.task) => x.generation < verifier[v].generation
    /\ \A w \in Verifiers : verifier[w].pc = "launch" /\ Same(v, verifier[w].task.task) =>
         verifier[w].generation < verifier[v].generation
LaunchInv ==
  \A v \in Verifiers : verifier[v].pc = "launch" =>
    /\ \A x \in executed : Same(v, x.directive.task) => x.generation # verifier[v].generation
    /\ \A w \in Verifiers : verifier[w].pc = "launch" /\ Same(v, verifier[w].task.task) =>
         v = w \/ verifier[w].generation # verifier[v].generation
GenerationInv == LatestInv /\ NewerInv /\ LaunchInv /\ GenerationsTellAttemptsApart

\* The verifier may still launch the directive once more.
Pending(v, d) ==
  \/ verifier[v].task = d /\ verifier[v].pc \in {"claim", "confirm", "order", "authorize", "launch"}
  \/ d \in ledger.active /\ ~(verifier[v].task = d /\ verifier[v].pc \in {"run", "close", "end"})

Launches(v, d) == {x \in executed : x.agent = v /\ x.directive = d}
RunsWithin(v, d) ==
  /\ IsFiniteSet(Launches(v, d))
  /\ Cardinality(Launches(v, d)) + (IF Pending(v, d) THEN 1 ELSE 0) <= 1 + interrupts

\* Directives are told apart by the comment that posted them.
NumberInv ==
  /\ \A d \in ledger.active : d.no < owner
  /\ \A v \in Verifiers : verifier[v].pc # "idle" => verifier[v].task.no < owner
  /\ \A x \in executed : x.directive.no < owner
OnceInv == NumberInv /\ \A v \in Verifiers, d \in Posted : RunsWithin(v, d)

VerifierInv == VerifierTypeOK /\ AttemptInv /\ LeaseInv /\ GenerationInv /\ OnceInv
-----------------------------------------------------------------------------
(***************************************************************************)
(* The ledger                                                              *)
(***************************************************************************)

LEMMA MinOfNaturals ==
  ASSUME NEW T \in SUBSET Nat, T # {}
  PROVE  Min(T) \in T /\ \A n \in T : Min(T) <= n
<1>1. \E R : IsWellFoundedOn(R, Nat) /\ \A m, n \in Nat : n < m => <<n, m>> \in R
  <2> DEFINE R == OpToRel(<, Nat)
  <2>1. IsWellFoundedOn(R, Nat)
    BY NatLessThanWellFounded
  <2>2. \A m, n \in Nat : n < m => <<n, m>> \in R
    BY DEF OpToRel
  <2>. QED  BY <2>1, <2>2
<1>2. PICK R : IsWellFoundedOn(R, Nat) /\ \A m, n \in Nat : n < m => <<n, m>> \in R
  BY <1>1
<1>3. PICK m \in T : \A n \in T : <<n, m>> \notin R
  BY <1>2, WFMin
<1>4. ASSUME NEW n \in T PROVE m <= n
  <2>1. m \in Nat /\ n \in Nat
    OBVIOUS
  <2>2. ~(n < m)
    BY <1>2, <1>3, <2>1
  <2>. QED  BY <2>1, <2>2
<1>. QED  BY <1>4 DEF Min

LEMMA MaxOfNaturals ==
  ASSUME NEW N \in Nat, NEW T \in SUBSET (1..N), T # {}
  PROVE  Max(T) \in T
<1> DEFINE U == {N - n : n \in T}
<1>1. U \in SUBSET Nat /\ U # {}
  <2>1. \A n \in T : N - n \in Nat
    OBVIOUS
  <2>. QED  BY <2>1
<1>2. PICK u \in U : \A n \in U : u <= n
  <2> HIDE DEF U
  <2>. QED  BY <1>1, MinOfNaturals
<1>3. PICK m \in T : u = N - m
  BY <1>2
<1>4. ASSUME NEW n \in T PROVE m >= n
  <2>1. N - m <= N - n
    BY <1>2, <1>3
  <2>2. m \in Int /\ n \in Int /\ N \in Int
    OBVIOUS
  <2>. QED  BY <2>1, <2>2
<1>. QED  BY <1>4 DEF Max

LEMMA MaxOfTwo ==
  ASSUME NEW m \in Int, NEW n \in Int
  PROVE  Max({m, n}) \in Int /\ m <= Max({m, n}) /\ n <= Max({m, n})
<1>1. \E x \in {m, n} : \A y \in {m, n} : x >= y
  <2>1. CASE m >= n
    BY <2>1
  <2>2. CASE n >= m
    BY <2>2
  <2>. QED  BY <2>1, <2>2
<1>2. Max({m, n}) \in {m, n} /\ \A y \in {m, n} : Max({m, n}) >= y
  BY <1>1 DEF Max
<1>3. Max({m, n}) \in Int
  BY <1>2
<1>. QED  BY <1>2, <1>3

\* RemoveAt closes the gap and keeps the order of the rest.
LEMMA RemoveAtProperties ==
  ASSUME NEW S, NEW s \in Seq(S), NEW k \in 1..Len(s)
  PROVE  /\ RemoveAt(s, k) \in Seq(S)
         /\ Len(RemoveAt(s, k)) = Len(s) - 1
         /\ \A i \in 1..Len(s) - 1 : RemoveAt(s, k)[i] = s[IF i < k THEN i ELSE i + 1]
<1> DEFINE a == SubSeq(s, 1, k - 1)
           b == SubSeq(s, k + 1, Len(s))
<1>1. Len(s) \in Nat /\ k \in Int /\ \A i \in 1..Len(s) : s[i] \in S
  BY LenProperties, ElementOfSeq
<1>2. /\ a \in Seq(S) /\ Len(a) = k - 1
      /\ \A i \in 1..k - 1 : a[i] = s[i]
  <2>1. \A i \in 1..k - 1 : s[i] \in S
    BY <1>1
  <2>2. /\ a \in Seq(S) /\ Len(a) = IF 1 <= k - 1 THEN (k - 1) - 1 + 1 ELSE 0
        /\ \A i \in 1..(k - 1) - 1 + 1 : a[i] = s[1 + i - 1]
    BY <1>1, <2>1, SubSeqProperties
  <2>. QED  BY <1>1, <2>2
<1>3. /\ b \in Seq(S) /\ Len(b) = Len(s) - k
      /\ \A i \in 1..Len(s) - k : b[i] = s[k + i]
  <2>1. \A i \in k + 1..Len(s) : s[i] \in S
    BY <1>1
  <2>2. /\ b \in Seq(S) /\ Len(b) = IF k + 1 <= Len(s) THEN Len(s) - (k + 1) + 1 ELSE 0
        /\ \A i \in 1..Len(s) - (k + 1) + 1 : b[i] = s[(k + 1) + i - 1]
    BY <1>1, <2>1, SubSeqProperties
  <2>. QED  BY <1>1, <2>2
<1>4. /\ a \o b \in Seq(S) /\ Len(a \o b) = Len(a) + Len(b)
      /\ \A i \in 1..Len(a) + Len(b) : (a \o b)[i] = IF i <= Len(a) THEN a[i] ELSE b[i - Len(a)]
  BY <1>2, <1>3, ConcatProperties
<1>5. RemoveAt(s, k) = a \o b
  BY DEF RemoveAt
<1> HIDE DEF a, b
<1>7. Len(a) + Len(b) = Len(s) - 1
  BY <1>1, <1>2, <1>3
<1>6. ASSUME NEW i \in 1..Len(s) - 1 PROVE (a \o b)[i] = s[IF i < k THEN i ELSE i + 1]
  <2>1. (a \o b)[i] = IF i <= k - 1 THEN a[i] ELSE b[i - (k - 1)]
    BY <1>2, <1>4, <1>7
  <2>2. CASE i < k
    BY <1>1, <1>2, <2>1, <2>2
  <2>3. CASE ~(i < k)
    <3>1. b[i - (k - 1)] = s[k + (i - (k - 1))]
      <4>1. i - (k - 1) \in 1..Len(s) - k
        BY <1>1, <2>3
      <4>. QED  BY <1>3, <4>1
    <3>2. k + (i - (k - 1)) = i + 1
      BY <1>1
    <3>. QED  BY <1>1, <2>1, <2>3, <3>1, <3>2
  <2>. QED  BY <2>2, <2>3
<1>. QED  BY <1>4, <1>5, <1>6, <1>7

\* winning_claim names the agent of the earliest claim that still runs.
LEMMA Winner ==
  ASSUME VerifierTypeOK, NEW v \in Verifiers, NEW t
  PROVE  /\ winning_claim(t) = v => Wins(v, t)
         /\ winning_claim(t) = Nothing => active_for(t) = {}
<1>1. DOMAIN ledger.claims = 1..Len(ledger.claims) /\ Len(ledger.claims) \in Nat
  BY LenProperties DEF VerifierTypeOK
<1>2. active_for(t) \in SUBSET Nat
  BY <1>1 DEF active_for
<1>3. CASE active_for(t) = {}
  BY <1>3, VerifierAssumption DEF winning_claim
<1>4. CASE active_for(t) # {}
  <2> DEFINE m == Min(active_for(t))
  <2>1. m \in active_for(t) /\ \A j \in active_for(t) : m <= j
    BY <1>2, <1>4, MinOfNaturals
  <2>2. m \in DOMAIN ledger.claims /\ ledger.claims[m].agent \in Verifiers
    <3>1. m \in DOMAIN ledger.claims
      BY <2>1 DEF active_for
    <3>2. ledger.claims[m] \in Claimed
      BY <1>1, <3>1, ElementOfSeq DEF VerifierTypeOK
    <3>. QED  BY <3>1, <3>2 DEF Claimed
  <2>3. winning_claim(t) = ledger.claims[m].agent
    BY <1>4 DEF winning_claim
  <2>. QED  BY <2>1, <2>2, <2>3, VerifierAssumption DEF Wins, ClaimAt
<1>. QED  BY <1>3, <1>4

LEMMA OneWinner ==
  ASSUME VerifierTypeOK, NEW v, NEW w, NEW t, Wins(v, t), Wins(w, t)
  PROVE  v = w
<1>1. PICK i \in DOMAIN ledger.claims : ClaimAt(i, v, t) /\ \A j \in active_for(t) : i <= j
  BY DEF Wins
<1>2. PICK k \in DOMAIN ledger.claims : ClaimAt(k, w, t) /\ \A j \in active_for(t) : k <= j
  BY DEF Wins
<1>3. i \in Nat /\ k \in Nat
  BY LenProperties DEF VerifierTypeOK
<1>4. i <= k /\ k <= i
  BY <1>1, <1>2 DEF ClaimAt
<1>5. i = k
  BY <1>3, <1>4
<1>. QED  BY <1>1, <1>2, <1>5 DEF ClaimAt

\* A step leaves the agent no claims but those it had, and lets it win on.
NoNewClaims(v) ==
  \A t \in PrivilegedTasks : \A i \in DOMAIN ledger'.claims : ClaimAt(i, v, t)' =>
    \E j \in DOMAIN ledger.claims : ClaimAt(j, v, t) /\ ledger.claims[j].until = ledger'.claims[i].until
KeepsWinning(v) == \A t \in PrivilegedTasks : Wins(v, t) => Wins(v, t)'

LEMMA ClaimsAlone ==
  ASSUME ledger'.claims = ledger.claims, clock' = clock, NEW v
  PROVE  NoNewClaims(v) /\ KeepsWinning(v)
BY DEF NoNewClaims, KeepsWinning, Wins, ClaimAt, active_for

LEMMA NewClaim ==
  ASSUME VerifierTypeOK, NEW c \in Claimed, ledger'.claims = Append(ledger.claims, c), clock' = clock,
         NEW v \in Verifiers
  PROVE  /\ ledger'.claims \in Seq(Claimed)
         /\ KeepsWinning(v)
         /\ v # c.agent => NoNewClaims(v)
         /\ \A i \in DOMAIN ledger'.claims, t \in PrivilegedTasks : ClaimAt(i, v, t)' =>
              ledger'.claims[i] = c \/ \E j \in DOMAIN ledger.claims : ClaimAt(j, v, t)
<1> DEFINE s == ledger.claims
           n == Len(s)
           r == Append(s, c)
<1>1. s \in Seq(Claimed) /\ n \in Nat /\ DOMAIN s = 1..n
  BY LenProperties DEF VerifierTypeOK
<1>2. /\ r \in Seq(Claimed) /\ Len(r) = n + 1
      /\ \A i \in 1..n : r[i] = s[i]
      /\ r[n + 1] = c
  BY <1>1, AppendProperties
<1>3. DOMAIN r = 1..n + 1
  BY <1>2, LenProperties
<1>4. ledger'.claims = r
  OBVIOUS
<1> HIDE DEF r, n, s
<1>5. ASSUME NEW t, NEW i \in 1..n
      PROVE  (i \in active_for(t)) <=> (i \in active_for(t))'
  BY <1>1, <1>2, <1>3, <1>4 DEF active_for, s
<1>6. KeepsWinning(v)
  <2>1. SUFFICES ASSUME NEW t \in PrivilegedTasks, Wins(v, t) PROVE Wins(v, t)'
    BY DEF KeepsWinning
  <2>2. PICK i \in 1..n : ClaimAt(i, v, t) /\ \A j \in active_for(t) : i <= j
    BY <1>1, <2>1 DEF Wins, s
  <2>3. ClaimAt(i, v, t)'
    BY <1>2, <1>4, <1>5, <2>2 DEF ClaimAt, s
  <2>4. ASSUME NEW j \in active_for(t)' PROVE i <= j
    <3>1. j \in 1..n \/ j = n + 1
      BY <1>1, <1>3, <1>4 DEF active_for
    <3>. QED  BY <1>1, <1>5, <2>2, <2>4, <3>1
  <2>5. i \in DOMAIN ledger'.claims
    BY <1>1, <1>3, <1>4
  <2>. QED  BY <2>3, <2>4, <2>5 DEF Wins
<1>7. ASSUME NEW i \in DOMAIN ledger'.claims, NEW t \in PrivilegedTasks, ClaimAt(i, v, t)'
      PROVE  \/ i = n + 1 /\ ledger'.claims[i] = c
             \/ i \in 1..n /\ ClaimAt(i, v, t) /\ ledger'.claims[i] = ledger.claims[i]
  <2>1. CASE i \in 1..n
    BY <1>2, <1>4, <1>5, <1>7, <2>1 DEF ClaimAt, s
  <2>2. CASE i = n + 1
    BY <1>2, <1>4, <2>2
  <2>. QED  BY <1>1, <1>3, <1>4, <2>1, <2>2
<1>8. ASSUME v # c.agent PROVE NoNewClaims(v)
  BY <1>1, <1>7, <1>8 DEF NoNewClaims, ClaimAt, s
<1>. QED  BY <1>1, <1>2, <1>4, <1>6, <1>7, <1>8 DEF s

LEMMA ClaimReleased ==
  ASSUME VerifierTypeOK, NEW k \in DOMAIN ledger.claims, ledger'.claims = RemoveAt(ledger.claims, k),
         clock' = clock, NEW v \in Verifiers
  PROVE  /\ ledger'.claims \in Seq(Claimed)
         /\ NoNewClaims(v)
         /\ v # ledger.claims[k].agent => KeepsWinning(v)
<1> DEFINE s == ledger.claims
           n == Len(s)
           r == RemoveAt(s, k)
           old(i) == IF i < k THEN i ELSE i + 1
<1>1. s \in Seq(Claimed) /\ n \in Nat /\ DOMAIN s = 1..n
  BY LenProperties DEF VerifierTypeOK
<1>2. k \in 1..n
  BY <1>1
<1>3. /\ r \in Seq(Claimed) /\ Len(r) = n - 1
      /\ \A i \in 1..n - 1 : r[i] = s[old(i)]
  BY <1>1, <1>2, RemoveAtProperties
<1>4. DOMAIN r = 1..n - 1
  BY <1>3, LenProperties
<1>5. ledger'.claims = r
  OBVIOUS
<1> HIDE DEF r, n, s
<1>6. ASSUME NEW t, NEW i \in 1..n - 1
      PROVE  (i \in active_for(t))' <=> old(i) \in active_for(t)
  <2>1. old(i) \in 1..n
    BY <1>1, <1>2
  <2>. QED  BY <1>1, <1>3, <1>4, <1>5, <2>1 DEF active_for, s
<1>7. NoNewClaims(v)
  <2>1. SUFFICES ASSUME NEW t \in PrivilegedTasks, NEW i \in 1..n - 1, ClaimAt(i, v, t)'
                 PROVE  \E j \in DOMAIN s : ClaimAt(j, v, t) /\ s[j].until = r[i].until
    BY <1>4, <1>5 DEF NoNewClaims, s
  <2>2. old(i) \in DOMAIN s /\ ClaimAt(old(i), v, t) /\ s[old(i)] = r[i]
    BY <1>1, <1>2, <1>3, <1>5, <1>6, <2>1 DEF ClaimAt, s
  <2>. QED  BY <2>2
<1>8. ASSUME v # s[k].agent PROVE KeepsWinning(v)
  <2>1. SUFFICES ASSUME NEW t \in PrivilegedTasks, Wins(v, t) PROVE Wins(v, t)'
    BY DEF KeepsWinning
  <2>2. PICK m \in 1..n : ClaimAt(m, v, t) /\ \A j \in active_for(t) : m <= j
    BY <1>1, <2>1 DEF Wins, s
  <2>3. m # k
    BY <1>8, <2>2 DEF ClaimAt, s
  <2>4. PICK i \in 1..n - 1 : old(i) = m
    <3>1. CASE m < k
      BY <1>1, <1>2, <3>1
    <3>2. CASE m > k
      <4>1. m - 1 \in 1..n - 1 /\ ~(m - 1 < k) /\ (m - 1) + 1 = m
        BY <1>1, <1>2, <3>2
      <4>. QED  BY <4>1
    <3>. QED  BY <1>1, <1>2, <2>3, <3>1, <3>2
  <2>5. ClaimAt(i, v, t)'
    BY <1>3, <1>5, <1>6, <2>2, <2>4 DEF ClaimAt, s
  <2>6. ASSUME NEW j \in active_for(t)' PROVE i <= j
    <3>1. j \in 1..n - 1
      BY <1>4, <1>5 DEF active_for
    <3>2. old(j) \in active_for(t)
      BY <1>6, <2>6, <3>1
    <3>3. old(i) <= old(j)
      BY <2>2, <2>4, <3>2
    <3>. QED  BY <1>1, <1>2, <3>1, <3>3
  <2>7. i \in DOMAIN ledger'.claims
    BY <1>4, <1>5
  <2>. QED  BY <2>5, <2>6, <2>7 DEF Wins
<1>. QED  BY <1>3, <1>5, <1>7, <1>8 DEF s

\* What a comment c does to the ledger.
Told(c) ==
  /\ ledger'.active \subseteq Posted /\ ledger'.claims \in Seq(Claimed)
  /\ ledger'.latest \in [PrivilegedTasks -> Int]
  /\ \A t \in PrivilegedTasks : ledger.latest[t] <= ledger'.latest[t]
  /\ c.type \in OrderComments => c.generation <= ledger'.latest[c.task]
  /\ ledger'.active \subseteq ledger.active \cup (IF c.type = "TASK" THEN {c} ELSE {})
  /\ c.type \in {"DONE", "BLOCKED"} => \A d \in ledger'.active : d.task # c.task
  /\ c.type \notin {"TASK", "DONE", "BLOCKED"} => ledger'.active = ledger.active
  /\ \A v \in Verifiers :
       /\ c.type # "CLAIM" \/ v # c.agent => NoNewClaims(v)
       /\ c.type # "RELEASE" \/ v # c.agent => KeepsWinning(v)
       /\ c.type = "CLAIM" => \A i \in DOMAIN ledger'.claims, t \in PrivilegedTasks :
            ClaimAt(i, v, t)' => ledger'.claims[i] = c \/ \E j \in DOMAIN ledger.claims : ClaimAt(j, v, t)

LEMMA Comment ==
  ASSUME VerifierTypeOK, NEW c, ledger' = parse_broker_ledger(c), clock' = clock,
         c.type \in {"TASK", "CLAIM", "RELEASE", "DONE", "BLOCKED"} \cup OrderComments,
         c.type = "TASK" => c \in Posted,
         c.type = "CLAIM" => c \in Claimed,
         c.type \in OrderComments => c.task \in PrivilegedTasks /\ c.generation \in Int
  PROVE  Told(c)
<1>1. /\ ledger'.active = active_ready_privileged_tasks(ledger.active, c)
      /\ ledger'.claims = parse_claim_ledger(ledger.claims, c)
      /\ ledger'.latest = IF c.type \in OrderComments
                          THEN [ledger.latest EXCEPT ![c.task] = Max({@, c.generation})] ELSE ledger.latest
  BY DEF parse_broker_ledger
<1>2. /\ ledger'.latest \in [PrivilegedTasks -> Int]
      /\ \A t \in PrivilegedTasks : ledger.latest[t] <= ledger'.latest[t]
      /\ c.type \in OrderComments => c.generation <= ledger'.latest[c.task]
  <2>1. CASE c.type \in OrderComments
    <3> DEFINE m == Max({ledger.latest[c.task], c.generation})
    <3>1. ledger.latest \in [PrivilegedTasks -> Int] /\ c.task \in PrivilegedTasks /\ c.generation \in Int
      BY <2>1 DEF VerifierTypeOK
    <3>2. m \in Int /\ ledger.latest[c.task] <= m /\ c.generation <= m
      BY <3>1, MaxOfTwo
    <3>3. ledger'.latest = [ledger.latest EXCEPT ![c.task] = m]
      BY <1>1, <2>1
    <3> HIDE DEF m
    <3>. QED  BY <3>1, <3>2, <3>3
  <2>2. CASE c.type \notin OrderComments
    BY <1>1, <2>2 DEF VerifierTypeOK
  <2>. QED  BY <2>1, <2>2
<1>3. /\ ledger'.active \subseteq Posted
      /\ ledger'.active \subseteq ledger.active \cup (IF c.type = "TASK" THEN {c} ELSE {})
      /\ c.type \in {"DONE", "BLOCKED"} => \A d \in ledger'.active : d.task # c.task
      /\ c.type \notin {"TASK", "DONE", "BLOCKED"} => ledger'.active = ledger.active
  BY <1>1 DEF active_ready_privileged_tasks, VerifierTypeOK
<1>4. CASE c.type = "CLAIM"
  <2>1. ledger'.claims = Append(ledger.claims, c) /\ c \in Claimed
    BY <1>1, <1>4 DEF parse_claim_ledger
  <2>2. ASSUME NEW v \in Verifiers
        PROVE  /\ ledger'.claims \in Seq(Claimed)
               /\ KeepsWinning(v)
               /\ v # c.agent => NoNewClaims(v)
               /\ \A i \in DOMAIN ledger'.claims, t \in PrivilegedTasks : ClaimAt(i, v, t)' =>
                    ledger'.claims[i] = c \/ \E j \in DOMAIN ledger.claims : ClaimAt(j, v, t)
    BY <2>1, NewClaim
  <2>3. ledger'.claims \in Seq(Claimed)
    BY <2>1, AppendProperties DEF VerifierTypeOK
  <2>. QED  BY <1>2, <1>3, <1>4, <2>2, <2>3 DEF Told
<1>5. CASE c.type = "RELEASE"
  <2> DEFINE own == {i \in DOMAIN ledger.claims : ledger.claims[i].task = c.task /\ ledger.claims[i].agent = c.agent}
  <2>1. ledger'.claims = IF own = {} THEN ledger.claims ELSE RemoveAt(ledger.claims, Max(own))
    BY <1>1, <1>5 DEF parse_claim_ledger
  <2>2. CASE own = {}
    BY <1>2, <1>3, <1>5, <2>1, <2>2, ClaimsAlone DEF Told, VerifierTypeOK
  <2>3. CASE own # {}
    <3>1. Len(ledger.claims) \in Nat /\ own \in SUBSET (1..Len(ledger.claims))
      BY LenProperties DEF VerifierTypeOK
    <3>2. Max(own) \in own
      BY <2>3, <3>1, MaxOfNaturals
    <3>3. PICK k \in DOMAIN ledger.claims : k = Max(own) /\ ledger.claims[k].agent = c.agent
      BY <3>2
    <3>4. ledger'.claims = RemoveAt(ledger.claims, k)
      BY <2>1, <2>3, <3>3
    <3>5. ASSUME NEW v \in Verifiers
          PROVE  NoNewClaims(v) /\ (v # c.agent => KeepsWinning(v))
      BY <3>3, <3>4, ClaimReleased
    <3>6. ledger'.claims \in Seq(Claimed)
      BY <3>4, RemoveAtProperties, LenProperties DEF VerifierTypeOK
    <3>. QED  BY <1>2, <1>3, <1>5, <3>5, <3>6 DEF Told
  <2>. QED  BY <2>2, <2>3
<1>6. CASE c.type \notin {"CLAIM", "RELEASE"}
  <2>1. ledger'.claims = ledger.claims
    BY <1>1, <1>6 DEF parse_claim_ledger
  <2>. QED  BY <1>2, <1>3, <1>6, <2>1, ClaimsAlone DEF Told, VerifierTypeOK
<1>. QED  BY <1>4, <1>5, <1>6

\* Nobody comments.
LEMMA NoComment ==
  ASSUME VerifierTypeOK, ledger' = ledger, clock' = clock
  PROVE  \A v \in Verifiers : NoNewClaims(v) /\ KeepsWinning(v)
BY ClaimsAlone

\* A verifier comments about the task it works on.
LEMMA Own ==
  ASSUME VerifierTypeOK, NEW v \in Verifiers, verifier[v].task \in Posted, verifier'[v].until \in Nat,
         clock' = clock,
         NEW type \in {"CLAIM", "RELEASE", "WORKORDER", "WORKORDER_DONE", "DONE", "BLOCKED"},
         Post(OwnComment(v, type))
  PROVE  \E c : /\ Told(c) /\ c.type = type /\ c.task = verifier[v].task.task /\ c.agent = v
                /\ c.until = verifier'[v].until /\ c.generation = verifier[v].generation
<1>1. PICK c : c = OwnComment(v, type)
  OBVIOUS
<1>2. /\ c = [type |-> type, task |-> verifier[v].task.task, agent |-> v, until |-> verifier'[v].until,
              attempt |-> verifier[v].attempt, generation |-> verifier[v].generation]
      /\ ledger' = parse_broker_ledger(c)
  BY <1>1 DEF OwnComment, Post
<1>3. /\ verifier[v].task.task \in PrivilegedTasks /\ verifier[v].generation \in Int
      /\ verifier[v].attempt \in Nat \cup {Nothing}
  BY DEF VerifierTypeOK, Posted
<1>4. type = "CLAIM" => c \in Claimed
  BY <1>2, <1>3 DEF Claimed
<1>5. Told(c)
  BY <1>2, <1>3, <1>4, Comment DEF OrderComments
<1>. QED  BY <1>2, <1>5
-----------------------------------------------------------------------------
(***************************************************************************)
(* What each step does                                                     *)
(***************************************************************************)

Moves(v, from, to) ==
  /\ verifier[v].pc \in from /\ verifier'[v].pc = to
  /\ \A w \in Verifiers \ {v} : verifier'[w] = verifier[w]

Carries(v) ==
  /\ verifier'[v].task = verifier[v].task /\ verifier'[v].attempt = verifier[v].attempt
  /\ verifier'[v].generation = verifier[v].generation /\ verifier'[v].deadline = verifier[v].deadline
  /\ verifier'[v].until = verifier[v].until

VerifierType ==
  [pc : {"idle", "claim", "confirm", "order", "authorize", "launch", "run", "close", "end", "release"},
   task : Posted \cup {Nothing}, attempt : Nat \cup {Nothing}, generation : Int,
   deadline : Nat, until : Nat, status : {Nothing, "BLOCKED", "PASS", "FAILED"}]

LEMMA VerifierTyped == VerifierTypeOK => verifier \in [Verifiers -> VerifierType]
BY DEF VerifierTypeOK, VerifierType

LEMMA WaitingTyped == Waiting \in VerifierType
BY DEF Waiting, VerifierType

\* A verifier that drops what it holds.
LEMMA Stops ==
  ASSUME VerifierTypeOK, NEW v \in Verifiers, verifier' = [verifier EXCEPT ![v] = Waiting]
  PROVE  /\ verifier' \in [Verifiers -> VerifierType]
         /\ Moves(v, {verifier[v].pc}, "idle")
         /\ verifier'[v].task = Nothing /\ verifier'[v].attempt = Nothing
BY VerifierTyped, WaitingTyped DEF Moves, Waiting

LEMMA Goes ==
  ASSUME VerifierTypeOK, NEW v \in Verifiers,
         NEW to \in {"order", "authorize", "launch", "run", "end", "release", "close"},
         \/ verifier' = [verifier EXCEPT ![v].pc = to]
         \/ \E s \in {"BLOCKED", "PASS", "FAILED"} :
              verifier' = [verifier EXCEPT ![v].pc = to, ![v].status = s]
  PROVE  /\ verifier' \in [Verifiers -> VerifierType]
         /\ Moves(v, {verifier[v].pc}, to) /\ Carries(v)
BY VerifierTyped DEF Moves, Carries, VerifierType

LEMMA PollStep ==
  ASSUME VerifierTypeOK, NEW v \in Verifiers, PollIssue(v)
  PROVE  /\ verifier' \in [Verifiers -> VerifierType]
         /\ Moves(v, {"idle"}, "claim")
         /\ verifier'[v].task \in ledger.active /\ active_for(verifier'[v].task.task) = {}
         /\ verifier'[v].attempt = verifier[v].attempt
<1>1. PICK d \in ledger.active :
        /\ At(v, "idle") /\ winning_claim(d.task) = Nothing
        /\ verifier' = [verifier EXCEPT ![v].pc = "claim", ![v].task = d]
  BY DEF PollIssue
<1>2. d \in Posted
  BY DEF VerifierTypeOK
<1>3. /\ verifier' \in [Verifiers -> VerifierType]
      /\ Moves(v, {"idle"}, "claim")
      /\ verifier'[v].task = d /\ verifier'[v].attempt = verifier[v].attempt
  <2> DEFINE n == [verifier[v] EXCEPT !.pc = "claim", !.task = d]
  <2>1. n \in VerifierType /\ n.pc = "claim" /\ n.task = d /\ n.attempt = verifier[v].attempt
    BY <1>2, VerifierTyped DEF VerifierType
  <2>2. verifier' = [verifier EXCEPT ![v] = n]
    BY <1>1
  <2> HIDE DEF n
  <2>. QED  BY <1>1, <2>1, <2>2, VerifierTyped DEF Moves, At
<1>. QED  BY <1>1, <1>3, Winner

LEMMA VerifierClaims ==
  ASSUME VerifierTypeOK, NEW v \in Verifiers, ClaimTask(v)
  PROVE  /\ verifier' \in [Verifiers -> VerifierType]
         /\ Moves(v, {"claim"}, "confirm")
         /\ verifier'[v].task = verifier[v].task /\ verifier'[v].attempt = verifier[v].attempt
         /\ verifier'[v].until = clock + ClaimLease /\ verifier'[v].until \in Nat
<1>1. clock + ClaimLease \in Nat
  BY VerifierAssumption DEF VerifierTypeOK
<1>. QED  BY <1>1, VerifierTyped DEF ClaimTask, Moves, At, VerifierType

LEMMA MakeStep ==
  ASSUME VerifierTypeOK, NEW v \in Verifiers, verifier[v].task \in Posted, make_privileged_work_order(v)
  PROVE  /\ verifier' \in [Verifiers -> VerifierType]
         /\ Moves(v, {"confirm"}, "order")
         /\ verifier'[v].task = verifier[v].task /\ verifier'[v].attempt = made
         /\ verifier'[v].until = verifier[v].until
         /\ verifier'[v].generation = ledger.latest[verifier[v].task.task] + 1
         /\ Wins(v, verifier[v].task.task)
<1>1. clock + OrderDuration \in Nat
  BY VerifierAssumption DEF VerifierTypeOK
<1>2. next_generation(verifier[v].task.task) \in Int
  BY DEF VerifierTypeOK, Posted, next_generation
<1>3. made \in Nat /\ Wins(v, verifier[v].task.task)
  BY Winner DEF VerifierTypeOK, make_privileged_work_order
<1> DEFINE n == [verifier[v] EXCEPT !.pc = "order", !.attempt = made,
                   !.generation = next_generation(verifier[v].task.task), !.deadline = clock + OrderDuration]
<1>4. /\ n \in VerifierType /\ n.pc = "order" /\ n.task = verifier[v].task /\ n.attempt = made
      /\ n.until = verifier[v].until /\ n.generation = next_generation(verifier[v].task.task)
  BY <1>1, <1>2, <1>3, VerifierTyped DEF VerifierType
<1>5. verifier' = [verifier EXCEPT ![v] = n] /\ verifier[v].pc = "confirm"
  BY DEF make_privileged_work_order, At
<1> HIDE DEF n
<1>. QED  BY <1>3, <1>4, <1>5, VerifierTyped DEF next_generation, Moves

Ended(x) == [x EXCEPT !.live = FALSE]

LEMMA EndedTyped ==
  ASSUME VerifierTypeOK, NEW x \in executed
  PROVE  /\ Ended(x) \in [agent : Verifiers, directive : Posted, attempt : Nat, generation : Int,
                          deadline : Nat, until : Nat, live : BOOLEAN]
         /\ Ended(x).agent = x.agent /\ Ended(x).directive = x.directive /\ Ended(x).attempt = x.attempt
         /\ Ended(x).generation = x.generation /\ Ended(x).deadline = x.deadline
         /\ Ended(x).until = x.until /\ Ended(x).live = FALSE
BY DEF VerifierTypeOK, Ended

Launched(v) ==
  [agent |-> v, directive |-> verifier[v].task, attempt |-> verifier[v].attempt,
   generation |-> verifier[v].generation, deadline |-> verifier[v].deadline,
   until |-> verifier[v].until, live |-> TRUE]

LEMMA LaunchedTyped ==
  ASSUME VerifierTypeOK, AttemptInv, NEW v \in Verifiers, verifier[v].pc = "launch"
  PROVE  Launched(v) \in [agent : Verifiers, directive : Posted, attempt : Nat, generation : Int,
                          deadline : Nat, until : Nat, live : BOOLEAN]
<1>1. verifier[v].task \in Posted /\ verifier[v].attempt \in Nat
  BY DEF VerifierTypeOK, AttemptInv, Attempting, Verifying
<1>. QED  BY <1>1 DEF VerifierTypeOK, Launched


LEMMA AuthorizeStep ==
  ASSUME VerifierTypeOK, NEW v \in Verifiers, AuthorizeAction(v)
  PROVE  /\ verifier' \in [Verifiers -> VerifierType] /\ Carries(v)
         /\ \/ Moves(v, {"authorize"}, "close")
            \/ /\ Moves(v, {"authorize"}, "launch") /\ Wins(v, verifier[v].task.task)
               /\ verifier[v].task.dispatch \in TrustedDispatch
<1>1. verifier[v].pc = "authorize"
  BY DEF AuthorizeAction, At
<1>2. CASE Blocked(v)
  <2>1. verifier' = [verifier EXCEPT ![v].pc = "close", ![v].status = "BLOCKED"]
    BY <1>2 DEF Blocked
  <2>. QED  BY <1>1, <2>1, Goes
<1>3. CASE authorize_work_order(v) /\ Move(v, "launch")
  <2>1. verifier' = [verifier EXCEPT ![v].pc = "launch"]
    BY <1>3 DEF Move
  <2>2. Wins(v, verifier[v].task.task) /\ verifier[v].task.dispatch \in TrustedDispatch
    BY <1>3, Winner DEF authorize_work_order
  <2>. QED  BY <1>1, <2>1, <2>2, Goes
<1>. QED  BY <1>2, <1>3 DEF AuthorizeAction

\* A comment of the owner, which is no verifier's.
LEMMA OwnerStep ==
  ASSUME VerifierTypeOK, AttemptInv,
         \/ \E d \in Directives : PostDirective(d)
         \/ \E v \in Verifiers : CancelVerification(v)
  PROVE  /\ UNCHANGED <<made, clock, verifier, executed, interrupts>> /\ owner' = owner + 1
         /\ \E c : /\ Told(c) /\ c.type \in {"TASK", "WORKORDER_CANCEL"}
                   /\ c.type = "TASK" => c \in Posted /\ c.no = owner
<1>1. CASE \E d \in Directives : PostDirective(d)
  <2>1. PICK d \in Directives : PostDirective(d)
    BY <1>1
  <2>2. PICK c : c = [type |-> "TASK", no |-> owner, task |-> d.task, sha |-> d.sha, reviewed |-> d.reviewed,
                      dispatch |-> d.dispatch, action |-> d.action, access |-> d.access]
    OBVIOUS
  <2>3. c \in Posted /\ c.type = "TASK" /\ c.no = owner
    BY <2>2 DEF Posted, PrivilegedTasks, VerifierTypeOK
  <2>4. /\ ledger' = parse_broker_ledger(c)
        /\ UNCHANGED <<made, clock, verifier, executed, interrupts>> /\ owner' = owner + 1
    BY <2>1, <2>2 DEF PostDirective, OwnerPosts, Post
  <2>5. Told(c)
    BY <2>3, <2>4, Comment DEF OrderComments
  <2>. QED  BY <2>3, <2>4, <2>5
<1>2. CASE \E v \in Verifiers : CancelVerification(v)
  <2>1. PICK v \in Verifiers : CancelVerification(v)
    BY <1>2
  <2>2. PICK c : c = [type |-> "WORKORDER_CANCEL", task |-> verifier[v].task.task,
                      attempt |-> verifier[v].attempt, generation |-> verifier[v].generation]
    OBVIOUS
  <2>3. /\ ledger' = parse_broker_ledger(c)
        /\ UNCHANGED <<made, clock, verifier, executed, interrupts>> /\ owner' = owner + 1
        /\ verifier[v].attempt # Nothing
    BY <2>1, <2>2 DEF CancelVerification, OwnerPosts, Post
  <2>4. verifier[v].task \in Posted
    BY <2>3 DEF AttemptInv, Attempting, Verifying
  <2>5. verifier[v].task.task \in PrivilegedTasks /\ verifier[v].generation \in Int
    BY <2>4 DEF Posted, VerifierTypeOK
  <2>6. Told(c)
    BY <2>2, <2>3, <2>5, Comment DEF OrderComments
  <2>. QED  BY <2>2, <2>3, <2>6
<1>. QED  BY <1>1, <1>2

\* The steps of a verifier, by what they change.
Frame == UNCHANGED <<owner, made, clock, executed, interrupts>>
Says(v, types) ==
  \E c : /\ Told(c) /\ c.type \in types /\ c.task = verifier[v].task.task /\ c.agent = v
         /\ c.until = verifier'[v].until /\ c.generation = verifier[v].generation

DoesPoll(v) ==
  /\ Moves(v, {"idle"}, "claim") /\ ledger' = ledger /\ Frame
  /\ verifier'[v].task \in ledger.active /\ active_for(verifier'[v].task.task) = {}
  /\ verifier'[v].attempt = verifier[v].attempt
DoesClaim(v) ==
  /\ Moves(v, {"claim"}, "confirm") /\ Says(v, {"CLAIM"}) /\ Frame
  /\ verifier'[v].task = verifier[v].task /\ verifier'[v].attempt = verifier[v].attempt
DoesDrop(v) ==
  /\ Moves(v, {"claim", "confirm", "order", "authorize", "launch", "run", "close", "end", "release"}, "idle")
  /\ ledger' = ledger /\ UNCHANGED <<owner, made, clock, executed>>
  /\ \/ interrupts' = interrupts + 1
     \/ interrupts' = interrupts /\ verifier[v].pc = "confirm"
  /\ verifier'[v].task = Nothing /\ verifier'[v].attempt = Nothing
DoesOrder(v) ==
  /\ Moves(v, {"confirm"}, "order") /\ ledger' = ledger
  /\ made' = made + 1 /\ UNCHANGED <<owner, clock, executed, interrupts>>
  /\ verifier'[v].task = verifier[v].task /\ verifier'[v].attempt = made
  /\ verifier'[v].until = verifier[v].until
  /\ verifier'[v].generation = ledger.latest[verifier[v].task.task] + 1
  /\ Wins(v, verifier[v].task.task)
DoesPost(v) ==
  Moves(v, {"order"}, "authorize") /\ Carries(v) /\ Says(v, {"WORKORDER"}) /\ Frame
DoesAuthorize(v) ==
  /\ Moves(v, {"authorize"}, "launch") /\ Carries(v) /\ ledger' = ledger /\ Frame
  /\ Wins(v, verifier[v].task.task) /\ verifier[v].task.dispatch \in TrustedDispatch
DoesBlock(v) ==
  Moves(v, {"authorize", "launch"}, "close") /\ Carries(v) /\ ledger' = ledger /\ Frame
DoesLaunch(v) ==
  /\ Moves(v, {"launch"}, "run") /\ Carries(v) /\ ledger' = ledger
  /\ executed' = executed \cup {Launched(v)} /\ clock < verifier[v].deadline
  /\ UNCHANGED <<owner, made, clock, interrupts>>
DoesEnd(v) ==
  /\ Moves(v, {"run"}, "close") /\ Carries(v) /\ ledger' = ledger
  /\ \E x \in executed : x.attempt = verifier[v].attempt /\ executed' = (executed \ {x}) \cup {Ended(x)}
  /\ UNCHANGED <<owner, made, clock, interrupts>>
DoesClose(v) ==
  \/ Moves(v, {"close"}, "end") /\ Carries(v) /\ Says(v, {"WORKORDER_DONE"}) /\ Frame
  \/ Moves(v, {"end"}, "release") /\ Carries(v) /\ Says(v, {"DONE", "BLOCKED"}) /\ Frame
DoesRelease(v) ==
  /\ Moves(v, {"release"}, "idle") /\ Says(v, {"RELEASE"}) /\ Frame
  /\ verifier'[v].task = Nothing /\ verifier'[v].attempt = Nothing

Does(v) ==
  \/ DoesPoll(v) \/ DoesClaim(v) \/ DoesDrop(v) \/ DoesOrder(v) \/ DoesPost(v) \/ DoesAuthorize(v)
  \/ DoesBlock(v) \/ DoesLaunch(v) \/ DoesEnd(v) \/ DoesClose(v) \/ DoesRelease(v)

LEMMA StepEffect ==
  ASSUME VerifierTypeOK, AttemptInv, NEW v \in Verifiers, VerifierStep(v), ~CancelVerification(v)
  PROVE  Does(v) /\ verifier' \in [Verifiers -> VerifierType]
<1>1. CASE PollIssue(v)
  BY <1>1, PollStep DEF PollIssue, Does, DoesPoll, Frame
<1>2. CASE ClaimTask(v)
  <2>1. /\ verifier' \in [Verifiers -> VerifierType] /\ Moves(v, {"claim"}, "confirm")
        /\ verifier'[v].task = verifier[v].task /\ verifier'[v].attempt = verifier[v].attempt
        /\ verifier'[v].until \in Nat
    BY <1>2, VerifierClaims
  <2>2. Post(OwnComment(v, "CLAIM")) /\ Frame /\ verifier[v].task \in Posted
    BY <1>2 DEF ClaimTask, At, Frame, AttemptInv
  <2>3. Says(v, {"CLAIM"})
    BY <2>1, <2>2, Own DEF Says, Frame
  <2>. QED  BY <2>1, <2>2, <2>3 DEF Does, DoesClaim
<1>3. CASE LoseClaim(v)
  <2>1. verifier' = [verifier EXCEPT ![v] = Waiting] /\ verifier[v].pc = "confirm"
        /\ ledger' = ledger /\ Frame
    BY <1>3 DEF LoseClaim, At, Frame
  <2>. QED  BY <2>1, Stops DEF Does, DoesDrop, Frame, Moves
<1>4. CASE make_privileged_work_order(v)
  <2>1. verifier[v].task \in Posted
    BY <1>4 DEF make_privileged_work_order, At, AttemptInv
  <2>. QED  BY <1>4, <2>1, MakeStep DEF make_privileged_work_order, Does, DoesOrder
<1>5. CASE PostPrivilegedOrder(v)
  <2>1. /\ verifier' = [verifier EXCEPT ![v].pc = "authorize"] /\ verifier[v].pc = "order"
        /\ Post(OwnComment(v, "WORKORDER")) /\ Frame /\ verifier[v].task \in Posted
    BY <1>5 DEF PostPrivilegedOrder, Move, At, Frame, AttemptInv
  <2>2. verifier' \in [Verifiers -> VerifierType] /\ Moves(v, {"order"}, "authorize") /\ Carries(v)
    BY <2>1, Goes
  <2>3. verifier'[v].until \in Nat
    BY <2>2 DEF VerifierType
  <2>4. Says(v, {"WORKORDER"})
    BY <2>1, <2>3, Own DEF Says, Frame
  <2>. QED  BY <2>1, <2>2, <2>4 DEF Does, DoesPost
<1>6. CASE AuthorizeAction(v)
  <2>1. ledger' = ledger /\ Frame
    BY <1>6 DEF AuthorizeAction, Frame
  <2>. QED  BY <1>6, <2>1, AuthorizeStep DEF Does, DoesAuthorize, DoesBlock, Moves
<1>7. CASE FailLaunch(v)
  <2>1. /\ verifier' = [verifier EXCEPT ![v].pc = "close", ![v].status = "BLOCKED"]
        /\ verifier[v].pc = "launch" /\ ledger' = ledger /\ Frame
    BY <1>7 DEF FailLaunch, Blocked, At, Frame
  <2>. QED  BY <2>1, Goes DEF Does, DoesBlock, Moves
<1>8. CASE LaunchAction(v)
  <2>1. /\ verifier' = [verifier EXCEPT ![v].pc = "run"] /\ verifier[v].pc = "launch"
        /\ ledger' = ledger /\ executed' = executed \cup {Launched(v)} /\ clock < verifier[v].deadline
        /\ UNCHANGED <<owner, made, clock, interrupts>>
    BY <1>8 DEF LaunchAction, Move, At, Launched, VerifierTypeOK
  <2>2. /\ verifier' \in [Verifiers -> VerifierType]
        /\ Moves(v, {"launch"}, "run") /\ Carries(v)
    BY <2>1, Goes
  <2>. QED  BY <2>1, <2>2 DEF Does, DoesLaunch
<1>9. CASE EndAction(v, "PASS") \/ EndAction(v, "FAILED")
  <2>1. PICK s \in {"PASS", "FAILED"} : EndAction(v, s)
    BY <1>9
  <2>2. verifier' = [verifier EXCEPT ![v].pc = "close", ![v].status = s] /\ verifier[v].pc = "run"
    BY <2>1 DEF EndAction, At
  <2>3. verifier' \in [Verifiers -> VerifierType] /\ Moves(v, {"run"}, "close") /\ Carries(v)
    BY <2>2, Goes
  <2>4. /\ \E x \in executed : x.attempt = verifier[v].attempt /\ executed' = (executed \ {x}) \cup {Ended(x)}
        /\ ledger' = ledger /\ UNCHANGED <<owner, made, clock, interrupts>>
    BY <2>1 DEF EndAction, Over, Ended
  <2>. QED  BY <2>3, <2>4 DEF Does, DoesEnd
<1>10. CASE CloseVerification(v)
  <2>1. /\ verifier' = [verifier EXCEPT ![v].pc = "end"] /\ verifier[v].pc = "close"
        /\ Post(OwnComment(v, "WORKORDER_DONE")) /\ Frame /\ verifier[v].task \in Posted
    BY <1>10 DEF CloseVerification, Move, At, Frame, AttemptInv
  <2>2. verifier' \in [Verifiers -> VerifierType] /\ Moves(v, {"close"}, "end") /\ Carries(v)
    BY <2>1, Goes
  <2>3. verifier'[v].until \in Nat
    BY <2>2 DEF VerifierType
  <2>4. Says(v, {"WORKORDER_DONE"})
    BY <2>1, <2>3, Own DEF Says, Frame
  <2>. QED  BY <2>1, <2>2, <2>4 DEF Does, DoesClose
<1>11. CASE EndDirective(v)
  <2>1. PICK type \in {"DONE", "BLOCKED"} : type = IF verifier[v].status = "PASS" THEN "DONE" ELSE "BLOCKED"
    OBVIOUS
  <2>2. /\ verifier' = [verifier EXCEPT ![v].pc = "release"] /\ verifier[v].pc = "end"
        /\ Post(OwnComment(v, type)) /\ Frame /\ verifier[v].task \in Posted
    BY <1>11, <2>1 DEF EndDirective, Move, At, Frame, AttemptInv, Post, OwnComment
  <2>3. verifier' \in [Verifiers -> VerifierType] /\ Moves(v, {"end"}, "release") /\ Carries(v)
    BY <2>2, Goes
  <2>4. verifier'[v].until \in Nat
    BY <2>3 DEF VerifierType
  <2>5. Says(v, {"DONE", "BLOCKED"})
    BY <2>2, <2>4, Own DEF Says, Frame
  <2>. QED  BY <2>2, <2>3, <2>5 DEF Does, DoesClose
<1>12. CASE ReleaseTask(v)
  <2>1. /\ verifier' = [verifier EXCEPT ![v] = Waiting] /\ verifier[v].pc = "release"
        /\ Post(OwnComment(v, "RELEASE")) /\ Frame /\ verifier[v].task \in Posted
    BY <1>12 DEF ReleaseTask, At, Frame, AttemptInv
  <2>2. /\ verifier' \in [Verifiers -> VerifierType] /\ Moves(v, {"release"}, "idle")
        /\ verifier'[v].task = Nothing /\ verifier'[v].attempt = Nothing
    BY <2>1, Stops
  <2>3. verifier'[v].until \in Nat
    BY <2>2 DEF VerifierType
  <2>4. Says(v, {"RELEASE"})
    BY <2>1, <2>3, Own DEF Says, Frame
  <2>. QED  BY <2>1, <2>2, <2>4 DEF Does, DoesRelease
<1>13. CASE InterruptVerifier(v)
  <2>1. /\ verifier' = [verifier EXCEPT ![v] = Waiting] /\ verifier[v].pc # "idle"
        /\ ledger' = ledger /\ interrupts' = interrupts + 1 /\ UNCHANGED <<owner, made, clock, executed>>
    BY <1>13 DEF InterruptVerifier, At
  <2>2. verifier[v].pc \in {"claim", "confirm", "order", "authorize", "launch", "run", "close", "end", "release"}
    BY <2>1, VerifierTyped DEF VerifierType
  <2>. QED  BY <2>1, <2>2, Stops DEF Does, DoesDrop, Moves
<1>. QED  BY <1>1, <1>2, <1>3, <1>4, <1>5, <1>6, <1>7, <1>8, <1>9, <1>10, <1>11, <1>12, <1>13 DEF VerifierStep

LEMMA TypeStep ==
  ASSUME VerifierTypeOK, AttemptInv, [VerifierNext]_verifier_vars
  PROVE  VerifierTypeOK'
<1> DEFINE Executions == [agent : Verifiers, directive : Posted, attempt : Nat, generation : Int,
                          deadline : Nat, until : Nat, live : BOOLEAN]
<1>1. CASE UNCHANGED verifier_vars
  BY <1>1 DEF VerifierTypeOK, verifier_vars
<1>2. CASE PassTime
  BY <1>2 DEF VerifierTypeOK, PassTime
<1>3. CASE \E x \in executed : OrphanEnds(x)
  <2>1. PICK x \in executed : OrphanEnds(x)
    BY <1>3
  <2>2. executed' = (executed \ {x}) \cup {Ended(x)} /\ UNCHANGED <<ledger, owner, made, clock, verifier, interrupts>>
    BY <2>1 DEF OrphanEnds, Over, Ended
  <2>3. Ended(x) \in Executions /\ executed \subseteq Executions
    BY EndedTyped DEF VerifierTypeOK
  <2>4. executed' \subseteq Executions
    BY <2>2, <2>3
  <2>. QED  BY <2>2, <2>4 DEF VerifierTypeOK
<1>4. CASE (\E d \in Directives : PostDirective(d)) \/ (\E v \in Verifiers : CancelVerification(v))
  <2>1. /\ UNCHANGED <<made, clock, verifier, executed, interrupts>> /\ owner' = owner + 1
        /\ \E c : Told(c)
    BY <1>4, OwnerStep
  <2>2. /\ ledger'.active \subseteq Posted /\ ledger'.claims \in Seq(Claimed)
        /\ ledger'.latest \in [PrivilegedTasks -> Int]
    BY <2>1 DEF Told
  <2>. QED  BY <2>1, <2>2 DEF VerifierTypeOK
<1>5. ASSUME NEW v \in Verifiers, VerifierStep(v), ~CancelVerification(v)
      PROVE  VerifierTypeOK'
  <2>1. Does(v) /\ verifier' \in [Verifiers -> VerifierType]
    BY <1>5, StepEffect
  <2>2. /\ ledger'.active \subseteq Posted /\ ledger'.claims \in Seq(Claimed)
        /\ ledger'.latest \in [PrivilegedTasks -> Int]
    <3>1. CASE ledger' = ledger
      BY <3>1 DEF VerifierTypeOK
    <3>2. CASE \E c : Told(c)
      BY <3>2 DEF Told
    <3>. QED  BY <2>1, <3>1, <3>2 DEF Does, Says, DoesPoll, DoesClaim, DoesDrop, DoesOrder, DoesPost,
                DoesAuthorize, DoesBlock, DoesLaunch, DoesEnd, DoesClose, DoesRelease
  <2>3. owner' \in Nat /\ made' \in Nat /\ clock' \in Nat /\ interrupts' \in Nat
    BY <2>1 DEF VerifierTypeOK, Does, Frame, DoesPoll, DoesClaim, DoesDrop, DoesOrder, DoesPost,
                DoesAuthorize, DoesBlock, DoesLaunch, DoesEnd, DoesClose, DoesRelease
  <2>4. executed' \subseteq Executions
    <3>1. CASE DoesLaunch(v)
      BY <3>1, LaunchedTyped DEF DoesLaunch, Moves, VerifierTypeOK
    <3>2. CASE DoesEnd(v)
      BY <3>2, EndedTyped DEF DoesEnd, VerifierTypeOK
    <3>3. CASE executed' = executed
      BY <3>3 DEF VerifierTypeOK
    <3>. QED  BY <2>1, <3>1, <3>2, <3>3 DEF Does, Frame, DoesPoll, DoesClaim, DoesDrop, DoesOrder, DoesPost,
                DoesAuthorize, DoesBlock, DoesClose, DoesRelease
  <2>. QED  BY <2>1, <2>2, <2>3, <2>4 DEF VerifierTypeOK, VerifierType
<1>. QED  BY <1>1, <1>2, <1>3, <1>4, <1>5 DEF VerifierNext, VerifierStep
-----------------------------------------------------------------------------
(***************************************************************************)
(* The invariant is inductive                                              *)
(***************************************************************************)

LEMMA AttemptStep ==
  ASSUME VerifierTypeOK, VerifierTypeOK', AttemptInv, [VerifierNext]_verifier_vars
  PROVE  AttemptInv'
<1>1. CASE UNCHANGED verifier_vars
  BY <1>1 DEF AttemptInv, Attempting, Verifying, verifier_vars
<1>2. CASE PassTime
  <2>1. \A v \in Verifiers : verifier[v].pc = "run" => clock' <= verifier[v].deadline
    BY <1>2 DEF PassTime, At, VerifierTypeOK
  <2>. QED  BY <1>2, <2>1 DEF PassTime, AttemptInv, Attempting, Verifying
<1>3. ASSUME NEW x \in executed, executed' = (executed \ {x}) \cup {Ended(x)},
             UNCHANGED <<made, clock>>,
             \A v \in Verifiers :
               \/ verifier'[v] = verifier[v]
               \/ verifier[v].attempt = x.attempt /\ Moves(v, {"run"}, "close") /\ Carries(v),
             \A v \in Verifiers : verifier'[v] = verifier[v] => verifier[v].attempt # x.attempt
      PROVE  AttemptInv'
  <2>1. /\ Ended(x).agent = x.agent /\ Ended(x).directive = x.directive /\ Ended(x).attempt = x.attempt
        /\ Ended(x).deadline = x.deadline /\ Ended(x).until = x.until /\ Ended(x).live = FALSE
    BY EndedTyped
  <2>2. \A v \in Verifiers : verifier'[v].task = verifier[v].task /\ verifier'[v].attempt = verifier[v].attempt
                             /\ verifier'[v].deadline = verifier[v].deadline /\ verifier'[v].until = verifier[v].until
    BY <1>3 DEF Carries
  <2>3. \A v \in Verifiers : /\ Attempting(v)' <=> Attempting(v)
                             /\ \/ verifier'[v].pc = verifier[v].pc
                                \/ verifier'[v].pc = "close" /\ verifier[v].pc = "run"
    BY <1>3 DEF Attempting, Verifying, Moves
  <2>4. /\ \A v \in Verifiers :
             /\ verifier'[v].pc # "idle" => verifier'[v].task \in Posted
             /\ IF Attempting(v)' THEN verifier'[v].attempt \in 0..made' - 1 ELSE verifier'[v].attempt = Nothing
             /\ verifier'[v].pc = "run" => clock' <= verifier'[v].deadline
             /\ verifier'[v].pc = "launch" => verifier'[v].task.dispatch \in TrustedDispatch
        /\ \A v, w \in Verifiers : Attempting(v)' /\ verifier'[v].attempt = verifier'[w].attempt => v = w
    BY <1>3, <2>2, <2>3 DEF AttemptInv
  <2>5. ASSUME NEW y \in executed'
        PROVE  /\ y.attempt \in 0..made' - 1 /\ y.directive.dispatch \in TrustedDispatch
               /\ \A v \in Verifiers : verifier'[v].attempt = y.attempt =>
                    /\ v = y.agent /\ verifier'[v].task = y.directive
                    /\ verifier'[v].deadline = y.deadline /\ verifier'[v].until = y.until
                    /\ verifier'[v].pc \notin {"order", "authorize", "launch"}
                    /\ y.live => verifier'[v].pc = "run"
    <3>1. CASE y = Ended(x)
      BY <1>3, <2>1, <2>2, <2>3, <3>1 DEF AttemptInv
    <3>2. CASE y # Ended(x)
      <4>1. y \in executed /\ y.attempt # x.attempt
        BY <1>3, <2>5, <3>2 DEF AttemptInv
      <4>2. \A v \in Verifiers : verifier[v].attempt = y.attempt => verifier'[v] = verifier[v]
        BY <1>3, <4>1
      <4>. QED  BY <1>3, <2>2, <4>1, <4>2 DEF AttemptInv
    <3>. QED  BY <3>1, <3>2
  <2>6. \A y, z \in executed' : y.attempt = z.attempt => y = z
    BY <1>3, <2>1 DEF AttemptInv
  <2>. QED  BY <2>4, <2>5, <2>6 DEF AttemptInv
<1>4. CASE \E x \in executed : OrphanEnds(x)
  <2>1. PICK x \in executed : OrphanEnds(x)
    BY <1>4
  <2>2. /\ executed' = (executed \ {x}) \cup {Ended(x)} /\ x.live /\ verifier[x.agent].attempt # x.attempt
        /\ UNCHANGED <<ledger, owner, made, clock, verifier, interrupts>>
    BY <2>1 DEF OrphanEnds, Over, Ended
  <2>3. \A v \in Verifiers : verifier[v].attempt # x.attempt
    BY <2>2 DEF AttemptInv
  <2>. QED  BY <1>3, <2>2, <2>3
<1>5. CASE (\E d \in Directives : PostDirective(d)) \/ (\E v \in Verifiers : CancelVerification(v))
  <2>1. UNCHANGED <<made, clock, verifier, executed, interrupts>>
    BY <1>5, OwnerStep
  <2>. QED  BY <2>1 DEF AttemptInv, Attempting, Verifying
<1>6. ASSUME NEW v \in Verifiers, VerifierStep(v), ~CancelVerification(v)
      PROVE  AttemptInv'
  <2>0. Does(v)
    BY <1>6, StepEffect
  <2> USE DEF AttemptInv, Attempting, Verifying, Moves, Carries, Frame
  <2>1. CASE DoesPoll(v)
    <3>1. verifier'[v].task \in Posted
      BY <2>1 DEF DoesPoll, VerifierTypeOK
    <3>. QED  BY <2>1, <3>1, VerifierAssumption DEF DoesPoll
  <2>2. CASE DoesClaim(v)
    BY <2>2, VerifierAssumption DEF DoesClaim
  <2>3. CASE DoesDrop(v)
    BY <2>3, VerifierAssumption DEF DoesDrop
  <2>4. CASE DoesOrder(v)
    <3>1. made \in Nat /\ made' = made + 1 /\ executed' = executed /\ clock' = clock
      BY <2>4 DEF DoesOrder, VerifierTypeOK
    <3>2. \A w \in Verifiers : verifier[w].attempt # made
      BY <3>1, VerifierAssumption
    <3>3. \A x \in executed : x.attempt # made /\ x.attempt \in 0..made' - 1
      BY <3>1
    <3>4. \A w, u \in Verifiers : Attempting(w)' /\ verifier'[w].attempt = verifier'[u].attempt => w = u
      BY <2>4, <3>2 DEF DoesOrder
    <3>5. \A w \in Verifiers :
             /\ verifier'[w].pc # "idle" => verifier'[w].task \in Posted
             /\ IF Attempting(w)' THEN verifier'[w].attempt \in 0..made' - 1 ELSE verifier'[w].attempt = Nothing
             /\ verifier'[w].pc = "run" => clock' <= verifier'[w].deadline
             /\ verifier'[w].pc = "launch" => verifier'[w].task.dispatch \in TrustedDispatch
      BY <2>4, <3>1 DEF DoesOrder
    <3>. QED  BY <2>4, <3>1, <3>3, <3>4, <3>5 DEF DoesOrder
  <2>5. CASE DoesPost(v)
    BY <2>5 DEF DoesPost
  <2>6. CASE DoesAuthorize(v)
    BY <2>6 DEF DoesAuthorize
  <2>7. CASE DoesBlock(v)
    BY <2>7 DEF DoesBlock
  <2>8. CASE DoesLaunch(v)
    <3> DEFINE new == Launched(v)
    <3>1. /\ new.agent = v /\ new.directive = verifier[v].task /\ new.attempt = verifier[v].attempt
          /\ new.deadline = verifier[v].deadline /\ new.until = verifier[v].until
      BY DEF Launched
    <3>2. executed' = executed \cup {new} /\ made' = made /\ clock' = clock /\ verifier[v].pc = "launch"
      BY <2>8 DEF DoesLaunch
    <3> HIDE DEF new
    <3>3. \A x \in executed : x.attempt # new.attempt
      BY <3>1, <3>2
    <3>4. /\ \A w \in Verifiers :
             /\ verifier'[w].pc # "idle" => verifier'[w].task \in Posted
             /\ IF Attempting(w)' THEN verifier'[w].attempt \in 0..made' - 1 ELSE verifier'[w].attempt = Nothing
             /\ verifier'[w].pc = "run" => clock' <= verifier'[w].deadline
             /\ verifier'[w].pc = "launch" => verifier'[w].task.dispatch \in TrustedDispatch
          /\ \A w, u \in Verifiers : Attempting(w)' /\ verifier'[w].attempt = verifier'[u].attempt => w = u
      <4>1. /\ verifier'[v].task \in Posted /\ Attempting(v)' /\ verifier'[v].attempt \in 0..made' - 1
            /\ verifier'[v].pc = "run" /\ clock' <= verifier'[v].deadline
        BY <2>8, <3>2 DEF DoesLaunch, VerifierTypeOK
      <4>2. \A w \in Verifiers : verifier'[w].attempt = verifier[w].attempt /\ (Attempting(w)' <=> Attempting(w))
        BY <2>8 DEF DoesLaunch
      <4>3. \A w \in Verifiers \ {v} : verifier'[w] = verifier[w]
        BY <2>8 DEF DoesLaunch
      <4>. QED  BY <3>2, <4>1, <4>2, <4>3
    <3>5. ASSUME NEW x \in executed'
          PROVE  /\ x.attempt \in 0..made' - 1 /\ x.directive.dispatch \in TrustedDispatch
                 /\ \A w \in Verifiers : verifier'[w].attempt = x.attempt =>
                      /\ w = x.agent /\ verifier'[w].task = x.directive
                      /\ verifier'[w].deadline = x.deadline /\ verifier'[w].until = x.until
                      /\ verifier'[w].pc \notin {"order", "authorize", "launch"}
                      /\ x.live => verifier'[w].pc = "run"
      <4>1. CASE x \in executed
        BY <2>8, <3>1, <3>2, <3>3, <4>1 DEF DoesLaunch
      <4>2. CASE x = new
        BY <2>8, <3>1, <3>2, <4>2 DEF DoesLaunch
      <4>. QED  BY <3>2, <4>1, <4>2
    <3>. QED  BY <3>2, <3>3, <3>4, <3>5
  <2>9. CASE DoesEnd(v)
    <3>1. PICK x \in executed : x.attempt = verifier[v].attempt /\ executed' = (executed \ {x}) \cup {Ended(x)}
      BY <2>9 DEF DoesEnd
    <3>2. verifier'[v] # verifier[v]
      BY <2>9 DEF DoesEnd
    <3>3. \A w \in Verifiers \ {v} : verifier[w].attempt # x.attempt
      BY <2>9, <3>1 DEF DoesEnd
    <3>. QED  BY <1>3, <2>9, <3>1, <3>2, <3>3 DEF DoesEnd
  <2>10. CASE DoesClose(v)
    BY <2>10 DEF DoesClose
  <2>11. CASE DoesRelease(v)
    BY <2>11, VerifierAssumption DEF DoesRelease
  <2>. QED  BY <2>0, <2>1, <2>2, <2>3, <2>4, <2>5, <2>6, <2>7, <2>8, <2>9, <2>10, <2>11 DEF Does
<1>. QED  BY <1>1, <1>2, <1>4, <1>5, <1>6 DEF VerifierNext, VerifierStep

LEMMA ClaimsTyped ==
  ASSUME VerifierTypeOK PROVE \A i \in DOMAIN ledger.claims : ledger.claims[i] \in Claimed
<1>1. ledger.claims \in Seq(Claimed)
  BY DEF VerifierTypeOK
<1>. QED  BY <1>1, ElementOfSeq, LenProperties

LEMMA LeaseKept ==
  ASSUME AttemptInv, AttemptInv', LeaseInv, NEW v \in Verifiers, clock' = clock, NoNewClaims(v),
         verifier'[v].pc # "idle" =>
           verifier'[v].task = verifier[v].task /\ verifier'[v].until = verifier[v].until,
         verifier'[v].pc = "claim" => verifier[v].pc = "claim",
         verifier'[v].pc = "confirm" \/ Attempting(v)' => verifier[v].pc = "confirm" \/ Attempting(v),
         Verifying(v)' => Verifying(v) \/ Wins(v, verifier[v].task.task),
         Verifying(v)' => KeepsWinning(v)
  PROVE  LeaseOf(v)'
<1>1. CASE verifier'[v].pc = "idle"
  BY <1>1 DEF LeaseOf, Attempting, Verifying
<1>2. CASE verifier'[v].pc # "idle"
  <2>1. PICK t : t = verifier[v].task.task
    OBVIOUS
  <2>2. verifier'[v].task.task = t /\ t \in PrivilegedTasks
    BY <1>2, <2>1 DEF AttemptInv, Posted
  <2>3. LeaseOf(v)
    BY DEF LeaseInv
  <2>4. verifier'[v].pc = "claim" => \A i \in DOMAIN ledger'.claims : ~ClaimAt(i, v, t)'
    BY <2>1, <2>2, <2>3 DEF LeaseOf, NoNewClaims
  <2>5. verifier'[v].pc = "confirm" \/ Attempting(v)' => \A i \in DOMAIN ledger'.claims :
          ClaimAt(i, v, t)' => ledger'.claims[i].until = verifier'[v].until
    BY <1>2, <2>1, <2>2, <2>3 DEF LeaseOf, NoNewClaims
  <2>6. Verifying(v)' /\ verifier'[v].until > clock' => Wins(v, t)'
    BY <1>2, <2>1, <2>2, <2>3 DEF LeaseOf, KeepsWinning
  <2>7. \A i : ClaimAt(i, v, verifier[v].task.task)' <=> ClaimAt(i, v, t)'
    BY <2>2 DEF ClaimAt, active_for
  <2>8. Wins(v, verifier[v].task.task)' <=> Wins(v, t)'
    BY <2>2 DEF Wins, ClaimAt, active_for
  <2>. QED  BY <2>2, <2>4, <2>5, <2>6, <2>7, <2>8 DEF LeaseOf
<1>. QED  BY <1>1, <1>2

LEMMA LeaseStep ==
  ASSUME VerifierTypeOK, VerifierTypeOK', AttemptInv, AttemptInv', LeaseInv, [VerifierNext]_verifier_vars
  PROVE  LeaseInv'
<1>1. CASE UNCHANGED <<ledger, verifier, clock>>
  BY <1>1 DEF LeaseInv, LeaseOf, Attempting, Verifying, Wins, ClaimAt, active_for
<1>2. CASE PassTime
  <2>1. ledger' = ledger /\ verifier' = verifier /\ clock' = clock + 1 /\ clock \in Nat
    BY <1>2 DEF PassTime, VerifierTypeOK
  <2>2. SUFFICES ASSUME NEW v \in Verifiers PROVE LeaseOf(v)'
    BY DEF LeaseInv
  <2>3. \A t, i : ClaimAt(i, v, t)' <=> ClaimAt(i, v, t) /\ ledger.claims[i].until > clock + 1
    <3>1. \A i \in DOMAIN ledger.claims : ledger.claims[i].until \in Nat
      BY ClaimsTyped DEF Claimed
    <3>. QED  BY <2>1, <3>1 DEF ClaimAt, active_for
  <2>4. LeaseOf(v)
    BY DEF LeaseInv
  <2>5. ASSUME Verifying(v), verifier[v].until > clock + 1 PROVE Wins(v, verifier[v].task.task)'
    <3>1. PICK t : t = verifier[v].task.task
      OBVIOUS
    <3>2. verifier[v].until \in Nat
      BY DEF VerifierTypeOK
    <3>3. Wins(v, t)
      BY <2>1, <2>4, <2>5, <3>1, <3>2 DEF LeaseOf
    <3>4. PICK i \in DOMAIN ledger.claims : ClaimAt(i, v, t) /\ \A j \in active_for(t) : i <= j
      BY <3>3 DEF Wins
    <3>5. ledger.claims[i].until = verifier[v].until
      BY <2>4, <2>5, <3>1, <3>4 DEF LeaseOf, Attempting
    <3>6. ClaimAt(i, v, t)'
      BY <2>3, <2>5, <3>4, <3>5
    <3>7. active_for(t)' \subseteq active_for(t)
      <4>1. \A j \in DOMAIN ledger.claims : ledger.claims[j].until \in Nat
        BY ClaimsTyped DEF Claimed
      <4>. QED  BY <2>1, <4>1 DEF active_for
    <3>8. Wins(v, t)'
      BY <2>1, <3>4, <3>6, <3>7 DEF Wins
    <3>. QED  BY <2>1, <3>1, <3>8 DEF Wins, ClaimAt, active_for
  <2>6. \A i : ClaimAt(i, v, verifier[v].task.task)' => ClaimAt(i, v, verifier[v].task.task)
    BY <2>1, <2>3 DEF ClaimAt, active_for
  <2>. QED  BY <2>1, <2>4, <2>5, <2>6 DEF LeaseOf, Attempting, Verifying
<1>3. CASE \E x \in executed : OrphanEnds(x)
  BY <1>1, <1>3 DEF OrphanEnds
<1>4. CASE (\E d \in Directives : PostDirective(d)) \/ (\E v \in Verifiers : CancelVerification(v))
  <2>1. UNCHANGED <<made, clock, verifier, executed, interrupts>>
    BY <1>4, OwnerStep
  <2>2. \A v \in Verifiers : NoNewClaims(v) /\ KeepsWinning(v)
    BY <1>4, OwnerStep DEF Told
  <2>. QED  BY <2>1, <2>2, LeaseKept DEF LeaseInv, Attempting, Verifying
<1>5. ASSUME NEW v \in Verifiers, VerifierStep(v), ~CancelVerification(v)
      PROVE  LeaseInv'
  <2>0. Does(v)
    BY <1>5, StepEffect
  <2>1. \A w \in Verifiers \ {v} : verifier'[w] = verifier[w] /\ clock' = clock
    BY <2>0 DEF Does, Frame, Moves, DoesPoll, DoesClaim, DoesDrop, DoesOrder, DoesPost,
                DoesAuthorize, DoesBlock, DoesLaunch, DoesEnd, DoesClose, DoesRelease
  <2>2. \A w \in Verifiers \ {v} : NoNewClaims(w) /\ KeepsWinning(w)
    <3>1. CASE ledger' = ledger
      BY <2>1, <3>1, NoComment
    <3>2. CASE \E c : Told(c) /\ c.agent = v
      BY <3>2 DEF Told
    <3>. QED  BY <2>0, <3>1, <3>2 DEF Does, Says, DoesPoll, DoesClaim, DoesDrop, DoesOrder, DoesPost,
                DoesAuthorize, DoesBlock, DoesLaunch, DoesEnd, DoesClose, DoesRelease
  <2>3. ASSUME NEW w \in Verifiers \ {v} PROVE LeaseOf(w)'
    BY <2>1, <2>2, LeaseKept DEF Attempting, Verifying
  <2>4. SUFFICES LeaseOf(v)'
    BY <2>3 DEF LeaseInv
  <2>5. CASE DoesPoll(v)
    <3>1. active_for(verifier'[v].task.task) = {} /\ ledger' = ledger /\ clock' = clock /\ verifier'[v].pc = "claim"
      BY <2>5 DEF DoesPoll, Frame, Moves
    <3>2. \A i : ~ClaimAt(i, v, verifier[v].task.task)'
      BY <3>1 DEF ClaimAt, active_for
    <3>. QED  BY <3>1, <3>2 DEF LeaseOf, Attempting, Verifying
  <2>6. CASE DoesClaim(v)
    <3>1. PICK c : /\ Told(c) /\ c.type = "CLAIM" /\ c.task = verifier[v].task.task /\ c.agent = v
                   /\ c.until = verifier'[v].until
      BY <2>6 DEF DoesClaim, Says
    <3>2. /\ verifier[v].pc = "claim" /\ verifier'[v].pc = "confirm" /\ verifier'[v].task = verifier[v].task
          /\ c.task \in PrivilegedTasks
      BY <2>6, <3>1 DEF DoesClaim, Moves, AttemptInv, Posted
    <3>3. \A i \in DOMAIN ledger.claims : ~ClaimAt(i, v, c.task)
      BY <3>1, <3>2 DEF LeaseInv, LeaseOf
    <3>4. \A i \in DOMAIN ledger'.claims : ClaimAt(i, v, c.task)' => ledger'.claims[i] = c
      BY <3>1, <3>2, <3>3 DEF Told
    <3>5. \A i : ClaimAt(i, v, verifier[v].task.task)' <=> ClaimAt(i, v, c.task)'
      BY <3>1, <3>2 DEF ClaimAt, active_for
    <3>. QED  BY <3>1, <3>2, <3>4, <3>5 DEF LeaseOf, Attempting, Verifying
  <2>7. CASE DoesDrop(v) \/ DoesRelease(v)
    BY <2>7 DEF DoesDrop, DoesRelease, Moves, LeaseOf, Attempting, Verifying
  <2>8. CASE DoesOrder(v) \/ DoesAuthorize(v) \/ DoesBlock(v) \/ DoesLaunch(v) \/ DoesEnd(v)
    <3>1. ledger' = ledger /\ clock' = clock
      BY <2>8 DEF DoesOrder, DoesAuthorize, DoesBlock, DoesLaunch, DoesEnd, Frame
    <3>2. NoNewClaims(v) /\ KeepsWinning(v)
      BY <3>1, NoComment
    <3>. QED  BY <2>8, <3>1, <3>2, LeaseKept DEF DoesOrder, DoesAuthorize, DoesBlock, DoesLaunch, DoesEnd,
                 Moves, Carries, Attempting, Verifying
  <2>9. CASE DoesPost(v) \/ DoesClose(v)
    <3>1. clock' = clock /\ \E c : Told(c) /\ c.type \notin {"CLAIM", "RELEASE"}
      BY <2>9 DEF DoesPost, DoesClose, Says, Frame
    <3>2. NoNewClaims(v) /\ KeepsWinning(v)
      BY <3>1 DEF Told
    <3>. QED  BY <2>9, <3>1, <3>2, LeaseKept DEF DoesPost, DoesClose, Moves, Carries, Attempting, Verifying
  <2>. QED  BY <2>0, <2>5, <2>6, <2>7, <2>8, <2>9 DEF Does
<1>. QED  BY <1>1, <1>2, <1>3, <1>4, <1>5 DEF VerifierNext, VerifierStep, verifier_vars

\* Nothing is launched, and the verifier neither makes an order nor is authorized.
SameExecutions ==
  \A x \in executed' : \E y \in executed :
    x.directive = y.directive /\ x.generation = y.generation /\ x.attempt = y.attempt
Follows(v) ==
  \/ verifier'[v].pc \in {"idle", "claim", "confirm"}
  \/ /\ verifier'[v].task = verifier[v].task /\ verifier'[v].generation = verifier[v].generation
     /\ verifier'[v].until = verifier[v].until
     /\ Attempting(v)' => Attempting(v)
     /\ verifier'[v].pc = "launch" => verifier[v].pc = "launch"
     /\ verifier'[v].pc = "order" => verifier[v].pc = "order"
     /\ verifier'[v].pc = "authorize" => verifier[v].pc \in {"order", "authorize"}
     /\ verifier[v].pc = "order" /\ verifier'[v].pc # "order" =>
          verifier[v].generation <= ledger'.latest[verifier[v].task.task]

\* Steps that authorize nothing, make no order and launch nothing.
LEMMA GenerationKept ==
  ASSUME VerifierTypeOK, VerifierTypeOK', AttemptInv, AttemptInv', GenerationInv, clock' >= clock,
         \A t \in PrivilegedTasks : ledger.latest[t] <= ledger'.latest[t],
         SameExecutions, \A v \in Verifiers : Follows(v)
  PROVE  GenerationInv'
<1>0. \A v \in Verifiers : Attempting(v) => verifier[v].task.task \in PrivilegedTasks
  BY DEF AttemptInv, Attempting, Verifying, Posted
<1>. USE DEF SameExecutions, Follows
<1>1. LatestInv'
  <2>1. ASSUME NEW v \in Verifiers, Attempting(v)', verifier'[v].pc # "order"
        PROVE  verifier'[v].generation <= ledger'.latest[verifier'[v].task.task]
    <3>1. /\ Attempting(v) /\ verifier'[v].task = verifier[v].task /\ verifier'[v].generation = verifier[v].generation
      BY <2>1 DEF Attempting, Verifying
    <3>2. CASE verifier[v].pc = "order"
      BY <2>1, <3>1, <3>2 DEF Attempting, Verifying
    <3>3. CASE verifier[v].pc # "order"
      <4>1. PICK t \in PrivilegedTasks : t = verifier[v].task.task
        BY <1>0, <3>1
      <4>2. verifier[v].generation <= ledger.latest[t] /\ ledger.latest[t] <= ledger'.latest[t]
        BY <3>1, <3>3, <4>1 DEF GenerationInv, LatestInv
      <4>3. verifier[v].generation \in Int /\ ledger.latest[t] \in Int /\ ledger'.latest[t] \in Int
        BY DEF VerifierTypeOK
      <4>. QED  BY <3>1, <4>1, <4>2, <4>3
    <3>. QED  BY <3>2, <3>3
  <2>2. ASSUME NEW x \in executed' PROVE x.generation <= ledger'.latest[x.directive.task]
    <3>1. PICK y \in executed : x.directive = y.directive /\ x.generation = y.generation
      OBVIOUS
    <3>2. PICK t \in PrivilegedTasks : t = y.directive.task
      BY DEF VerifierTypeOK, Posted
    <3>3. y.generation <= ledger.latest[t] /\ ledger.latest[t] <= ledger'.latest[t]
      BY <3>2 DEF GenerationInv, LatestInv
    <3>4. y.generation \in Int /\ ledger.latest[t] \in Int /\ ledger'.latest[t] \in Int
      BY DEF VerifierTypeOK
    <3>. QED  BY <3>1, <3>2, <3>3, <3>4
  <2>. QED  BY <2>1, <2>2 DEF LatestInv
<1>2. NewerInv'
  <2>1. SUFFICES ASSUME NEW v \in Verifiers, Live(v)'
        PROVE  /\ \A x \in executed' : Same(v, x.directive.task)' => x.generation < verifier'[v].generation
               /\ \A w \in Verifiers : verifier'[w].pc = "launch" /\ Same(v, verifier[w].task.task)' =>
                    verifier'[w].generation < verifier'[v].generation
    BY DEF NewerInv
  <2>2. /\ verifier'[v].task = verifier[v].task /\ verifier'[v].generation = verifier[v].generation
        /\ Live(v)
    <3>1. verifier[v].until \in Nat /\ clock \in Nat /\ clock' \in Nat
      BY DEF VerifierTypeOK
    <3>. QED  BY <2>1, <3>1 DEF Live
  <2>3. \A x \in executed : Same(v, x.directive.task) => x.generation < verifier[v].generation
    BY <2>2 DEF GenerationInv, NewerInv
  <2>4. \A w \in Verifiers : verifier[w].pc = "launch" /\ Same(v, verifier[w].task.task) =>
          verifier[w].generation < verifier[v].generation
    BY <2>2 DEF GenerationInv, NewerInv
  <2>. QED  BY <2>2, <2>3, <2>4 DEF Same
<1>3. LaunchInv'
  <2>1. SUFFICES ASSUME NEW v \in Verifiers, verifier'[v].pc = "launch"
        PROVE  /\ \A x \in executed' : Same(v, x.directive.task)' => x.generation # verifier'[v].generation
               /\ \A w \in Verifiers : verifier'[w].pc = "launch" /\ Same(v, verifier[w].task.task)' =>
                    v = w \/ verifier'[w].generation # verifier'[v].generation
    BY DEF LaunchInv
  <2>. QED  BY <2>1 DEF GenerationInv, LaunchInv, Same
<1>4. GenerationsTellAttemptsApart'
  BY DEF GenerationInv, GenerationsTellAttemptsApart
<1>. QED  BY <1>1, <1>2, <1>3, <1>4 DEF GenerationInv

LEMMA GenerationStep ==
  ASSUME VerifierTypeOK, VerifierTypeOK', AttemptInv, AttemptInv', LeaseInv, GenerationInv,
         [VerifierNext]_verifier_vars
  PROVE  GenerationInv'
<1>0. /\ \A t \in PrivilegedTasks : ledger.latest[t] \in Int
      /\ clock \in Nat
  BY DEF VerifierTypeOK
<1>1. ASSUME UNCHANGED <<ledger, verifier>>, SameExecutions, clock' >= clock PROVE GenerationInv'
  <2>1. \A v \in Verifiers : Follows(v)
    BY <1>1 DEF Follows, Attempting, Verifying
  <2>2. \A t \in PrivilegedTasks : ledger.latest[t] <= ledger'.latest[t]
    BY <1>0, <1>1
  <2>. QED  BY <1>1, <2>1, <2>2, GenerationKept
<1>2. CASE UNCHANGED verifier_vars \/ PassTime
  <2>1. SameExecutions
    BY <1>2 DEF SameExecutions, verifier_vars, PassTime
  <2>. QED  BY <1>0, <1>1, <1>2, <2>1 DEF verifier_vars, PassTime
<1>3. CASE \E x \in executed : OrphanEnds(x)
  <2>1. PICK x \in executed : OrphanEnds(x)
    BY <1>3
  <2>2. /\ executed' = (executed \ {x}) \cup {Ended(x)}
        /\ UNCHANGED <<ledger, owner, made, clock, verifier, interrupts>>
    BY <2>1 DEF OrphanEnds, Over, Ended
  <2>3. SameExecutions
    BY <2>2, EndedTyped DEF SameExecutions
  <2>. QED  BY <1>0, <1>1, <2>2, <2>3
<1>4. CASE (\E d \in Directives : PostDirective(d)) \/ (\E v \in Verifiers : CancelVerification(v))
  <2>1. UNCHANGED <<made, clock, verifier, executed, interrupts>> /\ \E c : Told(c)
    BY <1>4, OwnerStep
  <2>2. \A t \in PrivilegedTasks : ledger.latest[t] <= ledger'.latest[t]
    BY <2>1 DEF Told
  <2>3. SameExecutions /\ \A v \in Verifiers : Follows(v)
    BY <2>1 DEF SameExecutions, Follows, Attempting, Verifying
  <2>. QED  BY <1>0, <2>1, <2>2, <2>3, GenerationKept
<1>5. ASSUME NEW v \in Verifiers, VerifierStep(v), ~CancelVerification(v)
      PROVE  GenerationInv'
  <2>0. Does(v)
    BY <1>5, StepEffect
  <2>1. ASSUME DoesPoll(v) \/ DoesClaim(v) \/ DoesDrop(v) \/ DoesPost(v) \/ DoesBlock(v) \/ DoesEnd(v)
               \/ DoesClose(v) \/ DoesRelease(v)
        PROVE  GenerationInv'
    <3>1. clock' = clock /\ \A w \in Verifiers \ {v} : verifier'[w] = verifier[w]
      BY <2>1 DEF DoesPoll, DoesClaim, DoesDrop, DoesPost, DoesBlock, DoesEnd, DoesClose, DoesRelease, Moves, Frame
    <3>2. \A t \in PrivilegedTasks : ledger.latest[t] <= ledger'.latest[t]
      <4>1. CASE ledger' = ledger
        BY <1>0, <4>1
      <4>2. CASE \E c : Told(c)
        BY <4>2 DEF Told
      <4>. QED  BY <2>1, <4>1, <4>2 DEF DoesPoll, DoesClaim, DoesDrop, DoesPost, DoesBlock, DoesEnd, DoesClose,
                DoesRelease, Says
    <3>3. SameExecutions
      <4>1. CASE DoesEnd(v)
        BY <4>1, EndedTyped DEF SameExecutions, DoesEnd
      <4>2. CASE executed' = executed
        BY <4>2 DEF SameExecutions
      <4>. QED  BY <2>1, <4>1, <4>2 DEF DoesPoll, DoesClaim, DoesDrop, DoesPost, DoesBlock, DoesClose, DoesRelease, Frame
    <3>4. DoesPost(v) => verifier[v].generation <= ledger'.latest[verifier[v].task.task]
      BY DEF DoesPost, Says, Told, OrderComments
    <3>5. Follows(v)
      BY <2>1, <3>4 DEF DoesPoll, DoesClaim, DoesDrop, DoesPost, DoesBlock, DoesEnd, DoesClose, DoesRelease,
         Moves, Carries, Attempting, Verifying, Follows
    <3>6. \A w \in Verifiers \ {v} : Follows(w)
      BY <3>1 DEF Attempting, Verifying, Follows
    <3>. QED  BY <1>0, <3>1, <3>2, <3>3, <3>5, <3>6, GenerationKept
  <2>2. ASSUME DoesOrder(v) PROVE GenerationInv'
    <3>1. PICK t \in PrivilegedTasks : t = verifier[v].task.task
      BY <2>2 DEF DoesOrder, Moves, AttemptInv, Posted
    <3>2. /\ ledger' = ledger /\ clock' = clock /\ executed' = executed
          /\ \A w \in Verifiers \ {v} : verifier'[w] = verifier[w]
          /\ verifier[v].pc = "confirm" /\ verifier'[v].pc = "order" /\ verifier'[v].task = verifier[v].task
          /\ verifier'[v].generation = ledger.latest[t] + 1
      BY <2>2, <3>1 DEF DoesOrder, Moves
    <3>3. LatestInv'
      BY <3>2 DEF GenerationInv, LatestInv, Attempting, Verifying
    <3>4. /\ \A x \in executed : x.directive.task = t => x.generation < verifier'[v].generation
          /\ \A w \in Verifiers : verifier[w].pc = "launch" /\ verifier[w].task.task = t =>
               verifier[w].generation < verifier'[v].generation
      <4>1. \A x \in executed : x.directive.task = t => x.generation <= ledger.latest[t]
        BY DEF GenerationInv, LatestInv
      <4>2. \A w \in Verifiers : verifier[w].pc = "launch" /\ verifier[w].task.task = t =>
              verifier[w].generation <= ledger.latest[t]
        BY DEF GenerationInv, LatestInv, Attempting, Verifying
      <4>3. /\ \A x \in executed : x.generation \in Int
            /\ \A w \in Verifiers : verifier[w].generation \in Int
        BY DEF VerifierTypeOK
      <4>. QED  BY <1>0, <3>2, <4>1, <4>2, <4>3
    <3>5. NewerInv'
      <4>1. ASSUME NEW w \in Verifiers \ {v}, Live(w)'
            PROVE  /\ \A x \in executed' : Same(w, x.directive.task)' => x.generation < verifier'[w].generation
                   /\ \A u \in Verifiers : verifier'[u].pc = "launch" /\ Same(w, verifier[u].task.task)' =>
                        verifier'[u].generation < verifier'[w].generation
        BY <3>2, <4>1 DEF GenerationInv, NewerInv, Live, Same
      <4>2. /\ \A x \in executed' : Same(v, x.directive.task)' => x.generation < verifier'[v].generation
            /\ \A u \in Verifiers : verifier'[u].pc = "launch" /\ Same(v, verifier[u].task.task)' =>
                 verifier'[u].generation < verifier'[v].generation
        BY <3>1, <3>2, <3>4 DEF Same
      <4>. QED  BY <4>1, <4>2 DEF NewerInv
    <3>6. LaunchInv'
      BY <3>2 DEF GenerationInv, LaunchInv, Same
    <3>. QED  BY <3>2, <3>3, <3>5, <3>6 DEF GenerationInv, GenerationsTellAttemptsApart
  <2>3. ASSUME DoesAuthorize(v) PROVE GenerationInv'
    <3>1. PICK t \in PrivilegedTasks : t = verifier[v].task.task
      BY <2>3 DEF DoesAuthorize, Moves, AttemptInv, Posted
    <3>2. /\ ledger' = ledger /\ clock' = clock /\ executed' = executed
          /\ \A w \in Verifiers \ {v} : verifier'[w] = verifier[w]
          /\ verifier[v].pc = "authorize" /\ verifier'[v].pc = "launch" /\ verifier'[v].task = verifier[v].task
          /\ verifier'[v].generation = verifier[v].generation
          /\ Wins(v, t)
      BY <2>3, <3>1 DEF DoesAuthorize, Moves, Carries, Frame
    <3>3. LatestInv'
      BY <3>2 DEF GenerationInv, LatestInv, Attempting, Verifying
    <3>4. Live(v)
      <4>1. PICK i \in DOMAIN ledger.claims : ClaimAt(i, v, t)
        BY <3>2 DEF Wins
      <4>2. ledger.claims[i].until = verifier[v].until
        BY <3>1, <3>2, <4>1 DEF LeaseInv, LeaseOf, Attempting, Verifying
      <4>3. ledger.claims[i].until > clock
        BY <4>1 DEF ClaimAt, active_for
      <4>. QED  BY <3>2, <4>2, <4>3 DEF Live
    <3>5. /\ \A x \in executed : x.directive.task = t => x.generation < verifier[v].generation
          /\ \A w \in Verifiers : verifier[w].pc = "launch" /\ verifier[w].task.task = t =>
               verifier[w].generation < verifier[v].generation
      BY <3>1, <3>4 DEF GenerationInv, NewerInv, Same
    <3>6. \A w \in Verifiers : Live(w) /\ verifier[w].task.task = t => w = v
      <4>1. ASSUME NEW w \in Verifiers, Live(w), verifier[w].task.task = t PROVE w = v
        <5>1. Wins(w, t)
          BY <4>1 DEF LeaseInv, LeaseOf, Live, Verifying
        <5>. QED  BY <3>2, <5>1, OneWinner
      <4>. QED  BY <4>1
    <3>7. NewerInv'
      <4>1. SUFFICES ASSUME NEW w \in Verifiers \ {v}, Live(w)'
            PROVE  /\ \A x \in executed' : Same(w, x.directive.task)' => x.generation < verifier'[w].generation
                   /\ \A u \in Verifiers : verifier'[u].pc = "launch" /\ Same(w, verifier[u].task.task)' =>
                        verifier'[u].generation < verifier'[w].generation
        BY <3>2 DEF NewerInv, Live
      <4>2. Live(w) /\ verifier[w].task.task # t
        BY <3>2, <3>6, <4>1 DEF Live
      <4>. QED  BY <3>1, <3>2, <4>2 DEF GenerationInv, NewerInv, Same
    <3>8. LaunchInv'
      <4>1. /\ \A x \in executed : x.generation \in Int
            /\ \A w \in Verifiers : verifier[w].generation \in Int
        BY DEF VerifierTypeOK
      <4>2. /\ \A x \in executed : x.directive.task = t => x.generation # verifier[v].generation
            /\ \A w \in Verifiers : verifier[w].pc = "launch" /\ verifier[w].task.task = t =>
                 verifier[w].generation # verifier[v].generation
        BY <3>5, <4>1
      <4>. QED  BY <3>1, <3>2, <4>2 DEF GenerationInv, LaunchInv, Same
    <3>. QED  BY <3>2, <3>3, <3>7, <3>8 DEF GenerationInv, GenerationsTellAttemptsApart
  <2>4. ASSUME DoesLaunch(v) PROVE GenerationInv'
    <3> DEFINE new == Launched(v)
    <3>1. new.directive = verifier[v].task /\ new.generation = verifier[v].generation
          /\ new.attempt = verifier[v].attempt
      BY DEF Launched
    <3>2. /\ ledger' = ledger /\ clock' = clock /\ executed' = executed \cup {new}
          /\ \A w \in Verifiers \ {v} : verifier'[w] = verifier[w]
          /\ verifier[v].pc = "launch" /\ verifier'[v].pc = "run" /\ verifier'[v].task = verifier[v].task
          /\ verifier'[v].generation = verifier[v].generation
      BY <2>4 DEF DoesLaunch, Moves, Carries
    <3> HIDE DEF new
    <3>3. LatestInv'
      BY <3>1, <3>2 DEF GenerationInv, LatestInv, Attempting, Verifying
    <3>4. NewerInv'
      BY <3>1, <3>2 DEF GenerationInv, NewerInv, Live, Same
    <3>5. LaunchInv'
      BY <3>1, <3>2 DEF GenerationInv, LaunchInv, Same
    <3>6. GenerationsTellAttemptsApart'
      BY <3>1, <3>2 DEF GenerationInv, GenerationsTellAttemptsApart, LaunchInv, Same
    <3>. QED  BY <3>3, <3>4, <3>5, <3>6 DEF GenerationInv
  <2>. QED  BY <2>0, <2>1, <2>2, <2>3, <2>4 DEF Does
<1>. QED  BY <1>2, <1>3, <1>4, <1>5 DEF VerifierNext, VerifierStep

LEMMA OneReplaced ==
  ASSUME NEW S, IsFiniteSet(S), NEW x \in S, NEW y
  PROVE  /\ IsFiniteSet((S \ {x}) \cup {y})
         /\ Cardinality((S \ {x}) \cup {y}) <= Cardinality(S)
<1>1. IsFiniteSet(S \ {x}) /\ Cardinality(S \ {x}) = Cardinality(S) - 1
  BY FS_RemoveElement
<1>2. /\ IsFiniteSet((S \ {x}) \cup {y})
      /\ \/ Cardinality((S \ {x}) \cup {y}) = Cardinality(S \ {x})
         \/ Cardinality((S \ {x}) \cup {y}) = Cardinality(S \ {x}) + 1
  BY <1>1, FS_AddElement
<1>3. Cardinality(S) \in Nat
  BY FS_CardinalityType
<1>. QED  BY <1>1, <1>2, <1>3

\* No launch more, and no more to come than an interruption allows.
LEMMA RunsKept ==
  ASSUME VerifierTypeOK, NEW v, NEW d, RunsWithin(v, d), interrupts' \in Nat,
         IsFiniteSet(Launches(v, d)'), Cardinality(Launches(v, d)') <= Cardinality(Launches(v, d)),
         \/ interrupts' >= interrupts /\ (Pending(v, d)' => Pending(v, d))
         \/ interrupts' = interrupts + 1
  PROVE  RunsWithin(v, d)'
<1>1. Cardinality(Launches(v, d)) \in Nat /\ Cardinality(Launches(v, d)') \in Nat /\ interrupts \in Nat
  BY FS_CardinalityType DEF RunsWithin, VerifierTypeOK
<1>2. Cardinality(Launches(v, d)) + (IF Pending(v, d) THEN 1 ELSE 0) <= 1 + interrupts
  BY DEF RunsWithin
<1>3. Cardinality(Launches(v, d)') + (IF Pending(v, d)' THEN 1 ELSE 0) <= 1 + interrupts'
  <2>1. CASE interrupts' >= interrupts /\ (Pending(v, d)' => Pending(v, d))
    BY <1>1, <1>2, <2>1
  <2>2. CASE interrupts' = interrupts + 1
    BY <1>1, <1>2, <2>2
  <2>. QED  BY <2>1, <2>2
<1>. QED  BY <1>3 DEF RunsWithin

\* An action that ends is counted as before.
LEMMA EndedRuns ==
  ASSUME VerifierTypeOK, NEW x \in executed, executed' = (executed \ {x}) \cup {Ended(x)},
         NEW v, NEW d, IsFiniteSet(Launches(v, d))
  PROVE  /\ IsFiniteSet(Launches(v, d)')
         /\ Cardinality(Launches(v, d)') <= Cardinality(Launches(v, d))
<1>1. Ended(x).agent = x.agent /\ Ended(x).directive = x.directive
  BY EndedTyped
<1>2. CASE x \in Launches(v, d)
  <2>1. Launches(v, d)' = (Launches(v, d) \ {x}) \cup {Ended(x)}
    BY <1>1, <1>2 DEF Launches
  <2>. QED  BY <1>2, <2>1, OneReplaced
<1>3. CASE x \notin Launches(v, d)
  <2>1. Launches(v, d)' = Launches(v, d)
    BY <1>1, <1>3 DEF Launches
  <2>2. Cardinality(Launches(v, d)) \in Nat
    BY FS_CardinalityType
  <2>. QED  BY <2>1, <2>2
<1>. QED  BY <1>2, <1>3

LEMMA SameRuns ==
  ASSUME executed' = executed, NEW v, NEW d, IsFiniteSet(Launches(v, d))
  PROVE  /\ IsFiniteSet(Launches(v, d)')
         /\ Cardinality(Launches(v, d)') <= Cardinality(Launches(v, d))
<1>1. Launches(v, d)' = Launches(v, d) /\ Cardinality(Launches(v, d)) \in Nat
  BY FS_CardinalityType DEF Launches
<1>. QED  BY <1>1

\* What a verifier says ends directives, and starts none.
LEMMA ActiveShrinks ==
  ASSUME NEW v \in Verifiers, Does(v)
  PROVE  ledger'.active \subseteq ledger.active
<1>1. CASE ledger' = ledger
  BY <1>1
<1>2. CASE \E c : Told(c) /\ c.type # "TASK"
  BY <1>2 DEF Told
<1>. QED  BY <1>1, <1>2 DEF Does, Says, DoesPoll, DoesClaim, DoesDrop, DoesOrder, DoesPost, DoesAuthorize,
            DoesBlock, DoesLaunch, DoesEnd, DoesClose, DoesRelease

LEMMA NumberStep ==
  ASSUME VerifierTypeOK, VerifierTypeOK', AttemptInv, NumberInv, [VerifierNext]_verifier_vars
  PROVE  NumberInv'
<1>1. CASE UNCHANGED verifier_vars \/ PassTime
  BY <1>1 DEF NumberInv, verifier_vars, PassTime
<1>2. CASE \E x \in executed : OrphanEnds(x)
  <2>1. PICK x \in executed : OrphanEnds(x)
    BY <1>2
  <2>2. /\ executed' = (executed \ {x}) \cup {Ended(x)}
        /\ UNCHANGED <<ledger, owner, made, clock, verifier, interrupts>>
    BY <2>1 DEF OrphanEnds, Over, Ended
  <2>. QED  BY <2>2, EndedTyped DEF NumberInv
<1>3. CASE (\E d \in Directives : PostDirective(d)) \/ (\E v \in Verifiers : CancelVerification(v))
  <2>1. /\ UNCHANGED <<made, clock, verifier, executed, interrupts>> /\ owner' = owner + 1
        /\ \E c : Told(c) /\ (c.type = "TASK" => c.no = owner)
    BY <1>3, OwnerStep
  <2>2. \A d \in ledger'.active : d \in ledger.active \/ d.no = owner
    BY <2>1 DEF Told
  <2>3. /\ owner \in Nat /\ \A d \in ledger.active : d.no \in Nat
        /\ \A x \in executed : x.directive.no \in Nat
        /\ \A v \in Verifiers : verifier[v].pc # "idle" => verifier[v].task.no \in Nat
    BY DEF VerifierTypeOK, AttemptInv, Posted
  <2>. QED  BY <2>1, <2>2, <2>3 DEF NumberInv
<1>4. ASSUME NEW v \in Verifiers, VerifierStep(v), ~CancelVerification(v)
      PROVE  NumberInv'
  <2>1. Does(v) /\ ledger'.active \subseteq ledger.active
    BY <1>4, StepEffect, ActiveShrinks
  <2>2. owner' = owner /\ \A w \in Verifiers \ {v} : verifier'[w] = verifier[w]
    BY <2>1 DEF Does, Frame, Moves, DoesPoll, DoesClaim, DoesDrop, DoesOrder, DoesPost, DoesAuthorize,
                DoesBlock, DoesLaunch, DoesEnd, DoesClose, DoesRelease
  <2>3. \/ verifier'[v].pc = "idle" \/ verifier'[v].task \in ledger.active
        \/ verifier[v].pc # "idle" /\ verifier'[v].task = verifier[v].task
    BY <2>1 DEF Does, Carries, Moves, DoesPoll, DoesClaim, DoesDrop, DoesOrder, DoesPost, DoesAuthorize,
                DoesBlock, DoesLaunch, DoesEnd, DoesClose, DoesRelease
  <2>4. \A x \in executed' : x.directive.no < owner
    <3>1. CASE DoesLaunch(v)
      <4>1. executed' = executed \cup {Launched(v)} /\ verifier[v].pc = "launch"
        BY <3>1 DEF DoesLaunch, Moves
      <4>2. Launched(v).directive = verifier[v].task
        BY DEF Launched
      <4>. QED  BY <4>1, <4>2 DEF NumberInv
    <3>2. CASE DoesEnd(v)
      BY <3>2, EndedTyped DEF DoesEnd, NumberInv
    <3>3. CASE executed' = executed
      BY <3>3 DEF NumberInv
    <3>. QED  BY <2>1, <3>1, <3>2, <3>3 DEF Does, Frame, DoesPoll, DoesClaim, DoesDrop, DoesOrder, DoesPost,
                DoesAuthorize, DoesBlock, DoesClose, DoesRelease
  <2>. QED  BY <2>1, <2>2, <2>3, <2>4 DEF NumberInv
<1>. QED  BY <1>1, <1>2, <1>3, <1>4 DEF VerifierNext, VerifierStep

\* The launch is what was still to come.
LEMMA LaunchedRuns ==
  ASSUME VerifierTypeOK, NEW v \in Verifiers, NEW d, DoesLaunch(v), RunsWithin(v, d)
  PROVE  RunsWithin(v, d)'
<1>1. Launched(v).agent = v /\ Launched(v).directive = verifier[v].task
  BY DEF Launched
<1>2. /\ executed' = executed \cup {Launched(v)} /\ ledger' = ledger /\ interrupts' = interrupts
      /\ verifier[v].pc = "launch" /\ verifier'[v].pc = "run" /\ verifier'[v].task = verifier[v].task
  BY DEF DoesLaunch, Moves, Carries
<1>3. CASE d = verifier[v].task
  <2> DEFINE S == Launches(v, d)
  <2>1. Launches(v, d)' = S \cup {Launched(v)}
    BY <1>1, <1>2, <1>3 DEF Launches
  <2>2. /\ IsFiniteSet(S \cup {Launched(v)})
        /\ \/ Cardinality(S \cup {Launched(v)}) = Cardinality(S)
           \/ Cardinality(S \cup {Launched(v)}) = Cardinality(S) + 1
    BY FS_AddElement DEF RunsWithin
  <2>3. Pending(v, d) /\ ~Pending(v, d)'
    BY <1>2, <1>3 DEF Pending
  <2>4. Cardinality(S) \in Nat /\ interrupts \in Nat /\ Cardinality(S) + 1 <= 1 + interrupts
    BY <2>3, FS_CardinalityType DEF RunsWithin, VerifierTypeOK
  <2>5. Cardinality(Launches(v, d)') <= 1 + interrupts'
    <3> HIDE DEF S
    <3>. QED  BY <1>2, <2>1, <2>2, <2>4
  <2>6. Cardinality(Launches(v, d)') + 0 = Cardinality(Launches(v, d)')
    BY <2>1, <2>2, FS_CardinalityType
  <2>. QED  BY <2>1, <2>2, <2>3, <2>5, <2>6 DEF RunsWithin
<1>4. CASE d # verifier[v].task
  <2>1. Launches(v, d)' = Launches(v, d)
    BY <1>1, <1>2, <1>4 DEF Launches
  <2>2. Pending(v, d)' <=> Pending(v, d)
    BY <1>2, <1>4 DEF Pending
  <2>. QED  BY <1>2, <2>1, <2>2 DEF RunsWithin
<1>. QED  BY <1>3, <1>4

\* A verifier's step leaves nothing more to launch, unless it is interrupted.
LEMMA PendingShrinks ==
  ASSUME NEW v \in Verifiers, Does(v), NEW w \in Verifiers, NEW d, Pending(w, d)',
         interrupts' # interrupts + 1
  PROVE  Pending(w, d)
<1>1. ledger'.active \subseteq ledger.active
  BY ActiveShrinks
<1>2. CASE w # v
  <2>1. verifier'[w] = verifier[w]
    BY <1>2 DEF Does, Moves, DoesPoll, DoesClaim, DoesDrop, DoesOrder, DoesPost,
                DoesAuthorize, DoesBlock, DoesLaunch, DoesEnd, DoesClose, DoesRelease
  <2>. QED  BY <1>1, <2>1 DEF Pending
<1>3. CASE w = v
  <2>1. CASE DoesPoll(v) \/ DoesDrop(v) \/ DoesRelease(v)
    BY <1>1, <1>3, <2>1 DEF DoesPoll, DoesDrop, DoesRelease, Moves, Pending
  <2>2. CASE DoesClaim(v) \/ DoesOrder(v) \/ DoesPost(v) \/ DoesAuthorize(v) \/ DoesBlock(v)
             \/ DoesLaunch(v) \/ DoesEnd(v)
    BY <1>1, <1>3, <2>2 DEF DoesClaim, DoesOrder, DoesPost, DoesAuthorize, DoesBlock, DoesLaunch, DoesEnd,
       Moves, Carries, Pending
  <2>3. CASE DoesClose(v)
    <3>1. CASE verifier[v].pc = "close"
      BY <1>1, <1>3, <2>3, <3>1 DEF DoesClose, Moves, Carries, Pending
    <3>2. CASE verifier[v].pc = "end"
      <4>1. verifier'[v].task = verifier[v].task /\ Says(v, {"DONE", "BLOCKED"})
        BY <2>3, <3>2 DEF DoesClose, Moves, Carries
      <4>2. \A e \in ledger'.active : e.task # verifier[v].task.task
        BY <4>1 DEF Says, Told
      <4>. QED  BY <1>1, <1>3, <2>3, <3>2, <4>1, <4>2 DEF DoesClose, Moves, Pending
    <3>. QED  BY <2>3, <3>1, <3>2 DEF DoesClose, Moves
  <2>. QED  BY <2>1, <2>2, <2>3 DEF Does
<1>. QED  BY <1>2, <1>3

LEMMA OnceStep ==
  ASSUME VerifierTypeOK, VerifierTypeOK', AttemptInv, OnceInv, [VerifierNext]_verifier_vars
  PROVE  OnceInv'
<1>0. NumberInv'
  BY NumberStep DEF OnceInv
<1> SUFFICES ASSUME NEW w \in Verifiers, NEW d \in Posted PROVE RunsWithin(w, d)'
  BY <1>0 DEF OnceInv
<1>1. RunsWithin(w, d) /\ IsFiniteSet(Launches(w, d))
  BY DEF OnceInv, RunsWithin
<1>2. interrupts \in Nat /\ interrupts' \in Nat
  BY DEF VerifierTypeOK
<1>3. CASE UNCHANGED verifier_vars \/ PassTime
  <2>1. UNCHANGED <<ledger, verifier, executed, interrupts>>
    BY <1>3 DEF verifier_vars, PassTime
  <2>2. Pending(w, d)' <=> Pending(w, d)
    BY <2>1 DEF Pending
  <2>. QED  BY <1>1, <1>2, <2>1, <2>2, SameRuns, RunsKept
<1>4. CASE \E x \in executed : OrphanEnds(x)
  <2>1. PICK x \in executed : OrphanEnds(x)
    BY <1>4
  <2>2. /\ executed' = (executed \ {x}) \cup {Ended(x)}
        /\ UNCHANGED <<ledger, owner, made, clock, verifier, interrupts>>
    BY <2>1 DEF OrphanEnds, Over, Ended
  <2>3. Pending(w, d)' <=> Pending(w, d)
    BY <2>2 DEF Pending
  <2>. QED  BY <1>1, <1>2, <2>2, <2>3, EndedRuns, RunsKept
<1>5. CASE (\E e \in Directives : PostDirective(e)) \/ (\E v \in Verifiers : CancelVerification(v))
  <2>1. /\ UNCHANGED <<made, clock, verifier, executed, interrupts>>
        /\ \A e \in ledger'.active : e \in ledger.active \/ e.no = owner
    BY <1>5, OwnerStep DEF Told
  <2>2. CASE d.no = owner
    <3>1. Launches(w, d)' = {}
      BY <2>1, <2>2 DEF Launches, OnceInv, NumberInv, VerifierTypeOK
    <3>2. IsFiniteSet({}) /\ Cardinality({}) = 0
      BY FS_EmptySet
    <3>3. PICK n \in {0, 1} : n = IF Pending(w, d)' THEN 1 ELSE 0
      OBVIOUS
    <3>4. PICK k \in Nat : k = interrupts'
      BY <1>2
    <3>5. 0 + n <= 1 + k
      OBVIOUS
    <3>. QED  BY <3>1, <3>2, <3>3, <3>4, <3>5 DEF RunsWithin
  <2>3. CASE d.no # owner
    <3>1. Pending(w, d)' => Pending(w, d)
      BY <2>1, <2>3 DEF Pending
    <3>. QED  BY <1>1, <1>2, <2>1, <3>1, SameRuns, RunsKept
  <2>. QED  BY <2>2, <2>3
<1>6. ASSUME NEW v \in Verifiers, VerifierStep(v), ~CancelVerification(v)
      PROVE  RunsWithin(w, d)'
  <2>1. Does(v)
    BY <1>6, StepEffect
  <2>2. /\ interrupts' >= interrupts /\ (Pending(w, d)' => Pending(w, d))
        \/ interrupts' = interrupts + 1
    <3>1. interrupts' = interrupts \/ interrupts' = interrupts + 1
      BY <2>1 DEF Does, Frame, DoesPoll, DoesClaim, DoesDrop, DoesOrder, DoesPost,
                DoesAuthorize, DoesBlock, DoesLaunch, DoesEnd, DoesClose, DoesRelease
    <3>. QED  BY <1>2, <2>1, <3>1, PendingShrinks
  <2>3. CASE DoesLaunch(v)
    <3>1. CASE w = v
      BY <1>1, <2>3, <3>1, LaunchedRuns
    <3>2. CASE w # v
      <4>1. Launches(w, d)' = Launches(w, d)
        BY <2>3, <3>2 DEF Launches, DoesLaunch, Launched
      <4>2. Cardinality(Launches(w, d)) \in Nat
        BY <1>1, FS_CardinalityType
      <4>. QED  BY <1>1, <1>2, <2>2, <4>1, <4>2, RunsKept
    <3>. QED  BY <3>1, <3>2
  <2>4. CASE DoesEnd(v)
    <3>1. PICK x \in executed : executed' = (executed \ {x}) \cup {Ended(x)}
      BY <2>4 DEF DoesEnd
    <3>. QED  BY <1>1, <1>2, <2>2, <3>1, EndedRuns, RunsKept
  <2>5. CASE executed' = executed
    BY <1>1, <1>2, <2>2, <2>5, SameRuns, RunsKept
  <2>. QED  BY <2>1, <2>3, <2>4, <2>5 DEF Does, Frame, DoesPoll, DoesClaim, DoesDrop, DoesOrder, DoesPost,
                DoesAuthorize, DoesBlock, DoesClose, DoesRelease
<1>. QED  BY <1>3, <1>4, <1>5, <1>6 DEF VerifierNext, VerifierStep
-----------------------------------------------------------------------------
LEMMA VerifierInvInit == VerifierInit => VerifierInv
<1> SUFFICES ASSUME VerifierInit PROVE VerifierInv
  OBVIOUS
<1>1. /\ ledger.active = {} /\ ledger.claims = <<>> /\ ledger.latest = [t \in PrivilegedTasks |-> -1]
      /\ owner = 0 /\ made = 0 /\ clock = 0 /\ executed = {} /\ interrupts = 0
      /\ verifier = [v \in Verifiers |-> Waiting]
  BY DEF VerifierInit, PrivilegedTasks
<1>2. \A v \in Verifiers : verifier[v].pc = "idle" /\ verifier[v].attempt = Nothing
  BY <1>1 DEF Waiting
<1>3. VerifierTypeOK
  BY <1>1, WaitingTyped, EmptySeq DEF VerifierTypeOK, VerifierType
<1>4. AttemptInv
  BY <1>1, <1>2 DEF AttemptInv, Attempting, Verifying
<1>5. LeaseInv
  BY <1>2 DEF LeaseInv, LeaseOf, Attempting, Verifying
<1>6. GenerationInv
  BY <1>1, <1>2 DEF GenerationInv, LatestInv, NewerInv, LaunchInv, GenerationsTellAttemptsApart, Live,
     Attempting, Verifying
<1>7. OnceInv
  <2>1. NumberInv
    BY <1>1, <1>2 DEF NumberInv
  <2>2. ASSUME NEW v \in Verifiers, NEW d \in Posted PROVE RunsWithin(v, d)
    <3>1. Launches(v, d) = {} /\ ~Pending(v, d)
      BY <1>1, <1>2 DEF Launches, Pending
    <3>2. IsFiniteSet({}) /\ Cardinality({}) = 0
      BY FS_EmptySet
    <3>. QED  BY <1>1, <3>1, <3>2 DEF RunsWithin
  <2>. QED  BY <2>1, <2>2 DEF OnceInv
<1>. QED  BY <1>3, <1>4, <1>5, <1>6, <1>7 DEF VerifierInv

LEMMA VerifierInvNext == VerifierInv /\ [VerifierNext]_verifier_vars => VerifierInv'
<1> SUFFICES ASSUME VerifierInv, [VerifierNext]_verifier_vars PROVE VerifierInv'
  OBVIOUS
<1>. USE DEF VerifierInv
<1>1. VerifierTypeOK'
  BY TypeStep
<1>2. AttemptInv'
  BY <1>1, AttemptStep
<1>3. LeaseInv' /\ GenerationInv' /\ OnceInv'
  BY <1>1, <1>2, LeaseStep, GenerationStep, OnceStep
<1>. QED  BY <1>1, <1>2, <1>3

LEMMA VerifierInvSafe == VerifierInv => OneVerificationPerOrder
<1> SUFFICES ASSUME VerifierInv PROVE OneVerificationPerOrder
  OBVIOUS
<1>. USE DEF VerifierInv
<1>1. ExclusiveVerification
  <2>1. SUFFICES ASSUME NEW x \in executed, NEW y \in executed, x # y, x.live, y.live,
                        x.directive.task = y.directive.task,
                        \A z \in {x, y} : verifier[z.agent].attempt = z.attempt /\ ~(z.deadline >= z.until)
                 PROVE  FALSE
    BY DEF ExclusiveVerification
  <2>2. ASSUME NEW z \in {x, y}
        PROVE  z.agent \in Verifiers /\ Wins(z.agent, x.directive.task)
    <3>1. z.agent \in Verifiers /\ z.deadline \in Nat /\ z.until \in Nat /\ clock \in Nat
      BY DEF VerifierTypeOK
    <3>2. /\ verifier[z.agent].pc = "run" /\ verifier[z.agent].task = z.directive
          /\ verifier[z.agent].deadline = z.deadline /\ verifier[z.agent].until = z.until
      BY <2>1, <3>1 DEF AttemptInv
    <3>3. clock <= z.deadline
      BY <3>1, <3>2 DEF AttemptInv
    <3>4. verifier[z.agent].until > clock
      BY <2>1, <3>1, <3>2, <3>3
    <3>. QED  BY <2>1, <3>1, <3>2, <3>4 DEF LeaseInv, LeaseOf, Verifying
  <2>3. x.agent = y.agent
    BY <2>2, OneWinner
  <2>4. x.attempt = y.attempt
    BY <2>1, <2>3
  <2>. QED  BY <2>1, <2>4 DEF AttemptInv
<1>2. GenerationsTellAttemptsApart
  BY DEF GenerationInv
<1>3. DirectivesRunOnce
  <2>1. \A x \in executed : x.directive.dispatch \in TrustedDispatch /\ x.directive \in Posted
    BY DEF AttemptInv, VerifierTypeOK
  <2>2. ASSUME NEW v \in Verifiers, NEW d \in Posted
        PROVE  Cardinality(Launches(v, d)) <= 1 + interrupts
    <3>1. RunsWithin(v, d)
      BY DEF OnceInv
    <3>2. Cardinality(Launches(v, d)) \in Nat /\ interrupts \in Nat
      BY <3>1, FS_CardinalityType DEF RunsWithin, VerifierTypeOK
    <3>3. Cardinality(Launches(v, d)) + (IF Pending(v, d) THEN 1 ELSE 0) <= 1 + interrupts
      BY <3>1 DEF RunsWithin
    <3>. QED  BY <3>2, <3>3
  <2>. QED  BY <2>1, <2>2 DEF DirectivesRunOnce, Launches
<1>. QED  BY <1>1, <1>2, <1>3 DEF OneVerificationPerOrder

\* Whatever is posted, cancelled, interrupted or late, an order of the
\* privileged lane is verified once: two coordinators never run a task at a
\* time (the winner of run_once's second reading keeps winning), every action
\* launched has a generation of its own (authorize_work_order lets only the
\* winner and the latest pass), and an agent launches a directive once, apart
\* from interruptions.
THEOREM OneVerification == VerifierSpec => []OneVerificationPerOrder
<1>1. VerifierSpec => []VerifierInv
  BY VerifierInvInit, VerifierInvNext, PTL DEF VerifierSpec
<1>. QED  BY <1>1, VerifierInvSafe, PTL
=============================================================================
