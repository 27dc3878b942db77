------------------------- MODULE TrustedLocalBroker -------------------------
(***************************************************************************)
(* The outbound broker (trusted_local_broker.py, trusted_local_queue.py,   *)
(* trusted_local_runner.py, scripts/run_trusted_local_broker.py): brokers  *)
(* coordinate only through comments appended to one GitHub issue.  A       *)
(* broker claims a READY task, checks that its claim is the earliest live  *)
(* one, posts a WorkOrder, runs the model and the checks, reads the issue  *)
(* again and publishes a draft pull request, then closes out.              *)
(*                                                                         *)
(* The issue is kept as what its readers derive from it: the READY tasks,  *)
(* the live claims in comment order, the newest generation and the ended   *)
(* attempts.  A claim leaves the set when it is released or its lease runs *)
(* out; nothing in the program renews one.  Which of several READY tasks a *)
(* poll takes is left open.                                                *)
(***************************************************************************)
EXTENDS Integers, FiniteSets

CONSTANTS Agents, Tasks,
          None,
          Lease,       \* ticks a claim lives (120 minutes in the code)
          Deadline,    \* ticks a WorkOrder may run (60 minutes in the code)
          Prompt,      \* requests before the launch take no time worth counting
          MaxReady, MaxFaults, MaxCrashes, MaxAttempts   \* bounds

ASSUME BrokerAssumption ==
  /\ None \notin Tasks
  /\ Lease \in Nat \ {0} /\ Deadline \in Nat \ {0}
  /\ Prompt \in BOOLEAN
  /\ MaxReady \in Nat /\ MaxFaults \in Nat /\ MaxCrashes \in Nat /\ MaxAttempts \in Nat

VARIABLES ready,      \* tasks whose latest lifecycle directive is READY
          claims,     \* live claims; no orders the comments of a task
          latest,     \* newest generation posted for each task, -1 before any
          ended,      \* attempts with a WORKORDER_DONE or WORKORDER_CANCEL
          prs,        \* draft pull requests
          broker,     \* each broker process
          attempts,   \* number of attempt ids so far
          readied,    \* READY directives posted for each task
          faults, crashes

issue == <<ready, claims, latest, ended>>
count == <<attempts, readied, faults, crashes>>
vars == <<issue, prs, broker, count>>

Pcs == {"idle", "claim", "confirm", "post_order", "authorize", "codex", "checks",
        "reconcile", "publish", "close_order", "close_task", "release", "dead"}

\* lease: what is left of the lease computed at the poll; left: of the deadline.
Brokers == [pc : Pcs, task : Tasks \cup {None}, lease : Nat, attempt : Nat,
            generation : Nat, left : Nat]

Claims == [task : Tasks, agent : Agents, no : Nat \ {0}, left : Nat \ {0}]

PullRequests == [task : Tasks, agent : Agents, attempt : Nat, generation : Nat]

Idle == [pc |-> "idle", task |-> None, lease |-> 0, attempt |-> 0,
         generation |-> 0, left |-> 0]

TypeOK ==
  /\ ready \in SUBSET Tasks
  /\ claims \in SUBSET Claims
  /\ latest \in [Tasks -> Nat \cup {-1}]
  /\ ended \in SUBSET Nat
  /\ prs \in SUBSET PullRequests
  /\ broker \in [Agents -> Brokers]
  /\ attempts \in Nat /\ readied \in [Tasks -> Nat]
  /\ faults \in Nat /\ crashes \in Nat

Init ==
  /\ ready = {} /\ claims = {} /\ ended = {} /\ prs = {}
  /\ latest = [t \in Tasks |-> -1]
  /\ broker = [a \in Agents |-> Idle]
  /\ attempts = 0 /\ readied = [t \in Tasks |-> 0]
  /\ faults = 0 /\ crashes = 0

ClaimsOn(t) == {c \in claims : c.task = t}
HasClaim(a, t) == \E c \in ClaimsOn(t) : c.agent = a

\* Defect: a later claim replaces an earlier one.
Winning_last(a, t) ==
  \E c \in ClaimsOn(t) : c.agent = a /\ \A d \in ClaimsOn(t) : d.no <= c.no

\* parse_claim_ledger: the earliest live claim of the task wins.
Winning(a, t) ==
  \E c \in ClaimsOn(t) : c.agent = a /\ \A d \in ClaimsOn(t) : c.no <= d.no

\* authorize_work_order on a fresh reading of the issue.
Authorized(a) ==
  LET b == broker[a] IN
  /\ b.left > 0
  /\ Winning(a, b.task)
  /\ b.attempt \notin ended
  /\ b.generation >= latest[b.task]

Goto(a, pc) == broker' = [broker EXCEPT ![a].pc = pc]
Stop(a) == broker' = [broker EXCEPT ![a] = Idle]
-----------------------------------------------------------------------------
(***************************************************************************)
(* What a comment, or the pull request, of a broker changes when it lands  *)
(***************************************************************************)
Newer(t, g) == [latest EXCEPT ![t] = IF g > @ THEN g ELSE @]

\* CLAIM: its lease was computed when the issue was polled.
LandClaim(a) ==
  /\ \/ broker[a].lease = 0 /\ UNCHANGED claims
     \/ /\ broker[a].lease > 0
        /\ \E n \in {1} \cup {c.no + 1 : c \in ClaimsOn(broker[a].task)} :
             /\ \A c \in ClaimsOn(broker[a].task) : c.no < n
             /\ claims' = claims \cup {[task |-> broker[a].task, agent |-> a, no |-> n,
                                        left |-> broker[a].lease]}
  /\ UNCHANGED <<ready, latest, ended, prs>>

\* WORKORDER
LandOrder(a) ==
  /\ latest' = Newer(broker[a].task, broker[a].generation)
  /\ UNCHANGED <<ready, claims, ended, prs>>

\* The draft pull request
LandPullRequest(a) ==
  /\ prs' = prs \cup {[task |-> broker[a].task, agent |-> a,
                       attempt |-> broker[a].attempt, generation |-> broker[a].generation]}
  /\ UNCHANGED <<issue>>

\* WORKORDER_DONE
LandOrderDone(a) ==
  /\ ended' = ended \cup {broker[a].attempt}
  /\ latest' = Newer(broker[a].task, broker[a].generation)
  /\ UNCHANGED <<ready, claims, prs>>

\* DONE or BLOCKED: either one ends the task's lifecycle.
LandTaskDone(a) ==
  /\ ready' = ready \ {broker[a].task}
  /\ UNCHANGED <<claims, latest, ended, prs>>

\* RELEASE: the newest live claim of this agent on the task.
LandRelease(a) ==
  /\ claims' = {c \in claims : ~ /\ c.task = broker[a].task /\ c.agent = a
                                 /\ \A d \in ClaimsOn(c.task) : d.agent = a => d.no <= c.no}
  /\ UNCHANGED <<ready, latest, ended, prs>>

\* What the request under way does if it reaches GitHub.
Land(a) ==
  \/ broker[a].pc = "claim" /\ LandClaim(a)
  \/ broker[a].pc = "post_order" /\ LandOrder(a)
  \/ broker[a].pc = "publish" /\ LandPullRequest(a)
  \/ broker[a].pc = "close_order" /\ LandOrderDone(a)
  \/ broker[a].pc = "close_task" /\ LandTaskDone(a)
  \/ broker[a].pc = "release" /\ LandRelease(a)
-----------------------------------------------------------------------------
(***************************************************************************)
(* run_once, request by request                                            *)
(***************************************************************************)

\* Defect: a task that was ordered once counts as taken after its claim is gone.
Poll_onceonly(a, t) ==
  /\ broker[a].pc = "idle"
  /\ t \in ready /\ ClaimsOn(t) = {} /\ latest[t] = -1
  /\ broker' = [broker EXCEPT ![a] = [Idle EXCEPT !.pc = "claim", !.task = t, !.lease = Lease]]
  /\ UNCHANGED <<issue, prs, count>>

\* The first reading: a READY task without a live claim.
Poll(a, t) ==
  /\ broker[a].pc = "idle"
  /\ t \in ready /\ ClaimsOn(t) = {}
  /\ broker' = [broker EXCEPT ![a] = [Idle EXCEPT !.pc = "claim", !.task = t, !.lease = Lease]]
  /\ UNCHANGED <<issue, prs, count>>

PostClaim(a) ==
  /\ broker[a].pc = "claim"
  /\ LandClaim(a)
  /\ Goto(a, "confirm")
  /\ UNCHANGED <<attempts, readied, faults, crashes>>

\* next_generation, from the reading that confirmed the claim
NextGeneration(a) == latest[broker[a].task] + 1

\* Defect: the claim is not confirmed.
Confirm_any(a) ==
  /\ broker[a].pc = "confirm" /\ attempts < MaxAttempts
  /\ attempts' = attempts + 1
  /\ broker' = [broker EXCEPT ![a].pc = "post_order", ![a].attempt = attempts + 1,
                              ![a].generation = NextGeneration(a), ![a].left = Deadline]
  /\ UNCHANGED <<issue, prs, readied, faults, crashes>>

\* The second reading: a loser returns and leaves its claim behind; a winner
\* makes a WorkOrder with a fresh attempt id and the next generation.
Confirm(a) ==
  /\ broker[a].pc = "confirm"
  /\ \/ /\ ~Winning(a, broker[a].task)
        /\ Stop(a)
        /\ UNCHANGED attempts
     \/ /\ Winning(a, broker[a].task) /\ attempts < MaxAttempts
        /\ attempts' = attempts + 1
        /\ broker' = [broker EXCEPT ![a].pc = "post_order", ![a].attempt = attempts + 1,
                                    ![a].generation = NextGeneration(a),
                                    ![a].left = Deadline]
  /\ UNCHANGED <<issue, prs, readied, faults, crashes>>

PostOrder(a) ==
  /\ broker[a].pc = "post_order"
  /\ LandOrder(a)
  /\ Goto(a, "authorize")
  /\ UNCHANGED <<attempts, readied, faults, crashes>>

\* The third reading: run_local_codex_task is authorized on it, or blocked.
Authorize(a) ==
  /\ broker[a].pc = "authorize"
  /\ Goto(a, IF Authorized(a) THEN "codex" ELSE "close_order")
  /\ UNCHANGED <<issue, prs, count>>

\* Codex, then the independent checks: each is bounded by the deadline, and
\* any failure (worktree, exit code, timeout) goes to the closeout.
Work(a) ==
  /\ broker[a].pc \in {"codex", "checks"}
  /\ \/ /\ broker[a].left > 0
        /\ Goto(a, IF broker[a].pc = "codex" THEN "checks" ELSE "reconcile")
     \/ Goto(a, "close_order")
  /\ UNCHANGED <<issue, prs, count>>

\* reconcile_before_publication: the fourth reading.
Reconcile(a) ==
  /\ broker[a].pc = "reconcile"
  /\ Goto(a, IF Authorized(a) THEN "publish" ELSE "close_order")
  /\ UNCHANGED <<issue, prs, count>>

\* publish_checked_changes: commit, push and pull request, with no bound on
\* its duration; without changes, or when git fails, nothing is published.
Publish(a) ==
  /\ broker[a].pc = "publish"
  /\ LandPullRequest(a) \/ UNCHANGED <<issue, prs>>
  /\ Goto(a, "close_order")
  /\ UNCHANGED <<attempts, readied, faults, crashes>>

\* closeout: three comments, in this order.
CloseOrder(a) ==
  /\ broker[a].pc = "close_order"
  /\ LandOrderDone(a)
  /\ Goto(a, "close_task")
  /\ UNCHANGED <<attempts, readied, faults, crashes>>

\* Defect: the task's own record is skipped.
CloseTask_skip(a) ==
  /\ broker[a].pc = "close_task"
  /\ Goto(a, "release")
  /\ UNCHANGED <<issue, prs, count>>

CloseTask(a) ==
  /\ broker[a].pc = "close_task"
  /\ LandTaskDone(a)
  /\ Goto(a, "release")
  /\ UNCHANGED <<attempts, readied, faults, crashes>>

Release(a) ==
  /\ broker[a].pc = "release"
  /\ LandRelease(a)
  /\ Stop(a)
  /\ UNCHANGED <<attempts, readied, faults, crashes>>
-----------------------------------------------------------------------------
(***************************************************************************)
(* Failures, time and the operator                                         *)
(***************************************************************************)

\* A GitHub request fails with HTTP status, with or without effect.  Inside
\* run_local_codex_task that ends in a closeout; elsewhere run_once is left.
RequestFails(a) ==
  /\ faults < MaxFaults
  /\ broker[a].pc \notin {"idle", "dead", "codex", "checks"}
  /\ faults' = faults + 1
  /\ Land(a) \/ UNCHANGED <<issue, prs>>
  /\ IF broker[a].pc \in {"reconcile", "publish"} THEN Goto(a, "close_order") ELSE Stop(a)
  /\ UNCHANGED <<attempts, readied, crashes>>

\* The process dies: a connection error is not caught, the container is
\* stopped, the machine fails.  A request under way may still land.
Crash(a) ==
  /\ crashes < MaxCrashes /\ broker[a].pc # "dead"
  /\ crashes' = crashes + 1
  /\ Land(a) \/ UNCHANGED <<issue, prs>>
  /\ broker' = [broker EXCEPT ![a] = [Idle EXCEPT !.pc = "dead"]]
  /\ UNCHANGED <<attempts, readied, faults>>

Restart(a) ==
  /\ broker[a].pc = "dead"
  /\ Stop(a)
  /\ UNCHANGED <<issue, prs, count>>

Less(n) == IF n = 0 THEN 0 ELSE n - 1

\* Time passes for every lease and deadline.
Tick ==
  /\ Prompt => \A a \in Agents :
       broker[a].pc \notin {"claim", "confirm", "post_order", "authorize"}
  /\ claims # {} \/ \E a \in Agents : broker[a].lease + broker[a].left > 0
  /\ claims' = {[c EXCEPT !.left = @ - 1] : c \in {d \in claims : d.left > 1}}
  /\ broker' = [a \in Agents |-> [broker[a] EXCEPT !.lease = Less(@), !.left = Less(@)]]
  /\ UNCHANGED <<ready, latest, ended, prs, count>>

PostReady(t) ==
  /\ readied[t] < MaxReady
  /\ readied' = [readied EXCEPT ![t] = @ + 1]
  /\ ready' = ready \cup {t}
  /\ UNCHANGED <<claims, latest, ended, prs, broker, attempts, faults, crashes>>

CancelTask(t) ==
  /\ t \in ready
  /\ ready' = ready \ {t}
  /\ UNCHANGED <<claims, latest, ended, prs, broker, count>>

\* WORKORDER_CANCEL of an attempt whose WORKORDER is on the issue
CancelAttempt(a) ==
  /\ broker[a].attempt \notin ended
  /\ broker[a].pc \in {"authorize", "codex", "checks", "reconcile", "publish"}
  /\ ended' = ended \cup {broker[a].attempt}
  /\ UNCHANGED <<ready, claims, latest, prs, broker, count>>

Step(a) ==
  \/ \E t \in Tasks : Poll(a, t)
  \/ PostClaim(a) \/ Confirm(a) \/ PostOrder(a) \/ Authorize(a) \/ Work(a)
  \/ Reconcile(a) \/ Publish(a) \/ CloseOrder(a) \/ CloseTask(a) \/ Release(a)

Next ==
  \/ \E a \in Agents : Step(a) \/ RequestFails(a) \/ Crash(a) \/ Restart(a) \/ CancelAttempt(a)
  \/ \E t \in Tasks : PostReady(t) \/ CancelTask(t)
  \/ Tick

Spec == Init /\ [][Next]_vars

\* The polling loop of main runs on, a dead broker is restarted by its
\* container policy, and time passes.
FairSpec ==
  /\ Spec
  /\ \A a \in Agents : WF_vars(Step(a)) /\ WF_vars(Restart(a))
  /\ WF_vars(Tick)
-----------------------------------------------------------------------------
(***************************************************************************)
(* Properties                                                              *)
(***************************************************************************)

\* The claim excludes: of two brokers that were authorized for the same task
\* and run it, check it or publish it, at most one still holds a live claim
\* (authorize_work_order on what parse_claim_ledger derives).
ExclusiveExecution ==
  \A a, b \in Agents :
    /\ a # b /\ broker[a].task = broker[b].task
    /\ broker[a].pc \in {"codex", "checks", "reconcile", "publish"}
    /\ broker[b].pc \in {"codex", "checks", "reconcile", "publish"}
    => ~ (HasClaim(a, broker[a].task) /\ HasClaim(b, broker[b].task))

\* A WorkOrder on the issue whose broker still holds its claim has the newest
\* generation: the stale-generation test of authorize_work_order only ever
\* rejects brokers that lost their lease.
LiveOrderIsNewest ==
  \A a \in Agents :
    /\ broker[a].pc \in {"authorize", "codex", "checks", "reconcile", "publish"}
    /\ Winning(a, broker[a].task)
    => broker[a].generation = latest[broker[a].task]

\* Of one task, a broker publishes at most one pull request per READY
\* directive, apart from crashes and failed requests that cut off a closeout:
\* the DONE or BLOCKED of closeout ends the directive it answers.
DuplicatePRsNeedInterruptions ==
  \A a \in Agents, t \in Tasks :
    Cardinality({p \in prs : p.task = t /\ p.agent = a}) <= readied[t] + crashes + faults

\* Every READY directive is eventually answered by DONE, BLOCKED or CANCEL:
\* abandoned claims of losers and dead brokers expire and the task is retried.
ReadyIsResolved == \A t \in Tasks : t \in ready ~> t \notin ready
=============================================================================
