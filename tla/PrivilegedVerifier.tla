------------------------- MODULE PrivilegedVerifier -------------------------
(***************************************************************************)
(* The privileged lane (privileged_local_verifier.py,                      *)
(* scripts/run_privileged_local_verifier.py): verifiers coordinate over    *)
(* the same issue as the brokers and run allowlisted actions at reviewed   *)
(* revisions with local credentials.                                       *)
(*                                                                         *)
(* The issue is kept as what its readers derive from its comments: each    *)
(* comment moves it one step of their loops.  Agents have different names. *)
(* CANCEL task= lines are left out (this lane's reader skips them), and    *)
(* RENEW lines, which nobody posts.                                        *)
(***************************************************************************)
EXTENDS Integers, SequencesExt

CONSTANTS Verifiers,       \* agent names
          Directives,      \* TASK comments of the owner: [task, sha, reviewed,
                           \* dispatch, action, access]
          VerifierActions, \* action -> [access, secrets], the local allowlist
          TrustedDispatch, \* trusted_dispatch_refs of the configuration
          ClaimLease,      \* 120 minutes in the code
          OrderDuration,   \* 30 minutes in the code
          MaxOwner, MaxClock, MaxInterrupts,   \* bounds
          Nothing

ASSUME VerifierAssumption ==
  /\ Nothing \notin Verifiers \cup Nat
  /\ ClaimLease \in Nat \ {0} /\ OrderDuration \in Nat \ {0}
  /\ MaxOwner \in Nat /\ MaxClock \in Nat /\ MaxInterrupts \in Nat

VARIABLES ledger,           \* [active, claims, latest, ended]: the directives in force, the
                           \* unreleased claims, the generation and the attempts ended
          owner,           \* comments of the owner so far
          made,            \* orders made so far: attempt ids are unique
          clock,
          verifier,        \* each coordinator process
          executed,        \* actions launched: [agent, directive, attempt, generation,
                           \* deadline, until, live]
          interrupts

verifier_vars == <<ledger, owner, made, clock, verifier, executed, interrupts>>

(* What readers derive from a comment c.                                   *)

\* At exactly the reviewed revision; one that fails the conditions on its
\* other fields is skipped alike.
_parse_task(d) == d.reviewed = d.sha

\* The directives in force, one per task; their numbers order them.
active_ready_privileged_tasks(active, c) ==
  LET rest == {d \in active : d.task # c.task}
  IN  CASE c.type = "TASK" -> IF _parse_task(c) THEN rest \cup {c} ELSE rest
        [] c.type \in {"DONE", "BLOCKED"} -> rest
        [] OTHER -> active

\* A RELEASE ends the newest claim of its agent on the task.
parse_claim_ledger(open, c) ==
  CASE c.type = "CLAIM" -> Append(open, c)
    [] c.type = "RELEASE" ->
         LET own == {i \in DOMAIN open : open[i].task = c.task /\ open[i].agent = c.agent}
         IN  IF own = {} THEN open ELSE RemoveAt(open, Max(own))
    [] OTHER -> open

OrderComments == {"WORKORDER", "WORKORDER_DONE", "WORKORDER_CANCEL"}

parse_broker_ledger(c) ==
  [active |-> active_ready_privileged_tasks(ledger.active, c),
   claims |-> parse_claim_ledger(ledger.claims, c),
   latest |-> IF c.type \in OrderComments
              THEN [ledger.latest EXCEPT ![c.task] = Max({@, c.generation})] ELSE ledger.latest,
   ended  |-> IF c.type \in OrderComments \ {"WORKORDER"}
              THEN ledger.ended \cup {c.attempt} ELSE ledger.ended]
Post(c) == ledger' = parse_broker_ledger(c)

\* The places of the claims on the task whose lease runs.
active_for(task) ==
  {i \in DOMAIN ledger.claims : ledger.claims[i].task = task /\ ledger.claims[i].until > clock}

\* Defect: the newest live claim holds the task.
winning_claim_newest(task) ==
  IF active_for(task) = {} THEN Nothing ELSE ledger.claims[Max(active_for(task))].agent

\* The agent of the earliest claim whose lease runs.
winning_claim(task) ==
  IF active_for(task) = {} THEN Nothing ELSE ledger.claims[Min(active_for(task))].agent

\* latest is -1 before any order of the task.
next_generation(task) == ledger.latest[task] + 1

\* authorize_work_order for an order of the privileged lane, on a new reading.
authorize_work_order(v) ==
  LET me == verifier[v] IN
  /\ me.deadline > clock
  /\ winning_claim(me.task.task) = v
  /\ me.attempt \notin ledger.ended
  /\ me.generation >= ledger.latest[me.task.task]
  /\ me.task.reviewed = me.task.sha
  /\ me.task.dispatch \in TrustedDispatch
-----------------------------------------------------------------------------
Waiting == [pc |-> "idle", task |-> Nothing, attempt |-> Nothing, generation |-> 0,
            deadline |-> 0, until |-> 0, status |-> Nothing]

At(v, pc) == verifier[v].pc = pc
Move(v, pc) == verifier' = [verifier EXCEPT ![v].pc = pc]
OwnComment(v, type) ==
  [type |-> type, task |-> verifier[v].task.task, agent |-> v, until |-> verifier'[v].until,
   attempt |-> verifier[v].attempt, generation |-> verifier[v].generation]

VerifierInit ==
  /\ ledger = [active |-> {}, claims |-> <<>>, ended |-> {},
              latest |-> [t \in {d.task : d \in Directives} |-> -1]]
  /\ owner = 0 /\ made = 0 /\ clock = 0 /\ executed = {} /\ interrupts = 0
  /\ verifier = [v \in Verifiers |-> Waiting]

\* The owner: a directive, again or for the first time, or a cancellation.
OwnerPosts(c) ==
  /\ owner < MaxOwner
  /\ owner' = owner + 1
  /\ Post(c)
  /\ UNCHANGED <<made, clock, verifier, executed, interrupts>>

PostDirective(d) ==
  OwnerPosts([type |-> "TASK", no |-> owner, task |-> d.task, sha |-> d.sha, reviewed |-> d.reviewed,
              dispatch |-> d.dispatch, action |-> d.action, access |-> d.access])

CancelVerification(v) ==
  /\ verifier[v].attempt \notin ledger.ended \cup {Nothing} /\ ~At(v, "order")
  /\ OwnerPosts([type |-> "WORKORDER_CANCEL", task |-> verifier[v].task.task,
                 attempt |-> verifier[v].attempt, generation |-> verifier[v].generation])

\* run_once: the first allowlisted directive of the right class without a claim.
PollIssue(v) ==
  LET free == {d \in ledger.active :
                /\ d.action \in DOMAIN VerifierActions
                /\ VerifierActions[d.action].access = d.access
                /\ winning_claim(d.task) = Nothing}
  IN  \E d \in free :
      /\ At(v, "idle") /\ \A e \in free : d.no <= e.no
      /\ verifier' = [verifier EXCEPT ![v].pc = "claim", ![v].task = d]
      /\ UNCHANGED <<ledger, owner, made, clock, executed, interrupts>>

ClaimTask(v) ==
  /\ At(v, "claim")
  /\ verifier' = [verifier EXCEPT ![v].pc = "confirm", ![v].until = clock + ClaimLease]
  /\ Post(OwnComment(v, "CLAIM"))
  /\ UNCHANGED <<owner, made, clock, executed, interrupts>>

\* A loser returns and leaves its claim behind.
LoseClaim(v) ==
  /\ At(v, "confirm") /\ winning_claim(verifier[v].task.task) # v
  /\ verifier' = [verifier EXCEPT ![v] = Waiting]
  /\ UNCHANGED <<ledger, owner, made, clock, executed, interrupts>>

make_privileged_work_order(v) ==
  LET task == verifier[v].task.task IN
  /\ At(v, "confirm") /\ winning_claim(task) = v
  /\ verifier' = [verifier EXCEPT ![v].pc = "order", ![v].attempt = made,
                                  ![v].generation = next_generation(task),
                                  ![v].deadline = clock + OrderDuration]
  /\ made' = made + 1
  /\ UNCHANGED <<ledger, owner, clock, executed, interrupts>>

PostPrivilegedOrder(v) ==
  /\ At(v, "order") /\ Move(v, "authorize")
  /\ Post(OwnComment(v, "WORKORDER"))
  /\ UNCHANGED <<owner, made, clock, executed, interrupts>>

Blocked(v) == verifier' = [verifier EXCEPT ![v].pc = "close", ![v].status = "BLOCKED"]

\* Authorization and the selected secrets; a WorkOrderError is a closeout.
AuthorizeAction(v) ==
  /\ At(v, "authorize")
  /\ IF authorize_work_order(v) /\ VerifierActions[verifier[v].task.action].secrets
     THEN Move(v, "launch") ELSE Blocked(v)
  /\ UNCHANGED <<ledger, owner, made, clock, executed, interrupts>>

\* No worktree, or the deadline has passed by now.
FailLaunch(v) ==
  /\ At(v, "launch") /\ Blocked(v)
  /\ UNCHANGED <<ledger, owner, made, clock, executed, interrupts>>

LaunchAction(v) ==
  LET me == verifier[v] IN
  /\ At(v, "launch") /\ me.deadline > clock
  /\ Move(v, "run")
  /\ executed' = executed \cup {[agent |-> v, directive |-> me.task, attempt |-> me.attempt,
                     generation |-> me.generation, deadline |-> me.deadline,
                     until |-> me.until, live |-> TRUE]}
  /\ UNCHANGED <<ledger, owner, made, clock, interrupts>>

Over(x) == executed' = (executed \ {x}) \cup {[x EXCEPT !.live = FALSE]}

\* The process ends, or is killed at the deadline.
EndAction(v, status) ==
  /\ At(v, "run")
  /\ \E x \in executed : x.attempt = verifier[v].attempt /\ Over(x)
  /\ verifier' = [verifier EXCEPT ![v].pc = "close", ![v].status = status]
  /\ UNCHANGED <<ledger, owner, made, clock, interrupts>>

\* closeout: three comments.
CloseVerification(v) ==
  /\ At(v, "close") /\ Move(v, "end")
  /\ Post(OwnComment(v, "WORKORDER_DONE"))
  /\ UNCHANGED <<owner, made, clock, executed, interrupts>>

EndDirective(v) ==
  /\ At(v, "end") /\ Move(v, "release")
  /\ Post(OwnComment(v, IF verifier[v].status = "PASS" THEN "DONE" ELSE "BLOCKED"))
  /\ UNCHANGED <<owner, made, clock, executed, interrupts>>

ReleaseTask(v) ==
  /\ At(v, "release")
  /\ verifier' = [verifier EXCEPT ![v] = Waiting]
  /\ Post(OwnComment(v, "RELEASE"))
  /\ UNCHANGED <<owner, made, clock, executed, interrupts>>

\* A request fails or the process dies: what it held is gone, and a launched
\* action goes on by itself.
InterruptVerifier(v) ==
  /\ interrupts < MaxInterrupts /\ ~At(v, "idle")
  /\ verifier' = [verifier EXCEPT ![v] = Waiting]
  /\ interrupts' = interrupts + 1
  /\ UNCHANGED <<ledger, owner, made, clock, executed>>

OrphanEnds(x) ==
  /\ x.live /\ verifier[x.agent].attempt # x.attempt
  /\ Over(x)
  /\ UNCHANGED <<ledger, owner, made, clock, verifier, interrupts>>

\* No action outlives its deadline while its coordinator lives.
PassTime ==
  /\ clock < MaxClock
  /\ \A v \in Verifiers : At(v, "run") => verifier[v].deadline > clock
  /\ clock' = clock + 1
  /\ UNCHANGED <<ledger, owner, made, verifier, executed, interrupts>>

VerifierStep(v) ==
  \/ CancelVerification(v) \/ PollIssue(v) \/ ClaimTask(v) \/ LoseClaim(v)
  \/ make_privileged_work_order(v) \/ PostPrivilegedOrder(v) \/ AuthorizeAction(v) \/ FailLaunch(v)
  \/ LaunchAction(v) \/ EndAction(v, "PASS") \/ EndAction(v, "FAILED")
  \/ CloseVerification(v) \/ EndDirective(v) \/ ReleaseTask(v) \/ InterruptVerifier(v)

VerifierNext ==
  \/ \E d \in Directives : PostDirective(d)
  \/ \E v \in Verifiers : VerifierStep(v)
  \/ \E x \in executed : OrphanEnds(x)
  \/ PassTime

VerifierSpec == VerifierInit /\ [][VerifierNext]_verifier_vars
-----------------------------------------------------------------------------
\* Two actions of one task never run at the same time, except an orphan of a
\* dead coordinator, or one whose order was made so late that its deadline
\* is past its lease (authorize_work_order compares the two with the clock,
\* never with each other).
ExclusiveVerification ==
  \A x, y \in executed :
    /\ x # y /\ x.live /\ y.live /\ x.directive.task = y.directive.task
    => \E z \in {x, y} : verifier[z.agent].attempt # z.attempt \/ z.deadline >= z.until

\* An action that was launched had its own generation, whatever was claimed,
\* expired, cancelled or interrupted: of two receipts the later is known.
GenerationsTellAttemptsApart ==
  \A x, y \in executed :
    x.directive.task = y.directive.task /\ x.generation = y.generation => x.attempt = y.attempt

\* A verifier runs one directive once, apart from interruptions: its DONE or
\* BLOCKED ends the directive before it polls again, and only a directive at
\* a reviewed revision from a trusted dispatcher is run at all.
DirectivesRunOnce ==
  /\ \A x \in executed : x.directive.dispatch \in TrustedDispatch
  /\ \A v \in Verifiers, d \in {x.directive : x \in executed} :
       Cardinality({x \in executed : x.agent = v /\ x.directive = d}) <= 1 + interrupts

\* An order is verified once: not by two agents at a time, not twice under one
\* generation, not again by the agent that finished it (the claim, receipt and
\* directive comments the verifier derives its state from).
OneVerificationPerOrder ==
  ExclusiveVerification /\ GenerationsTellAttemptsApart /\ DirectivesRunOnce
=============================================================================
