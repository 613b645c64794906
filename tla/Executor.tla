------------------------------ MODULE Executor ------------------------------
(***************************************************************************)
(* The action executor, backend/recovery/executor.py, with the approval    *)
(* endpoint of backend/routes_api.py that feeds it and Razorpay as the     *)
(* code uses it.  One merchant.                                            *)
(*                                                                         *)
(* Every SQL statement outside a transaction commits by itself, so a call  *)
(* is a sequence of atomic steps and pc[w] says which comes next for       *)
(* worker w: a task of the API server or of the batch pipeline that runs   *)
(* execute_action, resolve_pending_execution or _decide.  A refusal raised *)
(* before anything is written changes nothing and is a stuttering step.    *)
(* The append-only audit table, read by no step, is left out.              *)
(***************************************************************************)
EXTENDS Policy, Sums

CONSTANTS
  Actions,        \* ids of recovery_actions rows
  Workers,        \* concurrent tasks
  ActionType,     \* action id -> its type
  Amounts,        \* amounts a row may carry
  RuledAmount,    \* action id -> the amount its authorization ruled on
  Amended,        \* amounts somebody may later write into a row
  Policies,       \* the configurations the merchant may have over time
  Movable,        \* bound: actions whose payment or customer may change
  DayLength,      \* length of the merchant's day
  MaxTime,        \* bound on the clock
  MaxCrashes,     \* bound on crashes
  None            \* no job, no row

ASSUME FiniteAssumption == IsFiniteSet(Actions) /\ IsFiniteSet(Amounts)

\* CHECK (amount_minor >= 0) on both tables.
ASSUME AmountsAssumption ==
  /\ Amounts \subseteq Nat
  /\ RuledAmount \in [Actions -> Amounts]
  /\ Amended \subseteq Amounts

ASSUME ActionTypeAssumption == ActionType \in [Actions -> ActionTypes]

ASSUME BoundsAssumption ==
  DayLength \in Nat \ {0} /\ MaxTime \in Nat /\ MaxCrashes \in Nat

ASSUME PoliciesAssumption ==
  /\ Policies # {}
  /\ \A p \in Policies : p.maxAuto \in Int /\ p.maxDaily \in Int /\ ValidConfig(p)

\* An idempotency key hashes the action id, its amount and the version of its
\* authorization ruling; the version never changes, so a pair stands for it.
Keys == Actions \X Amounts

ASSUME NoneAssumption == None \notin Keys

ActionOf(k) == k[1]

AmountOf(k) == k[2]

KeyAmount == [k \in Keys |-> AmountOf(k)]

VARIABLES
  \* the database
  status,         \* recovery_actions.status
  amount,         \* recovery_actions.amount_minor
  ruling,         \* policy_decisions.result, phase 'authorization'
  approval,       \* approvals.approved
  runtimeRulings, \* policy_decisions.result, phase 'execution'
  captured,       \* actions whose payment is captured
  optedOut,       \* actions whose customer has opted out
  policy,         \* the merchant's configuration
  execStatus,     \* execution_records.status by idempotency key
  createdAt,      \* execution_records.created_at
  \* Razorpay
  links,          \* keys a payment link exists for
  late,           \* requests given up on that may still arrive
  \* the tasks
  pc, job,        \* next step, and the key it works on
  seen,           \* the row read at the start of execute_action
  loaded,         \* the configuration it loaded
  now, crashes,
  doubtful        \* history, read by no step: keys that two tasks worked on at
                  \* once, or whose re-sent request was refused

rowVars == <<status, amount, ruling, approval, runtimeRulings>>
factVars == <<captured, optedOut, policy>>
execVars == <<execStatus, createdAt>>
razorpayVars == <<links, late>>
taskVars == <<pc, job, seen, loaded>>
clockVars == <<now, crashes>>

vars == <<rowVars, factVars, execVars, razorpayVars, taskVars, clockVars, doubtful>>

Statuses == {"awaiting_approval", "approved", "denied", "executing",
             "executed", "failed", "expired"}

ExecStatuses == {"none", "pending", "succeeded", "failed"}

CommittedStatuses == {"succeeded", "pending"}

Steps == {"idle", "lookup", "claim", "mark", "send", "waiting", "resend",
          "rewaiting", "find", "succeed", "fail", "markExecuted",
          "markFailed", "decide"}

Rows == [status : Statuses, amount : Amounts, approval : {"none", "granted", "denied"},
         captured : BOOLEAN, optedOut : BOOLEAN, priorAttempts : Nat, now : Nat]

TypeOK ==
  /\ status \in [Actions -> Statuses]
  /\ amount \in [Actions -> Amounts]
  /\ ruling \in [Actions -> Decisions]
  /\ approval \in [Actions -> {"none", "granted", "denied"}]
  /\ runtimeRulings \in [Actions -> SUBSET Decisions]
  /\ captured \subseteq Actions
  /\ optedOut \subseteq Actions
  /\ policy \in Policies
  /\ execStatus \in [Keys -> ExecStatuses]
  /\ createdAt \in [Keys -> Nat]
  /\ links \subseteq Keys
  /\ late \subseteq Keys
  /\ pc \in [Workers -> Steps]
  /\ job \in [Workers -> Keys \cup {None}]
  /\ seen \in [Workers -> Rows \cup {None}]
  /\ loaded \in [Workers -> Policies \cup {None}]
  /\ now \in Nat
  /\ crashes \in Nat
  /\ doubtful \subseteq Keys

-----------------------------------------------------------------------------
(* persist_plan has written every action with its authorization ruling and *)
(* the status derived from it; a ruling respects the autonomous limit.     *)

StatusFor == [AUTO_APPROVED |-> "approved",
              REQUIRES_APPROVAL |-> "awaiting_approval",
              BLOCKED |-> "denied"]

RulingsFor(a) ==
  IF ActionType[a] \notin FinancialActions THEN {"AUTO_APPROVED", "BLOCKED"}
  ELSE IF RuledAmount[a] <= policy.maxAuto THEN {"AUTO_APPROVED", "BLOCKED"}
  ELSE {"REQUIRES_APPROVAL", "BLOCKED"}

Init ==
  /\ policy \in Policies
  /\ ruling \in {r \in [Actions -> Decisions] :
                   \A a \in Actions : r[a] \in RulingsFor(a)}
  /\ status = [a \in Actions |-> StatusFor[ruling[a]]]
  /\ amount = RuledAmount
  /\ approval = [a \in Actions |-> "none"]
  /\ runtimeRulings = [a \in Actions |-> {}]
  /\ captured = {}
  /\ optedOut = {}
  /\ execStatus = [k \in Keys |-> "none"]
  /\ createdAt = [k \in Keys |-> 0]
  /\ links = {}
  /\ late = {}
  /\ pc = [w \in Workers |-> "idle"]
  /\ job = [w \in Workers |-> None]
  /\ seen = [w \in Workers |-> None]
  /\ loaded = [w \in Workers |-> None]
  /\ now = 0
  /\ crashes = 0
  /\ doubtful = {}

GoTo(w, step) ==
  /\ pc' = [pc EXCEPT ![w] = step]
  /\ UNCHANGED <<job, seen, loaded>>

\* The call returns or raises.
Finish(w) ==
  /\ pc' = [pc EXCEPT ![w] = "idle"]
  /\ job' = [job EXCEPT ![w] = None]
  /\ seen' = [seen EXCEPT ![w] = None]
  /\ loaded' = [loaded EXCEPT ![w] = None]

-----------------------------------------------------------------------------
(* execute_action: the row, the stored ruling and the approval.            *)

Executions(a) == {k \in Keys : ActionOf(k) = a /\ execStatus[k] # "none"}

HasAuthority(a) ==
  \/ ruling[a] = "AUTO_APPROVED"
  \/ ruling[a] = "REQUIRES_APPROVAL" /\ approval[a] = "granted"

\* Takes the instant of the call and reads the action, its payment, customer,
\* ruling and approval in one query.  Without authority it refuses.
ExecuteAction(w, a) ==
  /\ pc[w] = "idle"
  /\ HasAuthority(a)
  /\ pc' = [pc EXCEPT ![w] = "lookup"]
  /\ job' = [job EXCEPT ![w] = <<a, amount[a]>>]
  /\ seen' = [seen EXCEPT ![w] =
       [status |-> status[a], amount |-> amount[a],
        approval |-> approval[a], captured |-> a \in captured,
        optedOut |-> a \in optedOut,
        priorAttempts |-> Cardinality(Executions(a)), now |-> now]]
  /\ UNCHANGED <<rowVars, factVars, execVars, razorpayVars, loaded, clockVars, doubtful>>

\* The tamper check is missing.
MutantMayStart(w) ==
  /\ execStatus[job[w]] = "none"
  /\ seen[w].status = "approved"

\* No execution has the key, the row read was approved, and its amount is the
\* one that was ruled on.
MayStart(w) ==
  /\ execStatus[job[w]] = "none"
  /\ seen[w].status = "approved"
  /\ seen[w].amount = RuledAmount[ActionOf(job[w])]

\* The idempotency lookup: an existing execution is returned as it stands, a
\* row that was not approved or whose amount changed is refused.
StopAtLookup(w) ==
  /\ pc[w] = "lookup"
  /\ ~MayStart(w)
  /\ Finish(w)
  /\ UNCHANGED <<rowVars, factVars, execVars, razorpayVars, clockVars, doubtful>>

LoadPolicy(w) ==
  /\ pc[w] = "lookup"
  /\ MayStart(w)
  /\ pc' = [pc EXCEPT ![w] = "claim"]
  /\ loaded' = [loaded EXCEPT ![w] = policy]
  /\ UNCHANGED <<rowVars, factVars, execVars, razorpayVars, job, seen, clockVars, doubtful>>

-----------------------------------------------------------------------------
(* The transaction under the merchant's advisory lock: evaluate the policy *)
(* against the day's total, record the ruling, and claim or refuse.        *)

\* Counts only what is known to have succeeded.
MutantCommitted(instant) ==
  Total(KeyAmount, {k \in Keys : /\ execStatus[k] = "succeeded"
                                /\ createdAt[k] >= DayStart(instant, DayLength)})

\* daily_committed_minor
Committed(instant) ==
  Total(KeyAmount, {k \in Keys : /\ execStatus[k] \in CommittedStatuses
                                /\ createdAt[k] >= DayStart(instant, DayLength)})

\* The total is current; every other fact is the one read before the lock.
\* All actions of the model are proposed at instant 0.
ActionAsRead(w) ==
  [type |-> ActionType[ActionOf(job[w])], identified |-> TRUE,
   amount |-> seen[w].amount, proposedAt |-> 0]

ContextAsRead(w) ==
  [paymentStatus |-> IF seen[w].captured THEN "captured" ELSE "failed",
   optedOut |-> seen[w].optedOut, priorAttempts |-> seen[w].priorAttempts,
   committed |-> Committed(seen[w].now), now |-> seen[w].now,
   lastAttempt |-> Never]

RuntimeRule(w) == DecidingRule(ActionAsRead(w), ContextAsRead(w), loaded[w])

RuntimeDecision(w) == DecisionOf(RuntimeRule(w))

\* Only refusals are recorded.
MutantRecordRuling(w) ==
  runtimeRulings' = [runtimeRulings EXCEPT ![ActionOf(job[w])] =
                       @ \cup ({RuntimeDecision(w)} \cap {"BLOCKED"})]

RecordRuling(w) ==
  runtimeRulings' = [runtimeRulings EXCEPT ![ActionOf(job[w])] =
                       @ \cup {RuntimeDecision(w)}]

\* The ruling stored with the action decides who is asked.
MutantPermitted(w) ==
  \/ RuntimeDecision(w) = "AUTO_APPROVED"
  \/ RuntimeDecision(w) = "REQUIRES_APPROVAL" /\ HasAuthority(ActionOf(job[w]))

Permitted(w) ==
  \/ RuntimeDecision(w) = "AUTO_APPROVED"
  \/ RuntimeDecision(w) = "REQUIRES_APPROVAL" /\ seen[w].approval = "granted"

BlockAtRuntime(w) ==
  /\ pc[w] = "claim"
  /\ RuntimeDecision(w) = "BLOCKED"
  /\ RecordRuling(w)
  /\ status' = [status EXCEPT ![ActionOf(job[w])] =
                  IF RuntimeRule(w) = "action_expired" THEN "expired" ELSE "failed"]
  /\ Finish(w)
  /\ UNCHANGED <<amount, ruling, approval, factVars, execVars, razorpayVars, clockVars, doubtful>>

AskForApproval(w) ==
  /\ pc[w] = "claim"
  /\ RuntimeDecision(w) # "BLOCKED" /\ ~Permitted(w)
  /\ RecordRuling(w)
  /\ Finish(w)
  /\ UNCHANGED <<status, amount, ruling, approval, factVars, execVars, razorpayVars, clockVars, doubtful>>

\* The unique constraint on the idempotency key is missing.
MutantKeyIsFree(w) == TRUE

KeyIsFree(w) == execStatus[job[w]] = "none"

\* The unique key was taken since the lookup: the transaction aborts, its
\* ruling with it, and the winner's execution is returned.
LoseRace(w) ==
  /\ pc[w] = "claim"
  /\ Permitted(w)
  /\ ~KeyIsFree(w)
  /\ Finish(w)
  /\ UNCHANGED <<rowVars, factVars, execVars, razorpayVars, clockVars, doubtful>>

ClaimBudget(w) ==
  /\ pc[w] = "claim"
  /\ Permitted(w)
  /\ KeyIsFree(w)
  /\ RecordRuling(w)
  /\ execStatus' = [execStatus EXCEPT ![job[w]] = "pending"]
  /\ createdAt' = [createdAt EXCEPT ![job[w]] = seen[w].now]
  /\ pc' = [pc EXCEPT ![w] = "mark"]
  /\ seen' = [seen EXCEPT ![w] = None]
  /\ UNCHANGED <<status, amount, ruling, approval, factVars, razorpayVars,
                 job, loaded, clockVars, doubtful>>

-----------------------------------------------------------------------------
(* execute_action after the claim: mark, call Razorpay, write the result.  *)

MarkExecuting(w) ==
  /\ pc[w] = "mark"
  /\ status' = [status EXCEPT ![ActionOf(job[w])] = "executing"]
  /\ GoTo(w, IF ActionType[ActionOf(job[w])] \in FinancialActions
             THEN "send" ELSE "succeed")
  /\ UNCHANGED <<amount, ruling, approval, runtimeRulings, factVars, execVars,
                 razorpayVars, clockVars, doubtful>>

\* The client refuses a currency it cannot settle before any request leaves.
SendRequest(w) ==
  /\ pc[w] = "send"
  /\ pc' = [pc EXCEPT ![w] = IF loaded[w].settleable THEN "waiting" ELSE "fail"]
  /\ loaded' = [loaded EXCEPT ![w] = None]
  /\ UNCHANGED <<rowVars, factVars, execVars, razorpayVars, job, seen, clockVars, doubtful>>

\* resolve_pending_execution passes no currency, so the client's default is
\* always accepted.
ResendRequest(w) ==
  /\ pc[w] = "resend"
  /\ GoTo(w, "rewaiting")
  /\ UNCHANGED <<rowVars, factVars, execVars, razorpayVars, clockVars, doubtful>>

Waiting(w) == pc[w] \in {"waiting", "rewaiting"}

RazorpayCreates(w) ==
  /\ Waiting(w)
  /\ job[w] \notin links
  /\ links' = links \cup {job[w]}
  /\ GoTo(w, "succeed")
  /\ UNCHANGED <<rowVars, factVars, execVars, late, clockVars, doubtful>>

\* Any other 4xx ends the call, also one that says nothing about the link, like
\* 401 or 403, and also when an earlier request of the key has landed.
RazorpayRejects(w) ==
  /\ Waiting(w)
  /\ GoTo(w, "fail")
  /\ doubtful' = IF pc[w] = "rewaiting" THEN doubtful \cup {job[w]} ELSE doubtful
  /\ UNCHANGED <<rowVars, factVars, execVars, razorpayVars, clockVars>>

\* Razorpay refuses a second link for a reference_id.  Only the resolver
\* knows that answer; for the executor it is a rejection like any other.
AfterDuplicate(w) == IF pc[w] = "rewaiting" THEN "find" ELSE "fail"

RazorpayReportsDuplicate(w) ==
  /\ Waiting(w)
  /\ job[w] \in links
  /\ GoTo(w, AfterDuplicate(w))
  /\ UNCHANGED <<rowVars, factVars, execVars, razorpayVars, clockVars, doubtful>>

\* A timeout, a network error, a 5xx or a 429: the execution stays pending
\* and nobody knows whether the request has arrived or still will.
MutantAfterRetryable(w) == GoTo(w, "fail")

\* ... or is taken for success.
MutantAfterRetryableSucceed(w) == GoTo(w, "succeed")

AfterRetryable(w) == Finish(w)

RetryableError(w) ==
  /\ Waiting(w)
  /\ late' = late \cup {job[w]}
  /\ AfterRetryable(w)
  /\ UNCHANGED <<rowVars, factVars, execVars, links, clockVars, doubtful>>

\* The link behind a duplicate is looked up by its reference_id.
FindLink(w) ==
  /\ pc[w] = "find"
  /\ GoTo(w, "succeed")
  /\ UNCHANGED <<rowVars, factVars, execVars, razorpayVars, clockVars, doubtful>>

\* Razorpay does not show it, or the lookup raises.
LinkNotRetrievable(w) ==
  /\ pc[w] = "find"
  /\ Finish(w)
  /\ UNCHANGED <<rowVars, factVars, execVars, razorpayVars, clockVars, doubtful>>

WriteSucceeded(w) ==
  /\ pc[w] = "succeed"
  /\ execStatus' = [execStatus EXCEPT ![job[w]] = "succeeded"]
  /\ GoTo(w, "markExecuted")
  /\ UNCHANGED <<rowVars, factVars, createdAt, razorpayVars, clockVars, doubtful>>

WriteFailed(w) ==
  /\ pc[w] = "fail"
  /\ execStatus' = [execStatus EXCEPT ![job[w]] = "failed"]
  /\ GoTo(w, "markFailed")
  /\ UNCHANGED <<rowVars, factVars, createdAt, razorpayVars, clockVars, doubtful>>

MarkSettled(w) ==
  /\ pc[w] \in {"markExecuted", "markFailed"}
  /\ status' = [status EXCEPT ![ActionOf(job[w])] =
                  IF pc[w] = "markExecuted" THEN "executed" ELSE "failed"]
  /\ Finish(w)
  /\ UNCHANGED <<amount, ruling, approval, runtimeRulings, factVars, execVars,
                 razorpayVars, clockVars, doubtful>>

-----------------------------------------------------------------------------
(* resolve_pending_execution, run by the pipeline over pending executions. *)

\* Only actions marked as executing are looked at.
MutantUnresolved(k) ==
  execStatus[k] = "pending" /\ status[ActionOf(k)] = "executing"

Unresolved(k) == execStatus[k] = "pending"

Working == Steps \ {"idle", "lookup", "claim", "decide"}

\* Also an execution whose call still runs in another process.
ResolvePending(w, k) ==
  /\ pc[w] = "idle"
  /\ Unresolved(k)
  /\ pc' = [pc EXCEPT ![w] = "resend"]
  /\ job' = [job EXCEPT ![w] = k]
  /\ doubtful' = IF \E v \in Workers : pc[v] \in Working /\ job[v] = k
                  THEN doubtful \cup {k} ELSE doubtful
  /\ UNCHANGED <<rowVars, factVars, execVars, razorpayVars, seen, loaded, clockVars>>

-----------------------------------------------------------------------------
(* _decide: the status is read before the transaction that writes.         *)

OpenDecision(w, a) ==
  /\ pc[w] = "idle"
  /\ status[a] = "awaiting_approval"
  /\ pc' = [pc EXCEPT ![w] = "decide"]
  /\ job' = [job EXCEPT ![w] = <<a, amount[a]>>]
  /\ UNCHANGED <<rowVars, factVars, execVars, razorpayVars, seen, loaded, clockVars, doubtful>>

MutantUndecided(a) == TRUE

\* The unique approval row per action.
Undecided(a) == approval[a] = "none"

\* Approval, status and audit are one transaction; an approval goes on to
\* call execute_action, a new call of this worker.
CommitDecision(w, answer) ==
  LET a == ActionOf(job[w]) IN
  /\ pc[w] = "decide"
  /\ Undecided(a)
  /\ approval' = [approval EXCEPT ![a] = answer]
  /\ status' = [status EXCEPT ![a] = IF answer = "granted" THEN "approved" ELSE "denied"]
  /\ Finish(w)
  /\ UNCHANGED <<amount, ruling, runtimeRulings, factVars, execVars,
                 razorpayVars, clockVars, doubtful>>

AlreadyDecided(w) ==
  /\ pc[w] = "decide"
  /\ ~Undecided(ActionOf(job[w]))
  /\ Finish(w)
  /\ UNCHANGED <<rowVars, factVars, execVars, razorpayVars, clockVars, doubtful>>

-----------------------------------------------------------------------------
(* A task dies between two statements; its open request may still land.    *)

Crash(w) ==
  /\ pc[w] # "idle"
  /\ crashes < MaxCrashes
  /\ crashes' = crashes + 1
  /\ late' = IF Waiting(w) THEN late \cup {job[w]} ELSE late
  /\ Finish(w)
  /\ UNCHANGED <<rowVars, factVars, execVars, links, now, doubtful>>

LateRequestArrives(k) ==
  /\ k \in late
  /\ late' = late \ {k}
  /\ links' = links \cup {k}
  /\ UNCHANGED <<rowVars, factVars, execVars, taskVars, clockVars, doubtful>>

(* The world around the executor.                                          *)

Tick ==
  /\ now < MaxTime
  /\ now' = now + 1
  /\ UNCHANGED <<rowVars, factVars, execVars, razorpayVars, taskVars, crashes, doubtful>>

PaymentCaptured(a) ==
  /\ a \in Movable
  /\ captured' = captured \cup {a}
  /\ UNCHANGED <<rowVars, optedOut, policy, execVars, razorpayVars, taskVars, clockVars, doubtful>>

CustomerOptsOut(a) ==
  /\ a \in Movable
  /\ optedOut' = optedOut \cup {a}
  /\ UNCHANGED <<rowVars, captured, policy, execVars, razorpayVars, taskVars, clockVars, doubtful>>

ChangePolicy(p) ==
  /\ policy' = p
  /\ UNCHANGED <<rowVars, captured, optedOut, execVars, razorpayVars, taskVars, clockVars, doubtful>>

\* A row's amount is edited after the ruling.
AmendAmount(a, m) ==
  /\ amount' = [amount EXCEPT ![a] = m]
  /\ UNCHANGED <<status, ruling, approval, runtimeRulings, factVars, execVars,
                 razorpayVars, taskVars, clockVars, doubtful>>

-----------------------------------------------------------------------------
Execute(w) ==
  \/ \E a \in Actions : ExecuteAction(w, a)
  \/ StopAtLookup(w) \/ LoadPolicy(w)
  \/ BlockAtRuntime(w) \/ AskForApproval(w) \/ LoseRace(w) \/ ClaimBudget(w)
  \/ MarkExecuting(w) \/ SendRequest(w)

Call(w) ==
  \/ RazorpayCreates(w) \/ RazorpayRejects(w) \/ RazorpayReportsDuplicate(w)
  \/ RetryableError(w)

Settle(w) == WriteSucceeded(w) \/ WriteFailed(w) \/ MarkSettled(w)

Resolve(w) ==
  \/ \E k \in Keys : ResolvePending(w, k)
  \/ ResendRequest(w) \/ FindLink(w) \/ LinkNotRetrievable(w)

Decide(w) ==
  \/ \E a \in Actions : OpenDecision(w, a)
  \/ \E answer \in {"granted", "denied"} : CommitDecision(w, answer)
  \/ AlreadyDecided(w)

Environment ==
  \/ Tick
  \/ \E a \in Actions : PaymentCaptured(a) \/ CustomerOptsOut(a)
  \/ \E p \in Policies : ChangePolicy(p)
  \/ \E a \in Actions, m \in Amended : AmendAmount(a, m)
  \/ \E k \in Keys : LateRequestArrives(k)

Next ==
  \/ \E w \in Workers :
       Execute(w) \/ Call(w) \/ Settle(w) \/ Resolve(w) \/ Decide(w) \/ Crash(w)
  \/ Environment

Spec == Init /\ [][Next]_vars

\* The steps of a call that has started, Razorpay's answer excepted.
Proceed(w) ==
  \/ StopAtLookup(w) \/ LoadPolicy(w)
  \/ BlockAtRuntime(w) \/ AskForApproval(w) \/ LoseRace(w) \/ ClaimBudget(w)
  \/ MarkExecuting(w) \/ SendRequest(w) \/ ResendRequest(w) \/ Settle(w)
  \/ AlreadyDecided(w) \/ \E answer \in {"granted", "denied"} : CommitDecision(w, answer)

\* A task that runs keeps running; a request that is sent again and again is
\* answered some time, and a link that is looked up again and again is shown.
\* That executions are taken up again is not assumed.
Fairness ==
  /\ \A w \in Workers : WF_vars(Proceed(w))
  /\ \A k \in Keys :
       /\ SF_vars(\E w \in Workers : job[w] = k /\
             (RazorpayCreates(w) \/ RazorpayRejects(w) \/ RazorpayReportsDuplicate(w)))
       /\ SF_vars(\E w \in Workers : job[w] = k /\ FindLink(w))

FairSpec == Spec /\ Fairness

-----------------------------------------------------------------------------
(* What the audit view says of an action (action_provenance): derived from *)
(* the rows and stored nowhere.                                            *)

\* The evaluation is looked at before the execution.
MutantFinalStatus(a) ==
  LET reached(s) == \E k \in Executions(a) : execStatus[k] = s IN
  IF reached("succeeded") THEN "EXECUTED"
  ELSE IF runtimeRulings[a] # {} THEN "NOT_EXECUTED"
  ELSE IF ruling[a] = "REQUIRES_APPROVAL" THEN "AWAITING_AUTHORIZATION"
  ELSE "PENDING"

FinalStatus(a) ==
  LET reached(s) == \E k \in Executions(a) : execStatus[k] = s IN
  IF reached("succeeded") THEN "EXECUTED"
  ELSE IF reached("pending") THEN "PENDING"
  ELSE IF runtimeRulings[a] = {} /\ ruling[a] = "REQUIRES_APPROVAL"
    THEN "AWAITING_AUTHORIZATION"
  ELSE "NOT_EXECUTED"

-----------------------------------------------------------------------------
(* Safety.                                                                 *)

\* An action has at most one execution, whatever its amount was changed to
\* and however many workers run it (executor.py, precondition 5 and 7).
OneExecutionPerAction ==
  \A a \in Actions : \A k, l \in Executions(a) : k = l

\* A payable link exists only for an execution of the amount that was ruled
\* on, whose action policy or a human authorised (executor.py, 2, 3 and 5).
LinkNeedsAuthority ==
  \A k \in links :
    /\ k \in Executions(ActionOf(k))
    /\ AmountOf(k) = RuledAmount[ActionOf(k)]
    /\ HasAuthority(ActionOf(k))

\* No configuration the merchant ever had lets a link above its autonomous
\* limit come into being without a recorded human approval.
LargeLinkHasApproval ==
  \A k \in links :
    (/\ ActionType[ActionOf(k)] \in FinancialActions
     /\ \A p \in Policies : AmountOf(k) > p.maxAuto)
      => approval[ActionOf(k)] = "granted"

\* Every link is explained by a run-time evaluation that did not block it
\* (_record_execution_decision: recorded whether it permits or refuses).
LinkIsExplained ==
  \A k \in links :
    runtimeRulings[ActionOf(k)] \cap {"AUTO_APPROVED", "REQUIRES_APPROVAL"} # {}

\* A payment link is never reported that Razorpay does not have, neither by
\* the execution nor by the action.
SuccessIsReal ==
  \A k \in Keys :
    ActionType[ActionOf(k)] \in FinancialActions =>
      /\ execStatus[k] = "succeeded" => k \in links
      /\ status[ActionOf(k)] = "executed" =>
           \E l \in links : ActionOf(l) = ActionOf(k)

DayOf(k) == DayStart(createdAt[k], DayLength)

\* However its limits change, a merchant whose configuration wants a human for an
\* amount is asked: a call claims above the limit it loaded only with a recorded
\* approval, also when the action was approved autonomously before (line 387).
TightenedLimitIsKept ==
  \A w \in Workers :
    (/\ pc[w] \in {"mark", "send"}
     /\ ActionType[ActionOf(job[w])] \in FinancialActions
     /\ AmountOf(job[w]) > loaded[w].maxAuto)
      => approval[ActionOf(job[w])] = "granted"

LinksOfTheDay(ks, k) ==
  {l \in ks : ActionType[ActionOf(l)] \in FinancialActions /\ DayOf(l) = DayOf(k)}

\* The links the executor issues for one merchant day never total more than the
\* largest daily cap the merchant has had ("the daily cap be overshot",
\* executor.py:69).  Reminders are not measured against it; that the resolver can
\* make links of them is a known limit (README).
ExposureWithinCap ==
  \A k \in links : ActionType[ActionOf(k)] \in FinancialActions =>
    \E p \in Policies : Total(KeyAmount, LinksOfTheDay(links, k)) <= p.maxDaily

\* Links whose execution nobody raced for and nobody refused keep the cap.
SoundLinksWithinCap ==
  \A k \in links \ doubtful : ActionType[ActionOf(k)] \in FinancialActions =>
    \E p \in Policies :
      Total(KeyAmount, LinksOfTheDay(links \ doubtful, k)) <= p.maxDaily

\* An execution recorded as failed has no link, for its budget is free again and
\* reconciliation never looks at it (COMMITTED_EXECUTION_STATUSES), unless two
\* tasks worked on it at once or its re-sent request was refused.
FailureIsSound == \A k \in links \ doubtful : execStatus[k] # "failed"

\* The auditor's answer is true at every moment ("misreport final_status",
\* provenance.py): what counts as executed has a link, what counts as not
\* executed or as awaiting an authorization has none but doubtful ones.
AuditTellsTheTruth ==
  \A a \in Actions : ActionType[a] \in FinancialActions =>
    LET linked(ks) == \E k \in ks : ActionOf(k) = a IN
    /\ FinalStatus(a) = "EXECUTED" => linked(links)
    /\ FinalStatus(a) \in {"NOT_EXECUTED", "AWAITING_AUTHORIZATION"}
         => ~linked(links \ doubtful)

\* A recorded success is never taken back, but by a second task at work on the
\* same execution.
SuccessIsFinal ==
  [][\A k \in Keys \ doubtful' :
       execStatus[k] = "succeeded" => execStatus'[k] = "succeeded"]_vars

\* A human answer stands: it is never replaced, and an action a human denied
\* stays denied (the unique approval row of _decide).
AnswerIsFinal ==
  [][\A a \in Actions :
       /\ approval[a] # "none" => approval'[a] = approval[a]
       /\ approval[a] = "denied" => status'[a] = status[a]]_vars

-----------------------------------------------------------------------------
(* Liveness.                                                               *)

\* An execution that a timeout or a crash left open is settled, provided that it is
\* taken up again as long as it is open (resolve_pending_execution; pipeline.py
\* does so in every run that gets to its sixth stage).
PendingIsResolved ==
  \A k \in Keys :
    SF_vars(\E w \in Workers : ResolvePending(w, k)) =>
      (execStatus[k] = "pending" ~> execStatus[k] \in {"succeeded", "failed"})

-----------------------------------------------------------------------------
(* Why the safety properties hold: what is true of a task at each step.    *)

\* A started call works on a key; until the claim it holds the row it read.
JobsAndRows ==
  \A w \in Workers :
    /\ pc[w] # "idle" => job[w] \in Keys
    /\ pc[w] \in {"lookup", "claim"} => seen[w] \in Rows
    /\ pc[w] \in {"claim", "mark", "send"} => loaded[w] \in Policies

\* The row a call read stays true where it matters: authority is never lost,
\* an approval never withdrawn, and the key stands for the amount read.
RowsStayTrue ==
  \A w \in Workers : pc[w] \in {"lookup", "claim"} =>
    /\ HasAuthority(ActionOf(job[w]))
    /\ seen[w].amount = AmountOf(job[w])
    /\ seen[w].approval = "granted" => approval[ActionOf(job[w])] = "granted"
    /\ pc[w] = "claim" => seen[w].amount = RuledAmount[ActionOf(job[w])]

\* Past the claim, and in the resolver, the execution exists.
WorksOnExecution ==
  \A w \in Workers :
    pc[w] \notin {"idle", "lookup", "claim", "decide"} => execStatus[job[w]] # "none"

\* Success is written for a financial action only after its link was seen.
SuccessFollowsLink ==
  \A w \in Workers :
    (/\ pc[w] \in {"find", "succeed", "markExecuted"}
     /\ ActionType[ActionOf(job[w])] \in FinancialActions)
      => job[w] \in links

ExecutionNeedsAuthority ==
  \A k \in Keys : execStatus[k] # "none" =>
    /\ AmountOf(k) = RuledAmount[ActionOf(k)]
    /\ HasAuthority(ActionOf(k))
    /\ runtimeRulings[ActionOf(k)] \cap {"AUTO_APPROVED", "REQUIRES_APPROVAL"} # {}
    /\ (/\ ActionType[ActionOf(k)] \in FinancialActions
        /\ \A p \in Policies : AmountOf(k) > p.maxAuto)
         => approval[ActionOf(k)] = "granted"

RequestsHaveExecutions ==
  \A k \in links \cup late \cup doubtful : execStatus[k] # "none"

\* Only an action that waits for a human is ever decided.
OnlyEscalatedAreDecided ==
  /\ \A a \in Actions :
       status[a] = "awaiting_approval" \/ approval[a] # "none"
         => ruling[a] = "REQUIRES_APPROVAL"
  /\ \A w \in Workers :
       pc[w] = "decide" => ruling[ActionOf(job[w])] = "REQUIRES_APPROVAL"

Inductive ==
  /\ TypeOK
  /\ JobsAndRows
  /\ RowsStayTrue
  /\ WorksOnExecution
  /\ SuccessFollowsLink
  /\ ExecutionNeedsAuthority
  /\ RequestsHaveExecutions
  /\ OnlyEscalatedAreDecided
  /\ SuccessIsReal

-----------------------------------------------------------------------------
(* Why an undisturbed failure is sound.                                    *)

\* As long as an execution is not doubtful it has one task from its claim to its
\* settlement: the call that claimed it or, once that is gone, a resolver.  The
\* first call starts with nothing under way, and a task settles as failed only
\* what can have no link any more (the retryable errors of execute_action and
\* resolve_pending_execution).
SettledByOne ==
  /\ \A v, w \in Workers :
       (v # w /\ pc[v] \in Working /\ pc[w] \in Working /\ job[v] = job[w])
         => job[w] \in doubtful
  /\ \A w \in Workers : job[w] \notin doubtful =>
       /\ pc[w] \in Working \ {"markExecuted", "markFailed"}
            => execStatus[job[w]] = "pending"
       /\ pc[w] \in {"mark", "send", "waiting", "fail"} => job[w] \notin links \cup late
  /\ \A k \in Keys \ doubtful : execStatus[k] = "failed" => k \notin links \cup late

\* Nor do the claims of one day, of which these links are some: a claim is refused
\* that does not fit beside those that count, and one that counts no more has
\* failed.
ClaimsWithinCap ==
  LET claimed == {k \in Keys \ doubtful : execStatus[k] \in CommittedStatuses} IN
  \A k \in claimed : ActionType[ActionOf(k)] \in FinancialActions =>
    \E p \in Policies : Total(KeyAmount, LinksOfTheDay(claimed, k)) <= p.maxDaily

-----------------------------------------------------------------------------
(* The promise the executor keeps.                                         *)

Consent ==
  [a \in Actions |->
     IF ruling[a] = "AUTO_APPROVED" \/ approval[a] = "granted" THEN "given"
     ELSE IF ruling[a] = "BLOCKED" \/ approval[a] = "denied" THEN "withheld"
     ELSE "open"]

Gate == INSTANCE MoneyGate
          WITH consent <- Consent,
               claimed <- {k \in Keys : execStatus[k] # "none"},
               moved <- links

\* Seen from outside, the executor is the money gate: every step settles
\* consent, claims a consented action once, moves a claimed one, or does
\* none of these.
KeepsTheGate == Gate!Spec
=============================================================================
