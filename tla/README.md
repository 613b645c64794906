# Formal model of REVENANT

REVENANT finds failed payments worth recovering, lets language-model agents
explain them and propose a strategy, and then moves money — Razorpay payment
links — only through deterministic code: a policy engine, an approval endpoint,
an executor, and an outcome engine that counts what customers really paid.

This directory holds TLA+ modules of that deterministic core, TLC
configurations that check them on small instances, and proofs checked by TLAPS
for every value of the constants. Paths below are relative to the repository
(`src/` is its root).

## 1. Inventory

| component | source | state it keeps | operations | talks to |
|---|---|---|---|---|
| policy engine | `backend/policy/engine.py` | none (pure) | `evaluate`, `merchant_day_start` | called by planning and by the executor |
| merchant configuration | `backend/policy/merchant.py` | `merchants.policy_config` | `load_merchant_config`, `build_policy` | read by planning and by every execution |
| planning | `backend/recovery/candidates.py`, `recovery/repository.py` | `recovery_actions`, `policy_decisions` (authorization) | `build_plan`, `persist_plan` | policy engine, executor's daily total |
| approvals | `backend/routes_api.py` `_decide` | `approvals`, action status | approve, deny | executor |
| action executor | `backend/recovery/executor.py` | `execution_records`, action status, `policy_decisions` (execution) | `execute_action`, `resolve_pending_execution` | policy engine, Razorpay |
| Razorpay client | `backend/integrations/razorpay_client.py` | none | create, find, fetch a link | Razorpay over HTTP |
| webhook ingest | `backend/integrations/ingest.py`, `webhook.py`, `routes_webhooks.py` | `payment_events` | `ingest_webhook`, replay | outcome engine |
| outcome engine | `backend/recovery/outcome.py` | `recovery_outcomes`, payment and incident status | `record_outcome` | called by ingest and reconciliation |
| reconciliation | `backend/recovery/reconcile.py` | none of its own | `reconcile_outcomes` | Razorpay, outcome engine |
| detection | `backend/detection/` | `revenue_incidents` | `detect`, `scan_and_persist` | pipeline |
| agents | `backend/agents/` | `investigations`, strategy events | investigate, propose | pipeline, agent harness |
| agent harness | `backend/agents/llm.py` | none (a call's counters) | `invoke_structured` | agents, LLM providers |
| batch pipeline | `backend/pipeline.py` | none | `run_batch` | all of the above in order |
| provenance | `backend/recovery/provenance.py` | none (read-only) | `action_provenance` | API |
| API views, lab, security, redaction, settings, seed, frontend | the rest | none that the protocol depends on | | |

**What is hard here.** The database is PostgreSQL with autocommit outside
explicit transactions, so every call is a sequence of separately committed
statements that other tasks of the API server and of the batch pipeline
interleave with, and that a crash can cut anywhere. Razorpay calls time out
without telling whether they landed. Webhooks are lost, duplicated, delayed and
reordered. Three unique constraints (`idempotency_key`, one approval per action,
one outcome per execution) and one advisory lock per merchant carry the
correctness; the rest of the state is read before it is used.

**What makes each component correct.**

* policy engine: the ordered rule list decides as the written policy does
  (hard blocks before any approval), and is monotone: spending more or
  tightening a limit never frees an action;
* executor and approvals: at most one execution per action, links only for the
  ruled amount and with authority, large links only with a recorded human
  approval, success never fabricated, a human answer final; and, for executions
  that one task works on at a time and whose requests Razorpay does not refuse
  for another reason, the merchant's daily cap respected by what was really
  issued, a failure recorded only for what can have no link, an execution that is
  taken up again and again settled;
* ingest, outcome engine, reconciliation: the recorded revenue is what
  customers paid, once, with stored evidence, and a lost webhook does not lose
  the outcome as long as reconciliation gets to it;
* planning: a payment has one live action, a plan fits the day's budget,
  a decline stays a decline;
* detection: an outage is one incident, found whole; a spike does not hide
  itself in the baseline it is compared with; scanning again adds nothing;
* agent harness: while a model of the chain works, no call is given up for want
  of models; every call ends;
* pipeline: what a run, an exception or a crash leaves behind is settled by the
  runs that do come to the stages for it;
* provenance: what the audit view says of an action is true at every moment, as
  far as the execution it is derived from is.

## 2. Plan

1. `Policy` — the policy engine as operators; `Evaluation` — one call of it
   (done); `PolicyProofs`, `EvaluationProofs` (done).
2. `Executor` — executor, approvals, resolver and Razorpay, refining the
   abstract `MoneyGate` (done); `ExecutorProofs` (done).
3. `Outcome` — ingest, outcome engine and reconciliation, refining the abstract
   `RevenueLedger` (done); `OutcomeProofs` (done).
4. `Planning` — strategy storage, `build_plan`, `persist_plan` and the pipeline
   over several runs (done); `PlanningProofs` (done).
5. `Detection` — both passes, the merging of hours and the incident rows over
   many scans (done); `DetectionProofs` (done).
6. `Harness` — the loops around an agent's call; `Pipeline` — the composition of
   all stages over many runs, with the harness in it (done); `PipelineProofs`
   (done).
7. Provenance as a function of the executor's rows, checked at every moment of
   `Executor`'s runs (done: `FinalStatus`).
8. `Sums` — totals over finite sets, which the executor, planning and detection
   share; `SumProofs` (done).
9. Left: compose `Planning` and `Executor` statement by statement (the decision a
   plan records against the one the executor makes), which `Pipeline` does only
   stage by stage.

## 3. Modules and their correspondence to the code

`Policy` translates `evaluate`. `Fires(rule, act, ctx, cfg)` is the condition of
each rule, `RuleOrder` the order of the `if`s, `FirstMatch` the early returns.
Amounts are integers; `NotAnInteger` stands for the values the type check of the
amount refuses; timestamps are integers and `Never` is a missing one.
`Evaluation` is one call of it on any proposal, history and loaded configuration,
with an independent statement of the written policy (`MayBeAsked`) and of what
makes a request worse (`AsksForMore`, `NoBetter`, `NoLooser`).

`Sums` has `Total(f, S)`, the `SUM` of a query or of a loop.

`Executor` is one merchant's `recovery_actions`, `approvals`,
`policy_decisions`, `execution_records` and Razorpay, with `Workers` tasks. `pc[w]`
names the next statement of a task and `job[w]` the key it works on:

| steps | code |
|---|---|
| `ExecuteAction`, `StopAtLookup`, `LoadPolicy` | the row read and its refusals, the idempotency lookup and the checks after it, the configuration |
| `BlockAtRuntime`, `AskForApproval`, `ClaimBudget`, `LoseRace` | the transaction under the advisory lock; one of them is the whole transaction |
| `MarkExecuting`, `SendRequest` | the writes before the call, and the client's currency check |
| `RazorpayCreates`, `RazorpayRejects`, `RazorpayReportsDuplicate`, `RetryableError` | the answers; a retryable error leaves the request `late`, to land at any time or never |
| `WriteSucceeded`, `WriteFailed`, `MarkSettled` | the two statements that settle a call |
| `ResolvePending`, `ResendRequest`, `FindLink`, `LinkNotRetrievable` | `resolve_pending_execution` |
| `OpenDecision`, `CommitDecision`, `AlreadyDecided` | `_decide` |
| `Crash` | a task dies between two statements |
| `Tick`, `PaymentCaptured`, `CustomerOptsOut`, `ChangePolicy`, `AmendAmount`, `LateRequestArrives` | the world |

`ResolvePending` takes any pending execution, as `run_batch` does: also one whose
call still runs in the API server. `doubtful` is a history variable that no step
reads: the executions two tasks worked on at once, and those whose re-sent request
was refused. What the code does not keep for them (section 4, findings and known
limits) is stated for all others, without restricting what the program does.

Seen data of a call (`seen`, `loaded`) is kept apart from the rows, because the
code reads once and decides later. An idempotency key is the pair of action id
and amount: the hash's third part, the version of the authorization ruling,
never changes for an action. The hash is taken to be injective.

`MoneyGate` is what the executor promises: consent is settled once, money is
claimed at most once per action, for the ruled amount and with consent, and a
link exists only for a claim. `Executor!KeepsTheGate` is the refinement.

`Outcome` is one incident's executions and everything that tells how they ended:
`payment_events` (`stored`, by event id, with its source), `recovery_outcomes`,
the captured payments and the incident. Planning, approvals and the executor are
its environment, and of their rows only what this module reads is kept: `live`,
the actions that may still move money, and `executed`, the executions recorded as
succeeded. Both change at any time, in both directions: planning inserts live
actions into an incident that is resolved, and races of the executor end an action
whose link is payable or take a success back. Razorpay and its customers pay,
fail and close links; `sent` holds the webhooks, which are received in any order,
any number of times or never. The development endpoint replays any payload
under any id, also under the one reconciliation gives to a pulled answer.

| steps | code |
|---|---|
| `ReceiveWebhook`, `ReplayWebhook` | `ingest_webhook` up to the insert of the event, from Razorpay and from the development endpoint |
| `IgnoreUntrusted`, `InsertOutcome`, `AlreadyRecorded` | `record_outcome` up to the insert of the outcome |
| `UpdatePayment`, `ResolveIncident` | its two updates, each committed by itself |
| `StartReconcile`, `FetchSettled`, `FetchUnsettled`, `FetchFails`, `StorePulled` | `reconcile_outcomes`, row by row; it then calls `record_outcome` |
| `ActionOpens`, `ActionEnds`, `CreateLink`, `WriteSucceeded`, `WriteFailed` | what planning, approvals and the executor change |
| `Crash` | a task dies between two statements |

`RevenueLedger` is what the headline number promises: one entry per execution,
what the customer paid or nothing, never rewritten. `Outcome!LedgerIsKept` is
the refinement.

`Planning` is one batch process (`pc`, `at` and what it holds) over the tables
that incidents share. A run is a sequence of separate statements: the strategy
is asked for or reloaded, the payments with their history are read in one
query, the day's total in another, each payment is ruled on with the total
carried forward, and the plan is written in one transaction.

| steps | code |
|---|---|
| `StartRun` | `run_batch` up to the investigation (any incident may come first in the scan) |
| `ProposeStrategy`, `ReuseStrategy` | `propose_strategy` with `persist_strategy`; `load_latest_strategy` |
| `ReadRows`, `PlanDecline`, `ReadTotal`, `RulePayment`, `UnknownActionRaises`, `PlanComplete` | `build_plan` |
| `PersistPlan` | `persist_plan`, one transaction; `SlotIsFree` is the exclusion constraint `one_live_action_per_payment` |
| `Crash` | the batch process dies, or a call of the agent raises |
| `DecideAction`, `ClaimAction`, `SettleSucceeded`, `SettleFailed`, `RefuseAction`, `CapturePayment`, `CustomerOptsOut`, `ResolveIncident`, `Tick` | approvals, the executor and the outcome engine, as far as planning reads what they write |

An action is identified by incident and payment, which is what `_insert_action`
keeps unique. The target method and failure reasons of a strategy are a
set of payments, and an action name outside the enumeration is `"unknown"`.

`Detection` is `payments` counted by method and hour (`count`), one scan (`pc`,
`loaded`, `flagged`, `left`, `group`, `todo`) and `revenue_incidents` (`rows`, in
the order of their ids).

| definitions | code |
|---|---|
| `Suspect`, `Baseline`, `AboveBaseline`, `Flagged` | the two passes of `detect` |
| `Load`, `MergeWindow`, `FlushMethod`, `MergeDone` | `load_payments` and the rest of `detect`, window by window |
| `PersistIncident`, `ScanDone` | `persist_incident` and the loop of `scan_and_persist`; each incident is committed by itself |
| `Crash` | the scan is cut off between two of these |
| `PaymentFails`, `PaymentSucceeds`, `PaymentCaptured` | payments change while a scan runs and between scans |

Rates are fractions. The code compares them as floats, which puts some rates
that are exactly `min_multiple` times the baseline below it; `LostTies` names
those, and the proofs hold for any set of them.

`Harness` is one call of an agent: `round` counts `invoke_structured`'s attempts,
`model` and `attempt` are the two loops of `_invoke_with_backoff`. An error is the
set of conditions its text matches; `Pointless`, `Overload`, `RateLimit` and
`Unknown` are the `if`s in their order. `Fails` is the body of the `except`,
`NextModel` its `break`, `Retry` its `continue`. `healthy` is the set of models that
answer every request of the call properly; it is chosen anew for each call, and
the harness cannot see it.

`Pipeline` is `run_batch` over and over, one action for a payment. It sees each
stage by what it leaves in the tables:

| steps | code |
|---|---|
| `StartRun`, `NothingDetected`, `Detect` | step 1, with its early return; only the first incident is worked on |
| `AskAgent`, `AgentAnswering`, `Investigate`, `Propose`, `AgentRaises` | steps 2 and 3, through `H == INSTANCE Harness`; stored answers are used again |
| `Plan`, `DryRun`, `PlanRaises` | step 4; any failed payment of the merchant without a row may get one, and a stored strategy with an unknown action raises |
| `Select`, `ExecuteNext`, `ExecuteRaises` | step 5: approved actions by score up to `--limit`; `Claims` and `Passes` are the ways `execute_action` can end, `ExecuteRaises` where an exception or a crash cuts it |
| `SelectPending`, `ResolveSkips`, `ResolveSettles`, `ResolveStaysPending`, `ResolveRaises` | step 6: `resolve_pending_execution` for everything pending, oldest first |
| `Reconcile` | step 6b: `reconcile_outcomes`, the oldest executions without an outcome up to `PullLimit`; a fetch of each link may fail |
| `Crash` | the process dies between stages |
| `Webhook`, `LinkCloses`, `LateLink`, `HumanDecides`, `OtherTask` | ingest (also of failed attempts), Razorpay and its customers, approvers, and the API's own executions and their races |

`Trouble` names which of the things that go wrong may happen in a run of TLC; the
run `pipeline` allows all of them.

`FinalStatus` in `Executor` is `final_status` of `action_provenance`, which is
stored nowhere and derived from execution, run-time evaluation and
authorization in this order.

## 4. Runs

The run `executor` uses two actions with links of 2 and 4 minor units, an
autonomous limit of 3 and a daily cap of 5: the first is approved autonomously,
the second needs a human, and the cap holds either but not both. That is the least
instance in which races for one action, races for the budget, an execution that is
resolved while its call runs and the approval path all occur. Two workers suffice
for every race of the code (each is between two tasks) and one crash reaches every
statement boundary. It stays within one day and one configuration; midnight and
changing configurations are in `executor_resolves` and in the proofs, which bound
neither.

| run | bounds | shows |
|---|---|---|
| `policy` | all action types and an unknown one, 5 amounts, 3 payment statuses, clocks before, at and after the proposal, 32 configurations | the rule list against an independent statement of the policy; monotonicity; the configuration check |
| `executor` | 2 workers, 2 actions, amounts may be amended, 1 day, 1 configuration, 1 crash | the safety invariants and action properties, the day's cap for claims and for links, the inductive invariant of the proofs, the refinement of `MoneyGate` |
| `executor_resolves` | 1 worker, 1 action, 2 configurations, 2 days, facts change, 1 crash, fair | a tightened limit is kept; an execution taken up again and again is settled |
| `outcome_push` | 1 execution, 2 tasks, 2 amounts, failed attempts, replays under 2 ids, 1 crash, fair | revenue is real, evidenced and kept while push, pull and replay race; an execution that reconciliation gets to has an outcome; the inductive invariant; the refinement of `RevenueLedger` |
| `planning` | 2 payments of 2 with a cap of 3, 2 incidents that select both, 3 answers, 2 configurations, 2 days | one live action, retry limit, cooldown, the plan's running total and budget; the inductive invariant |
| `detection` | 2 methods, 4 hours, hours of 4 shapes around the thresholds, 1 payment changes, any number of crashes | incidents are exactly the outages; an outage does not hide itself; rows stay current and are not duplicated; the inductive invariant |
| `pipeline` | 2 payments, 1 incident with one of them, `--limit` 1, reconciliation limit 1, any number of crashes and of every other trouble, 2 models of 3 attempts in 2 rounds, 4 kinds of error, fair | the chain of models is used up before a call fails, calls end, pending executions are settled and paid links pulled by the runs that come to these stages |
| `executor_contested`, `outcome_failed_first`, `outcome_crash`, `planning_decline`, `pipeline_stops_early` | as small as the case allows | the disagreements listed under findings |

Deadlock is checked in `pipeline` and `pipeline_stops_early`, where
a run can always be started; the other systems come to rest (every action
settled, every change of a payment made), so their configurations set
`CHECK_DEADLOCK FALSE`.

**Fairness.** How often runs come to which stage is not assumed anywhere, because
the code does not guarantee it: `run_batch` returns when nothing is detected
(`pipeline.py`, line 99), and exceptions of planning, of an agent or of an
execution end it before the stages that settle. Properties that need it name it in
their condition, so that they say what follows if operators and the code do bring
runs that far.

* `Executor!Fairness`: a running task keeps running (weak fairness of `Proceed`),
  and a request repeated again and again is answered some time: without it no
  program could settle anything. `PendingIsResolved` is about executions that the
  resolver takes up again as long as they are pending. Nothing is assumed of
  crashes, late requests or people.
* `Outcome!Fairness`: a running task keeps running, and a link fetched again and
  again is fetched some time. No webhook needs to arrive.
  `ReconciliationCatchesUp` is about reconciliations that are started again and
  again, and about executions that stay within their limit.
* `Pipeline!Fairness`: the run is started again and again and goes on (a request to
  a model ends with its timeout, `REQUEST_TIMEOUT_SECONDS`), and what is asked of
  Razorpay again and again for one execution is answered some time. `CallEnds`
  needs only the first. `PendingSettles` is conditional on runs coming to stage 6
  again and again, `PaidIsPulled` on runs coming to stage 6b and on fewer executions
  being ahead than the limit. `PaidIsRecorded`, the unconditional claim of the code,
  assumes only that the agents are not given up for ever, in an instance without
  troubles, and is violated (`pipeline_stops_early`).
* `Planning` states no liveness: whether a run is started is the operator's choice.

The races of `Outcome` are about one execution and between two tasks. Executions
meet only in the limit of a reconciliation, which the run `pipeline` exercises:
with a limit of 1, two executions compete for every reconciliation.

`planning` needs two incidents, because every property relates the rows of
several incidents, and two payments, because the budget relates the candidates of
one plan. Its first configuration allows one recovery of a payment and its
second two, a cooldown apart, so that each limit is the one that stops a
plan. The incidents are alike and exchanged by symmetry; the run checks
invariants only.

`detection` takes every combination of four shapes of hour (good; thin but
failing; suspect with too few failures; outage) for three hours of one method,
and three shapes for the last hour, among them a rate of exactly three times
the baseline. This gives outages of one to four hours at either end, gaps of one
and two, and baselines of zero, near and far. The second method has one outage,
so that groups of two methods meet. One changing payment is enough for a scan
that differs from the one before, with any number of scans and crashes in
between.

`pipeline` has two payments because both limits and the scores
relate them; two models and three attempts make each branch of the harness
reachable, including the quick retry of a busy model. The incident stands out
by one failure, so that something is detected until its payment is
recovered; the other payment failed outside of every incident and is planned,
executed, resolved and reconciled all the same, since these stages are about the
merchant. `pipeline_stops_early` has one incident that stands out only with both
payments, as a spike does.

### Findings

Each is a disagreement between a document or comment of the repository and its
code, shown by a run that expects the violation; `PROJECT.json` quotes both.

* `executor_contested`: `run_batch` resolves every pending execution, also one whose
  call still runs in the API server. The link is created for one of the two
  requests; the other comes back as a duplicate, which `execute_action` takes for a
  rejection (`executor.py`, line 473). The execution is recorded as failed although
  its link is payable, its budget is free again, and the links of the day exceed the
  cap. A re-sent request that is refused for any reason (line 630) does the same to
  a link that an earlier, timed-out request has created.
* `outcome_failed_first`: a failed attempt on a link is recorded as the outcome,
  and the payment that follows on the same link is dropped.
* `outcome_crash`: a crash between the outcome and the payment's update leaves a
  recovered payment recoverable.
* `planning_decline`: a strategy reloaded by a later run has forgotten that it
  declined.
* `pipeline_stops_early`: a run that detects nothing does not reconcile.

### Known limits seen while modelling

These are facts about the code that the models contain or that bounded a
property; but for the first, no document claims the contrary of them. No run is
listed for them.

* The resolver creates a payment link for any pending execution
  (`executor.py`, line 602), a reminder's included: after a crash between the
  claim of a `SEND_RECOVERY_NOTIFICATION` and its completion, `ResolvePending`,
  `ResendRequest` and `RazorpayCreates` lead to a link to which no limit was
  applied, although `agents/recovery.py`, line 61, describes "a reminder with no
  payment link". The proof of the cap failed on this, which is why `SoundLinksWithinCap`
  measures the links of financial actions; replace an action's type in
  `MCExecutor` by a reminder and drop that condition to see the trace.
* An execution recorded as failed in the race of `executor_contested` is never asked
  about again, by the resolver or by reconciliation; `action_provenance` reports it
  as not executed. A call may also take back the success that the resolver
  recorded meanwhile.
* The loser of a race for one action is ruled on with the winner's claim in the
  day's total. If that exceeds the cap it marks the shared action as failed
  while the winner's link is payable (`executor.py`, lines 378 and 419), so nothing
  is stated about the status of an action whose execution is open; the properties
  are about executions.
* A crash between the two statements that settle a call leaves the action
  `executing` for good (`executor.py`, line 488): the resolver takes up pending
  executions only. The audit view, derived from the execution, stays right.
* The resolver sends a request again with the amount only: the client's currency
  check (`razorpay_client.py`, line 28) was made for the first request, and
  `resolve_pending_execution` (`executor.py`, line 602) does not repeat it.
* `execute_action` reads the payment and customer before it takes the merchant's
  lock and rules on them under the lock (lines 351 and 329): a capture or opt-out
  in between is not seen.
* Reconciliation takes the oldest executions without an outcome up to its limit
  (`reconcile.py`, lines 64-68); links that are never paid stay in the window, and
  newer payments wait behind them. `PaidIsPulled` and `ReconciliationCatchesUp`
  are about executions that are not behind more than the limit.
* The replay endpoint takes any event id (`routes_webhooks.py`, line 144), also the
  one reconciliation gives to the answer about a link. If the replay comes first,
  `ON CONFLICT DO NOTHING` (`reconcile.py`, line 98) keeps its row, and the outcome
  names a replayed event as its evidence. The amount is Razorpay's all the same
  (`RevenueIsReal`); `OutcomeHasEvidence` makes this one exception.
* `persist_plan` inserts live actions into an incident that is already resolved
  (`recovery/repository.py`, lines 66-104; detection keeps finding it while enough
  of its payments fail), so a resolved incident is not a settled one.
* A webhook about a pending execution records its outcome, but the execution
  stays pending until the resolver asks (`executor.py`, line 461).
* `persist_plan` records a refusal once for an incident and payment, so a refusal
  for a passing reason (cooldown, the day's cap) is final for that incident
  (`recovery/repository.py`, line 88).
* An agent's answer with an unknown action is meant to be blocked, but the
  decision is built without its `policy_hash` and raises
  (`candidates.py`, line 222); the stored strategy makes each later run of the
  incident raise too (`Planning!UnknownActionRaises`, `Pipeline!PlanRaises`). As long
  as this incident is the one at most risk, no run comes to resolving or
  reconciling.
* Detection identifies an incident by its first hour: when a capture or a late
  payment moves that hour, the same outage gets a second row, and the old one
  keeps its figures (`detection/repository.py`, line 54).
* A rate of exactly three times the baseline is flagged or not depending on how
  the fractions round (`detection/engine.py`, line 143).
* An agent's answer without a valid submission starts the chain from its first
  model again, so a first model that always answers badly uses up all rounds
  (`llm.py`, line 486). `AGENT_DEADLINE_SECONDS` is read nowhere (line 106).
* A run works on the incident with the most revenue at risk only
  (`pipeline.py`, line 102), and its limit is spent on refused actions first if
  their scores are the best (line 164).
* Resolving and reconciling come after the early return of a run that detects
  nothing (`pipeline.py`, line 99): recoveries themselves can end detection, and
  then links that were paid without a webhook are not pulled
  (`pipeline_stops_early`).
* A denied action is reported as `AWAITING_AUTHORIZATION` for ever
  (`provenance.py`, line 85).
* Only one batch process plans at a time in `Planning`. Two would read the
  history of a payment without each other's rows; the exclusion constraint would
  still keep one live action.

## 5. Proofs

`SumProofs` has what the other modules need to know of `Total`: that of no
elements it is 0, that it is an integer, that taking one element away or putting
one in changes it by that element's value, that it grows with the set when the
values are not negative and with the values when the set stays. The community
modules define such a sum by accumulating over an arbitrary order, and no
induction theorem can be used here, so each lemma is proved by a smallest
counterexample: among the sizes of the sets for which it fails there is a
least, from the well-foundedness of `<`, and taking one element away gives a
smaller one.

`PolicyProofs` proves that the first matching rule exists and decides, so that an
autonomous permit passed every rule, an escalation passed every hard block, and
a permit is within both limits. `EvaluationProofs` proves the three properties of
the run `policy` for any inputs of the right types: the eleven hard blocks
together are the written condition (`HardBlocksAreWritten`), so the rule list
decides as written; the written condition and the threshold are monotone
(`AskingIsMonotone`), so a stricter input never frees an action; and the check of
`build_policy` makes the autonomous limit usable.

`ExecutorProofs` proves, for any sets of actions, workers, amounts and
configurations, the theorems listed in
`PROJECT.json`. No step of the code is restricted for them. The property a reader wants — a link has authority — is not
inductive: it must be known that a worker about to claim still holds a row that
is true where it matters (`RowsStayTrue`: authority is never withdrawn, the key
stands for the amount read), that everything past the claim works on an
existing execution (`WorksOnExecution`), that success is only written after the
link was seen (`SuccessFollowsLink`), and that requests in flight belong to
executions (`RequestsHaveExecutions`). `Inductive` is the conjunction; one lemma
per group of actions shows that it is preserved, and the theorems follow.
`TypeCorrect` additionally needs what a task holds at each step (`JobsAndRows`).
`ExecutorKeepsTheGate` maps every step of the executor to a step or a stutter of
`MoneyGate`.

Its second part is about executions that are not `doubtful`: what is recorded as
failed has no link, a success stays, the audit view is right. The invariant is
`SettledByOne`: an execution with two tasks at work is doubtful; any other one has
one task from the claim on, its first call starts with no link and no request under
way, and a task writes a failure only when no link can arise any more. Where this
leaves the code exposed is the finding `executor_contested`: the answer to a
duplicate, and the refusal of a re-sent request.

The cap of a day is proved through the claims (`ClaimsWithinCap`), because a link
may appear long after its claim was counted, under another configuration. When
an execution is claimed, the total read under the lock holds every other claim
of its day (`TheDayIsCounted`) and the rule admits it only if both fit
(`ClaimFits`); it joins the claims of its day and leaves those of other days
alone (`ClaimJoinsItsDay`). Every other step leaves the claims as they are or ends
some, and a failed one never counts again (`ClaimsOnlyEnd`). Every link that is not
doubtful is a claim that counts, because a failed one has no link, so these links
fit as well (`SoundLinksStayWithinCap`). That a tightened limit is kept follows from
what a call holds between its ruling and its request (`TightenedLimitHolds`).

`OutcomeProofs` proves, for any number of executions and tasks, any limit, any
replays and any environment of planning and execution, that recorded revenue is
real (`RevenueIsReal`), rests on stored evidence (`OutcomeHasEvidence`), and that the
tables refine the ledger. Neither is inductive: an answer of Razorpay is applied
long after it was given, so what a task holds must still be true when it is written
(`JobsAreTrue`, which holds because a paid link stays paid, `EventsAreTrue`), and
the event it names must be stored by then (`EvidenceIsStored`).

`PlanningProofs` proves, for any finite sets of payments and incidents, any
answers of the agent and any configurations, that a payment has one live action
and that its permitted recoveries respect the retry limit and the cooldown over
all incidents. None is inductive, because a payment's history is read long before
its action is written: `FactsAreCurrent` says that what was read is still so when
it is ruled on (the rows of a payment are only added by the run itself),
`CandidatesFitTheHistory` that it is still so when it is persisted, and
`HistoryIsPast` bounds the instants, so that the last attempt is the latest. That
a bounded set of naturals has a maximum is proved from the well-foundedness of
`<`, and the counts from the cardinality theorems. The budget of a plan
(`PlanFitsTheDay`) follows from `RunningTotalIsTrue`: the total that `build_plan`
carries from candidate to candidate is the day's total and what is approved so
far, each payment once.

`DetectionProofs` proves, for any methods, hours, thresholds and counts, that the
incidents of a scan are exactly the maximal intervals of flagged hours, and that
no two of them share a window. The merge loop is why: `MergesRight` says that
no flagged window is lost (it waits, is in the group or in an incident), that
incidents are whole, and that the group begins at the start of an outage and
ends before every window of its method still waiting. It also proves that after
a complete scan each outage has one row with its present figures, and that a
scan of unchanged payments writes nothing. Both rest on `ScansAreRecorded`: what
a scan has persisted stays true as long as the payments may still be those it
read, and they never come back once they have changed (`ScansAreOrdered`), so a
scan that was cut off with other figures cannot be mistaken for the last one.
`AnomaliesStayVisible` is about `detect` itself: one more failure in a flagged hour
raises that hour's rate, and leaves every baseline as it was, because a flagged
hour is suspect and a suspect hour is in no baseline. What is far above a
baseline stays so in whole numbers. At an exact tie the code's rounding decides; one
more failure leaves a tie only where the rate is one and stays one, and there the
proof uses `TiesAssumption`: how n/n rounds does not depend on n.

`PipelineProofs` proves, for any chain of models, budgets and errors, that a call
is not given up as exhausted while a model of the chain works. The invariant is
that the models before the one being asked are not healthy (`NotYetPassed`); it
survives a new round and a new call because both start at the first model. Type
correctness of the whole pipeline is proved on the way.

Assumptions: the named `ASSUME`s of `Executor` (finite sets of actions and
amounts, amounts that are naturals as the schema's `CHECK` demands, one ruled
amount per action, valid configurations), of `Evaluation` (requests of the right
types, valid configurations), of `Outcome`
(execution ids are naturals, amounts positive, `None` is neither an outcome nor
a job) and of `Planning` (finite sets of payments and incidents, limits that are
naturals, `Never` and `None` distinct from values), of `Detection` (thresholds are
naturals and a rate at most one, no more failures than payments, finitely many
methods, lost ties that are ties) and of `Pipeline` (finite sets of payments and incidents; positive
lengths, budgets and limits). Every run evaluates those of its module.

Model-checked only: the liveness properties (`PendingIsResolved`,
`ReconciliationCatchesUp`, `CallEnds`, `PendingSettles`, `PaidIsPulled`), which
are beyond the prover. Every other property of a passing run is proved, from the
assumptions on constants above only. Nothing is
proved where a run shows a violation.

## 6. Not modelled

What the language models answer is arbitrary in `Planning` and `Pipeline`; prompts
and the read-only tools of the agents are left out with it, and so are waiting
times and the construction of the models. Detection leaves out titles, top
reasons and the spread of amounts. The report `run_batch` prints is left out: its
totals (`pipeline.py`, lines 257 to 269) are read from all merchants' rows and
written nowhere. Redaction, HTTP parsing, request guards, the read-only API, the
lab calculator (a form over `evaluate`), connection pooling, seeding and the
frontend keep no state the protocol depends on; reasons are with the components
in `PROJECT.json`.
