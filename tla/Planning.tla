------------------------------ MODULE Planning ------------------------------
(***************************************************************************)
(* From an incident to recovery actions: the planning half of the batch    *)
(* pipeline (backend/pipeline.py), the store of the agent's strategies     *)
(* (backend/agents/repository.py), build_plan (recovery/candidates.py) and *)
(* persist_plan (recovery/repository.py).                                  *)
(*                                                                         *)
(* One batch process plans for one merchant, run after run; pc is its next *)
(* statement.  Approvers, the executor, customers and the outcome engine   *)
(* work on the same tables in between.  An action is identified by its     *)
(* incident and payment: persist_plan writes at most one row for each.     *)
(***************************************************************************)
EXTENDS Policy, Sums

CONSTANTS
  Payments,    \* failed payments, in the order of the plan
  Incidents,
  AmountOf,    \* payment -> its amount
  Answers,     \* what the agent may answer about an incident
  Policies,    \* configurations; one is chosen at the start
  Movable,     \* bound: payments that may be captured or opted out of
  DayLength,   \* length of the merchant's day
  MaxTime,     \* bound on the clock
  None         \* no row, no strategy

ASSUME PaymentsAssumption ==
  /\ Payments \subseteq Nat
  /\ AmountOf \in [Payments -> Nat \ {0}]

ASSUME FiniteAssumption == IsFiniteSet(Payments) /\ IsFiniteSet(Incidents)

ASSUME NeverAssumption == Never \notin Int

ASSUME PlanningBounds == DayLength \in Nat \ {0} /\ MaxTime \in Nat

\* The reasons and methods of a strategy select payments.  An action the
\* system does not know is "unknown".
Strategies == [worth : BOOLEAN, type : ActionTypes \cup {"unknown"},
               targets : SUBSET Payments]

ASSUME AnswersAssumption == Answers \subseteq Strategies

ASSUME PlanningPolicies ==
  \A p \in Policies : p.cooldown \in Nat /\ p.maxRetries \in Nat /\ p.maxDaily \in Nat

Keys == Incidents \X Payments

VARIABLES
  captured, optedOut,  \* payments, and payments of opted-out customers
  incident,            \* revenue_incidents.status
  stored,              \* metadata of RECOVERY_STRATEGY_PROPOSED
  declined,            \* incidents the agent judged not worth recovering
  action,              \* recovery_actions, with the ruling
  claimedAt,           \* created_at of the execution that counts, pending or succeeded
  pc, at,              \* next statement of the run, and its incident
  strategy,            \* the strategy the run works with
  facts,               \* the rows build_plan read
  left,                \* payments it has still to rule on
  base, running,       \* recovered_today, running_total
  candidates,          \* payment -> decision
  planNow,             \* the instant of the plan
  policy, now

worldVars == <<captured, optedOut, policy>>
tableVars == <<incident, stored, declined, action, claimedAt>>
planVars == <<strategy, facts, left, base, running, candidates, planNow>>

vars == <<worldVars, tableVars, planVars, pc, at, now>>

Live == {"awaiting_approval", "approved", "executing"}

StatusFor == [AUTO_APPROVED |-> "approved",
              REQUIRES_APPROVAL |-> "awaiting_approval",
              BLOCKED |-> "denied"]

Actions == [type : ActionTypes, decision : Decisions, proposedAt : Nat,
            status : Live \cup {"denied", "executed", "failed"}]

ASSUME PlanningNone ==
  None \notin Actions /\ None \notin Strategies /\ None \notin Nat /\ None \notin Decisions

NoCandidates == [p \in Payments |-> None]

NoFacts == [p \in {} |-> None]

TypeOK ==
  /\ captured \subseteq Payments
  /\ optedOut \subseteq Payments
  /\ incident \in [Incidents -> {"open", "investigating", "recovering", "resolved"}]
  /\ stored \in [Incidents -> Strategies \cup {None}]
  /\ declined \subseteq Incidents
  /\ action \in [Keys -> Actions \cup {None}]
  /\ claimedAt \in [Keys -> Nat \cup {None}]
  /\ pc \in {"idle", "strategy", "read", "total", "rule", "persist"}
  /\ at \in Incidents \cup {None}
  /\ pc # "idle" => at \in Incidents
  /\ strategy \in Strategies \cup {None}
  /\ pc \notin {"idle", "strategy"} => strategy # None
  /\ left \subseteq Payments
  /\ candidates \in [Payments -> Decisions \cup {None}]
  /\ planNow \in Nat
  /\ policy \in Policies
  /\ now \in Nat

Init ==
  /\ captured = {}
  /\ optedOut = {}
  /\ incident = [i \in Incidents |-> "open"]
  /\ stored = [i \in Incidents |-> None]
  /\ declined = {}
  /\ action = [k \in Keys |-> None]
  /\ claimedAt = [k \in Keys |-> None]
  /\ pc = "idle"
  /\ at = None
  /\ strategy = None
  /\ facts = NoFacts
  /\ left = {}
  /\ base = 0 /\ running = 0
  /\ candidates = NoCandidates
  /\ planNow = 0
  /\ policy \in Policies
  /\ now = 0

-----------------------------------------------------------------------------
(* run_batch: the incident that comes first in the scan, its investigation *)
(* and its strategy.                                                       *)

\* The run ends, and forgets what it has read.
EndRun ==
  /\ pc' = "idle"
  /\ at' = None
  /\ strategy' = None
  /\ facts' = NoFacts
  /\ left' = {}
  /\ base' = 0 /\ running' = 0
  /\ candidates' = NoCandidates
  /\ planNow' = 0

\* Which incident comes first depends on the payments of the day; the
\* investigation moves an open one on.
StartRun(i) ==
  /\ pc = "idle"
  /\ pc' = "strategy"
  /\ at' = i
  /\ incident' = [incident EXCEPT ![i] = IF @ = "open" THEN "investigating" ELSE @]
  /\ UNCHANGED <<worldVars, stored, declined, action, claimedAt, planVars, now>>

\* persist_strategy stores every field but worth_recovering.
ProposeStrategy(answer) ==
  /\ pc = "strategy"
  /\ stored[at] = None
  /\ stored' = [stored EXCEPT ![at] = [answer EXCEPT !.worth = TRUE]]
  /\ declined' = IF answer.worth THEN declined ELSE declined \cup {at}
  /\ strategy' = answer
  /\ pc' = "read"
  /\ UNCHANGED <<worldVars, incident, action, claimedAt, at, facts, left, base,
                 running, candidates, planNow, now>>

\* load_latest_strategy takes a missing worth_recovering for TRUE.
ReuseStrategy ==
  /\ pc = "strategy"
  /\ stored[at] # None
  /\ strategy' = stored[at]
  /\ pc' = "read"
  /\ UNCHANGED <<worldVars, tableVars, at, facts, left, base, running,
                 candidates, planNow, now>>

-----------------------------------------------------------------------------
(* build_plan: the rows, the day's total, then a ruling for each payment.  *)

RowsOf(p) == {k \in Keys : k[2] = p /\ action[k] # None}

\* Only actions that reached a customer count.
MutantPriorAttempts(p) == Cardinality({k \in RowsOf(p) : action[k].status = "executed"})

PriorAttempts(p) == Cardinality(RowsOf(p))

\* Only actions that reached a customer count.
MutantLastAttempt(p) ==
  LET times == {action[k].proposedAt : k \in {r \in RowsOf(p) : action[r].status = "executed"}}
  IN IF times = {} THEN Never ELSE Max(times)

LastAttempt(p) ==
  IF RowsOf(p) = {} THEN Never ELSE Max({action[k].proposedAt : k \in RowsOf(p)})

ReadRows ==
  /\ pc = "read" /\ strategy.worth
  /\ planNow' = now
  /\ left' = strategy.targets \ captured
  /\ facts' = [p \in left' |-> [prior |-> PriorAttempts(p), last |-> LastAttempt(p),
                                optedOut |-> p \in optedOut]]
  /\ pc' = "total"
  /\ UNCHANGED <<worldVars, tableVars, at, strategy, base, running, candidates, now>>

\* A decline is a plan without candidates, and the plan is persisted.
PlanDecline ==
  /\ pc = "read" /\ ~strategy.worth
  /\ pc' = "persist"
  /\ UNCHANGED <<worldVars, tableVars, planVars, at, now>>

ClaimedAmount == [k \in Keys |-> AmountOf[k[2]]]

\* daily_committed_minor
Committed(instant) ==
  Total(ClaimedAmount,
    {k \in Keys : claimedAt[k] # None /\ claimedAt[k] >= DayStart(instant, DayLength)})

ReadTotal ==
  /\ pc = "total"
  /\ base' = Committed(planNow)
  /\ running' = base'
  /\ pc' = "rule"
  /\ UNCHANGED <<worldVars, tableVars, at, strategy, facts, left, candidates, planNow, now>>

Ruling(p) ==
  Evaluate([type |-> strategy.type, identified |-> TRUE, amount |-> AmountOf[p],
            proposedAt |-> planNow],
           [paymentStatus |-> "failed", optedOut |-> facts[p].optedOut,
            priorAttempts |-> facts[p].prior, lastAttempt |-> facts[p].last,
            committed |-> running, now |-> planNow],
           policy)

\* The total is not threaded through the plan.
MutantSpend(p) == running

\* Only actions that could execute consume the day's budget.
Spend(p) == IF Ruling(p) = "AUTO_APPROVED" THEN running + AmountOf[p] ELSE running

RulePayment(p) ==
  /\ pc = "rule"
  /\ p \in left /\ \A q \in left : p <= q
  /\ strategy.type # "unknown"
  /\ candidates' = [candidates EXCEPT ![p] = Ruling(p)]
  /\ running' = Spend(p)
  /\ left' = left \ {p}
  /\ UNCHANGED <<worldVars, tableVars, at, strategy, facts, base, planNow, pc, now>>

\* The refusal of an unknown action lacks its policy_hash: constructing it
\* raises, and so does the run.
UnknownActionRaises ==
  /\ pc = "rule"
  /\ left # {} /\ strategy.type = "unknown"
  /\ EndRun
  /\ UNCHANGED <<worldVars, tableVars, now>>

PlanComplete ==
  /\ pc = "rule" /\ left = {}
  /\ pc' = "persist"
  /\ UNCHANGED <<worldVars, tableVars, planVars, at, now>>

-----------------------------------------------------------------------------
(* persist_plan, one transaction.                                          *)

\* The exclusion constraint is missing.
MutantSlotIsFree(p) == TRUE

\* one_live_action_per_payment
SlotIsFree(p) == \A k \in RowsOf(p) : action[k].status \notin Live

\* The incident has no row for the payment, and a live row finds its slot free.
Inserted(p) ==
  /\ candidates[p] # None
  /\ action[<<at, p>>] = None
  /\ StatusFor[candidates[p]] \in Live => SlotIsFree(p)

PersistPlan ==
  /\ pc = "persist"
  /\ action' = [k \in Keys |->
       IF k[1] = at /\ Inserted(k[2])
       THEN [type |-> strategy.type, decision |-> candidates[k[2]],
             proposedAt |-> planNow, status |-> StatusFor[candidates[k[2]]]]
       ELSE action[k]]
  /\ incident' = [incident EXCEPT ![at] =
       IF @ \in {"open", "investigating"} THEN "recovering" ELSE @]
  /\ EndRun
  /\ UNCHANGED <<worldVars, stored, declined, claimedAt, now>>

-----------------------------------------------------------------------------
Crash ==
  /\ pc # "idle"
  /\ EndRun
  /\ UNCHANGED <<worldVars, tableVars, now>>

(* What others do to the same tables.                                      *)

MoveAction(k, from, to) ==
  /\ action[k] # None /\ action[k].status = from
  /\ action' = [action EXCEPT ![k].status = to]

DecideAction(k, answer) ==
  /\ MoveAction(k, "awaiting_approval", answer)
  /\ UNCHANGED <<worldVars, incident, stored, declined, claimedAt, planVars, pc, at, now>>

\* The execution is recorded before the call, so its amount counts at once.
ClaimAction(k) ==
  /\ Committed(now) + AmountOf[k[2]] <= policy.maxDaily
  /\ k[2] \notin captured \cup optedOut
  /\ MoveAction(k, "approved", "executing")
  /\ claimedAt' = [claimedAt EXCEPT ![k] = now]
  /\ UNCHANGED <<worldVars, incident, stored, declined, planVars, pc, at, now>>

SettleSucceeded(k) ==
  /\ MoveAction(k, "executing", "executed")
  /\ UNCHANGED <<worldVars, incident, stored, declined, claimedAt, planVars, pc, at, now>>

\* A failed execution no longer counts.
SettleFailed(k) ==
  /\ MoveAction(k, "executing", "failed")
  /\ claimedAt' = [claimedAt EXCEPT ![k] = None]
  /\ UNCHANGED <<worldVars, incident, stored, declined, planVars, pc, at, now>>

\* Blocked at runtime or expired: the action is over, unexecuted.
RefuseAction(k) ==
  /\ MoveAction(k, "approved", "failed")
  /\ UNCHANGED <<worldVars, incident, stored, declined, claimedAt, planVars, pc, at, now>>

CapturePayment(p) ==
  /\ p \in Movable
  /\ captured' = captured \cup {p}
  /\ UNCHANGED <<optedOut, policy, tableVars, planVars, pc, at, now>>

CustomerOptsOut(p) ==
  /\ p \in Movable
  /\ optedOut' = optedOut \cup {p}
  /\ UNCHANGED <<captured, policy, tableVars, planVars, pc, at, now>>

ResolveIncident(i) ==
  /\ incident[i] = "recovering"
  /\ \A p \in Payments : action[<<i, p>>] # None => action[<<i, p>>].status \notin Live
  /\ \E p \in Payments : claimedAt[<<i, p>>] # None  \* an outcome is recorded
  /\ incident' = [incident EXCEPT ![i] = "resolved"]
  /\ UNCHANGED <<worldVars, stored, declined, action, claimedAt, planVars, pc, at, now>>

Tick ==
  /\ now < MaxTime
  /\ now' = now + 1
  /\ UNCHANGED <<worldVars, tableVars, planVars, pc, at>>

Run ==
  \/ \E i \in Incidents : StartRun(i)
  \/ \E answer \in Answers : ProposeStrategy(answer)
  \/ ReuseStrategy \/ ReadRows \/ PlanDecline \/ ReadTotal
  \/ \E p \in Payments : RulePayment(p)
  \/ UnknownActionRaises \/ PlanComplete \/ PersistPlan \/ Crash

World ==
  \/ \E k \in Keys :
       \/ \E answer \in {"approved", "denied"} : DecideAction(k, answer)
       \/ ClaimAction(k) \/ SettleSucceeded(k) \/ SettleFailed(k) \/ RefuseAction(k)
  \/ \E p \in Payments : CapturePayment(p) \/ CustomerOptsOut(p)
  \/ \E i \in Incidents : ResolveIncident(i)
  \/ Tick

Next == Run \/ World

Spec == Init /\ [][Next]_vars

-----------------------------------------------------------------------------
(* Properties.                                                             *)

\* A payment is under recovery by one action at a time, whichever incidents
\* claim it (schema.sql, one_live_action_per_payment).
OneLivePerPayment ==
  \A k, l \in Keys :
    (/\ k[2] = l[2]
     /\ action[k] # None /\ action[k].status \in Live
     /\ action[l] # None /\ action[l].status \in Live) => k = l

Approved == {p \in Payments : candidates[p] = "AUTO_APPROVED"}

\* The links one plan approves fit, together with what the day had already
\* committed, into the daily cap ("a batch of individually-fine actions must
\* not collectively exceed the daily cap").
PlanFitsTheDay ==
  Approved # {} /\ strategy.type \in FinancialActions =>
    base + Total(AmountOf, Approved) <= policy.maxDaily

\* At every point of the plan the running total is what the day had committed
\* and what the plan has approved so far, each payment once, and it fits.
RunningTotalIsTrue ==
  /\ base \in Nat
  /\ running = base + Total(AmountOf, Approved)
  /\ Approved # {} /\ strategy.type \in FinancialActions => running <= policy.maxDaily
  /\ \A p \in left : candidates[p] = None

Permitted(k) == action[k] # None /\ action[k].decision # "BLOCKED"

\* However many incidents a payment is part of, it is permitted at most as
\* many recoveries as the merchant's limit, those that failed included.
RetriesAreBounded ==
  \A p \in Payments : Cardinality({k \in RowsOf(p) : Permitted(k)}) <= policy.maxRetries

\* A customer is not approached twice within the merchant's cooldown.
CooldownIsKept ==
  \A k, l \in Keys :
    k # l /\ k[2] = l[2] /\ Permitted(k) /\ Permitted(l) =>
      \/ action[k].proposedAt - action[l].proposedAt >= policy.cooldown
      \/ action[l].proposedAt - action[k].proposedAt >= policy.cooldown

\* Why the limits hold: no row lies in the future,
HistoryIsPast ==
  planNow <= now /\ \A k \in Keys : action[k] # None => action[k].proposedAt <= now

\* what build_plan read about a payment is still so when it rules on it,
FactsAreCurrent ==
  pc \in {"total", "rule"} =>
    /\ left \subseteq DOMAIN facts
    /\ \A p \in DOMAIN facts :
         facts[p].prior = PriorAttempts(p) /\ facts[p].last = LastAttempt(p)

Recoverable(p) == candidates[p] \in {"AUTO_APPROVED", "REQUIRES_APPROVAL"}

\* and what it permitted is still within the limits when it is persisted.
CandidatesFitTheHistory ==
  \A p \in Payments :
    /\ candidates[p] # None => pc \in {"rule", "persist"} /\ strategy.type \in ActionTypes
    /\ Recoverable(p) =>
         /\ PriorAttempts(p) < policy.maxRetries
         /\ \A k \in RowsOf(p) : planNow - action[k].proposedAt >= policy.cooldown

\* The limits of a merchant, with the facts that make them inductive.
LimitsHold ==
  /\ TypeOK /\ HistoryIsPast
  /\ FactsAreCurrent /\ CandidatesFitTheHistory
  /\ OneLivePerPayment /\ RetriesAreBounded /\ CooldownIsKept

Inductive == LimitsHold /\ RunningTotalIsTrue

\* Nothing is done about an incident the agent judged not worth recovering
\* ("the planner must honour it").
DeclineIsHonoured ==
  \A i \in declined, p \in Payments : action[<<i, p>>] = None
=============================================================================
