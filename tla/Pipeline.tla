------------------------------ MODULE Pipeline ------------------------------
(***************************************************************************)
(* The batch run that ties the system together (run_batch in               *)
(* backend/pipeline.py): detect, investigate and propose through the       *)
(* agents' harness, plan, execute, resolve what was left pending, and pull *)
(* the outcomes.  It is started again and again, an exception or a crash   *)
(* leaves it anywhere, and customers, approvers and webhooks act meanwhile.*)
(*                                                                         *)
(* The stages are seen from outside: what detection flags, which ruling a  *)
(* plan gives and how the executor decides are Detection, Planning and     *)
(* Executor; here is what a stage leaves for the next one and for the next *)
(* run.  There is one action for a payment, as its plan keeps it.          *)
(***************************************************************************)
EXTENDS Naturals, FiniteSetsExt

CONSTANTS
  Payments,      \* the failed payments, by the score of their action
  Incidents,
  PaymentsOf,    \* incident -> the failed payments of its hours
  Threshold,     \* incident -> failures that make these hours stand out
  AmountOf,      \* payment -> amount
  Rulings,       \* what a plan may rule, as the status of the new row
  Limit,         \* --limit: how many actions a run takes up
  PullLimit,     \* how many executions a reconciliation looks at
  Trouble,       \* bound: what may go wrong
  None,          \* no incident
  Models, SchemaRetries, Attempts, QuickRetries, Errors   \* see Harness

Troubles == {"crash", "unknown action", "dry run", "exception", "other task",
             "failed attempt"}

ASSUME PipelineAssumption ==
  /\ Payments \subseteq Nat /\ IsFiniteSet(Payments) /\ IsFiniteSet(Incidents)
  /\ PaymentsOf \in [Incidents -> SUBSET Payments]
  /\ Threshold \in [Incidents -> Nat \ {0}]
  /\ AmountOf \in [Payments -> Nat \ {0}]
  /\ Rulings \subseteq {"awaiting_approval", "approved", "closed"}
  /\ Limit \in Nat \ {0} /\ PullLimit \in Nat \ {0}
  /\ Trouble \subseteq Troubles
  /\ None \notin Incidents

VARIABLES
  pc, at, todo,            \* next stage, its incident, rows still to take up
  investigated, proposed,  \* incidents with a stored investigation, strategy
  unknown,                 \* incidents whose strategy names no action there is
  action,                  \* recovery_actions.status
  exec,                    \* execution_records.status
  older,                   \* the executions that were there before this one
  link,                    \* what Razorpay holds for the action's key
  ledger,                  \* recovery_outcomes: paid, or not converted
  healthy, call, round, model, attempt, cause   \* the agent's call, see Harness

H == INSTANCE Harness

ASSUME HarnessAssumption == H!ConstantsOK

runVars == <<pc, at, todo>>
storeVars == <<investigated, proposed, unknown>>
callVars == <<healthy, call, round, model, attempt, cause>>
execVars == <<exec, older>>
moneyVars == <<execVars, link, ledger>>
vars == <<runVars, storeVars, action, moneyVars, callVars>>

TypeOK ==
  /\ pc \in {"idle", "detect", "investigate", "propose", "plan", "select",
             "execute", "resolve"}
  /\ at \in Incidents \cup {None}
  /\ todo \subseteq Payments
  /\ investigated \subseteq Incidents /\ proposed \subseteq investigated
  /\ unknown \subseteq proposed
  /\ action \in [Payments -> {"none", "awaiting_approval", "approved", "closed"}]
  /\ exec \in [Payments -> {"none", "pending", "succeeded", "failed"}]
  /\ older \in [Payments -> SUBSET Payments]
  /\ link \in [Payments -> {"none", "open", "paid", "expired"}]
  /\ ledger \in [Payments -> {"none", "paid", "lost"}]
  /\ H!TypeOK

Init ==
  /\ pc = "idle" /\ at = None /\ todo = {}
  /\ investigated = {} /\ proposed = {} /\ unknown = {}
  /\ action = [p \in Payments |-> "none"]
  /\ exec = [p \in Payments |-> "none"]
  /\ older = [p \in Payments |-> {}]
  /\ link = [p \in Payments |-> "none"]
  /\ ledger = [p \in Payments |-> "none"]
  /\ H!Init

-----------------------------------------------------------------------------
(* Detection.  A payment recorded as paid is captured and fails no more.   *)

Failed(i) == {p \in PaymentsOf[i] : ledger[p] # "paid"}

AtRisk(i) == MapThenSumSet(LAMBDA p : AmountOf[p], Failed(i))

Detected == {i \in Incidents : Cardinality(Failed(i)) >= Threshold[i]}

StartRun ==
  /\ pc = "idle"
  /\ pc' = "detect"
  /\ UNCHANGED <<at, todo, storeVars, action, moneyVars, callVars>>

NothingDetected ==
  /\ pc = "detect" /\ Detected = {}
  /\ pc' = "idle"
  /\ UNCHANGED <<at, todo, storeVars, action, moneyVars, callVars>>

\* Only the incident with the most money at risk is worked on.
Detect ==
  /\ pc = "detect"
  /\ \E i \in Detected :
       /\ \A j \in Detected : AtRisk(j) <= AtRisk(i)
       /\ at' = i
  /\ pc' = "investigate"
  /\ UNCHANGED <<todo, storeVars, action, moneyVars, callVars>>

-----------------------------------------------------------------------------
(* The two agents.  An answer that is stored is used again.                *)

AskAgent ==
  /\ \/ pc = "investigate" /\ at \notin investigated
     \/ pc = "propose" /\ at \notin proposed
  /\ H!Ask
  /\ UNCHANGED <<runVars, storeVars, action, moneyVars>>

AgentAnswering ==
  /\ H!Answering
  /\ UNCHANGED <<runVars, storeVars, action, moneyVars>>

\* The answer is used and not stored.
MutantInvestigate ==
  /\ pc = "investigate"
  /\ \/ at \in investigated /\ UNCHANGED <<investigated, callVars>>
     \/ call = "answered" /\ H!Return /\ UNCHANGED investigated
  /\ pc' = "propose"
  /\ UNCHANGED <<at, todo, proposed, unknown, action, moneyVars>>

Investigate ==
  /\ pc = "investigate"
  /\ \/ at \in investigated /\ UNCHANGED <<investigated, callVars>>
     \/ /\ call = "answered"
        /\ investigated' = investigated \cup {at}
        /\ H!Return
  /\ pc' = "propose"
  /\ UNCHANGED <<at, todo, proposed, unknown, action, moneyVars>>

Propose ==
  /\ pc = "propose"
  /\ \/ at \in proposed /\ UNCHANGED <<proposed, unknown, callVars>>
     \/ /\ call = "answered"
        /\ proposed' = proposed \cup {at}
        /\ \/ UNCHANGED unknown
           \/ "unknown action" \in Trouble /\ unknown' = unknown \cup {at}
        /\ H!Return
  /\ pc' = "plan"
  /\ UNCHANGED <<at, todo, investigated, action, moneyVars>>

\* The harness raised: nothing catches it, and the run is over.
AgentRaises ==
  /\ call = "raised"
  /\ H!Return
  /\ pc' = "idle" /\ at' = None
  /\ UNCHANGED <<todo, storeVars, action, moneyVars>>

-----------------------------------------------------------------------------
(* Planning.  Each failed payment without a row, of whichever incident,    *)
(* may get one if it matches the strategy; a dry run ends here.            *)

Unplanned == {p \in Payments : ledger[p] # "paid" /\ action[p] = "none"}

PlanRows ==
  \E planned \in SUBSET Unplanned :
    /\ at \in unknown => planned = {}
    /\ \E rows \in [planned -> Rulings] :
         action' = [p \in Payments |-> IF p \in planned THEN rows[p] ELSE action[p]]

Plan ==
  /\ pc = "plan"
  /\ PlanRows
  /\ pc' = "select"
  /\ UNCHANGED <<at, todo, storeVars, moneyVars, callVars>>

DryRun ==
  /\ pc = "plan" /\ "dry run" \in Trouble
  /\ PlanRows
  /\ pc' = "idle" /\ at' = None
  /\ UNCHANGED <<todo, storeVars, moneyVars, callVars>>

\* A payment matches a strategy with an unknown action (Planning!UnknownActionRaises).
PlanRaises ==
  /\ pc = "plan" /\ at \in unknown
  /\ \E p \in Payments : ledger[p] # "paid"
  /\ pc' = "idle" /\ at' = None
  /\ UNCHANGED <<todo, storeVars, action, moneyVars, callVars>>

-----------------------------------------------------------------------------
(* Execution.  Approved actions of every incident of the merchant, best    *)
(* score first, as many as the limit allows.                               *)

Approved == {p \in Payments : action[p] = "approved"}

Select ==
  /\ pc = "select"
  /\ todo' = {p \in Approved : Cardinality({q \in Approved : q <= p}) <= Limit}
  /\ pc' = "execute"
  /\ UNCHANGED <<at, storeVars, action, moneyVars, callVars>>

\* The execution of p is inserted; its request is answered with a link, left in
\* doubt or rejected.
Inserted(p, status) ==
  /\ exec' = [exec EXCEPT ![p] = status]
  /\ older' = [older EXCEPT ![p] = {q \in Payments : exec[q] # "none"}]

LinkMade(p) == link' = IF link[p] = "none" THEN [link EXCEPT ![p] = "open"] ELSE link

Closes(p) == action' = [action EXCEPT ![p] = "closed"]

Claims(p) ==
  /\ action[p] = "approved" /\ exec[p] = "none"
  /\ Closes(p)
  /\ \/ UNCHANGED <<execVars, link>>              \* blocked by policy
     \/ Inserted(p, "succeeded") /\ LinkMade(p)
     \/ Inserted(p, "pending") /\ (LinkMade(p) \/ UNCHANGED link)
     \/ Inserted(p, "failed") /\ UNCHANGED link

\* An idempotent hit, or refused: no longer approved, or to be approved now.
Passes == UNCHANGED <<action, execVars, link>>

TakesBest(p) == pc = "execute" /\ p \in todo /\ \A q \in todo : p <= q

ExecuteNext(p) ==
  /\ TakesBest(p)
  /\ Claims(p) \/ Passes
  /\ todo' = todo \ {p}
  /\ UNCHANGED <<pc, at, storeVars, ledger, callVars>>

EndRun == pc' = "idle" /\ at' = None /\ todo' = {}

\* Only ExecutionRefused is caught.  Any other exception, and a crash, ends the
\* run: before the claim or after it, before the action is marked or after it.
ExecuteRaises(p) ==
  /\ TakesBest(p) /\ "exception" \in Trouble
  /\ \/ Passes
     \/ /\ action[p] = "approved" /\ exec[p] = "none"
        /\ Inserted(p, "pending")
        /\ \/ UNCHANGED <<action, link>>
           \/ Closes(p) /\ (LinkMade(p) \/ UNCHANGED link)
  /\ EndRun
  /\ UNCHANGED <<storeVars, ledger, callVars>>

-----------------------------------------------------------------------------
(* Resolution of what earlier runs, too, left pending.                     *)

\* Only executions of actions marked as executing.
MutantLeftPending == {p \in Payments : exec[p] = "pending" /\ action[p] = "closed"}

LeftPending == {p \in Payments : exec[p] = "pending"}

SelectPending ==
  /\ pc = "execute" /\ todo = {}
  /\ todo' = LeftPending
  /\ pc' = "resolve"
  /\ UNCHANGED <<at, storeVars, action, moneyVars, callVars>>

TakesOldest(p) == pc = "resolve" /\ p \in todo /\ older[p] \cap todo = {}

\* An execution that was settled meanwhile is left as it is.
ResolveSkips(p) ==
  /\ TakesOldest(p) /\ exec[p] # "pending"
  /\ todo' = todo \ {p}
  /\ UNCHANGED <<pc, at, storeVars, action, moneyVars, callVars>>

\* The link is found or created now, or the request is rejected.
ResolveSettles(p) ==
  /\ TakesOldest(p) /\ exec[p] = "pending"
  /\ Closes(p)
  /\ \/ exec' = [exec EXCEPT ![p] = "succeeded"] /\ LinkMade(p)
     \/ exec' = [exec EXCEPT ![p] = "failed"] /\ UNCHANGED link
  /\ todo' = todo \ {p}
  /\ UNCHANGED <<pc, at, storeVars, older, ledger, callVars>>

\* A retryable error, which may again have left a link; or the link cannot be
\* found.
ResolveStaysPending(p) ==
  /\ TakesOldest(p) /\ exec[p] = "pending"
  /\ LinkMade(p) \/ UNCHANGED link
  /\ todo' = todo \ {p}
  /\ UNCHANGED <<pc, at, storeVars, action, execVars, ledger, callVars>>

\* Looking for the link raises: the run is over.
ResolveRaises(p) ==
  /\ TakesOldest(p) /\ exec[p] = "pending" /\ link[p] # "none"
  /\ EndRun
  /\ UNCHANGED <<storeVars, action, moneyVars, callVars>>

-----------------------------------------------------------------------------
(* Reconciliation, and what the other actors do.                           *)

\* Executions with any outcome are left out, also one of a failed attempt.
Unrecorded == {p \in Payments : exec[p] = "succeeded" /\ ledger[p] = "none"}

\* The unrecorded executions a reconciliation takes before p.
Ahead(p) == older[p] \cap Unrecorded

Closed == {p \in Payments : link[p] \in {"paid", "expired"}}

\* The limit is applied before executions with an outcome are left out.
MutantReconciled ==
  {p \in Unrecorded \cap Closed :
     Cardinality({q \in older[p] : exec[q] = "succeeded"}) < PullLimit}

Reconciled == {p \in Unrecorded \cap Closed : Cardinality(Ahead(p)) < PullLimit}

OutcomeOf(p) == IF link[p] = "paid" THEN "paid" ELSE "lost"

\* The links Razorpay answers for are recorded.
Pull(answered) ==
  /\ pc = "resolve" /\ todo = {}
  /\ ledger' = [p \in Payments |->
       IF p \in answered \cap Reconciled THEN OutcomeOf(p) ELSE ledger[p]]
  /\ EndRun
  /\ UNCHANGED <<storeVars, action, execVars, link, callVars>>

PullFor(p) == \E answered \in SUBSET Reconciled : p \in answered /\ Pull(answered)

Reconcile == \E answered \in SUBSET Reconciled : Pull(answered)

Webhook(p) ==
  /\ exec[p] # "none" /\ ledger[p] = "none"
  /\ \/ p \in Closed /\ ledger' = [ledger EXCEPT ![p] = OutcomeOf(p)]
     \/ /\ "failed attempt" \in Trouble /\ link[p] # "none"
        /\ ledger' = [ledger EXCEPT ![p] = "lost"]
  /\ UNCHANGED <<runVars, storeVars, action, execVars, link, callVars>>

LinkCloses(p) ==
  /\ link[p] = "open"
  /\ link' \in {[link EXCEPT ![p] = s] : s \in {"paid", "expired"}}
  /\ UNCHANGED <<runVars, storeVars, action, execVars, ledger, callVars>>

\* A request that timed out may still arrive.
LateLink(p) ==
  /\ exec[p] \in {"pending", "failed"} /\ link[p] = "none"
  /\ LinkMade(p)
  /\ UNCHANGED <<runVars, storeVars, action, execVars, ledger, callVars>>

HumanDecides(p) ==
  /\ action[p] = "awaiting_approval"
  /\ action' \in {[action EXCEPT ![p] = s] : s \in {"approved", "closed"}}
  /\ UNCHANGED <<runVars, storeVars, moneyVars, callVars>>

\* The API executes what a human approved, and its call and the run's may settle
\* one execution twice.
OtherTask(p) ==
  /\ "other task" \in Trouble
  /\ \/ Claims(p)
     \/ /\ exec[p] # "none"
        /\ Closes(p)
        /\ \/ exec' = [exec EXCEPT ![p] = "failed"]
           \/ link[p] # "none" /\ exec' = [exec EXCEPT ![p] = "succeeded"]
        /\ UNCHANGED <<older, link>>
  /\ UNCHANGED <<runVars, storeVars, ledger, callVars>>

Crash ==
  /\ pc # "idle" /\ "crash" \in Trouble
  /\ EndRun
  /\ call' = "idle" /\ round' = 1 /\ model' = 1 /\ attempt' = 1 /\ cause' = "none"
  /\ healthy' = {}
  /\ UNCHANGED <<storeVars, action, moneyVars>>

Agents == AskAgent \/ AgentAnswering \/ Investigate \/ Propose \/ AgentRaises

Run ==
  \/ StartRun \/ NothingDetected \/ Detect \/ Agents
  \/ Plan \/ DryRun \/ PlanRaises \/ Select
  \/ \E p \in Payments :
       \/ ExecuteNext(p) \/ ExecuteRaises(p)
       \/ ResolveSkips(p) \/ ResolveSettles(p)
       \/ ResolveStaysPending(p) \/ ResolveRaises(p)
  \/ SelectPending \/ Reconcile

Environment ==
  \/ Crash
  \/ \E p \in Payments :
       LinkCloses(p) \/ LateLink(p) \/ Webhook(p) \/ HumanDecides(p) \/ OtherTask(p)

Next == Run \/ Environment

Spec == Init /\ [][Next]_vars

\* The run is started again and again and goes on, a request to a model ending
\* with its timeout (REQUEST_TIMEOUT_SECONDS); the resolver's question and the
\* fetch of a link that are asked again and again are answered some time.  How far
\* runs come is not assumed.
Fairness ==
  /\ WF_vars(Run)
  /\ \A p \in Payments : SF_vars(ResolveSettles(p))
  /\ \A p \in Payments : SF_vars(PullFor(p))

FairSpec == Spec /\ Fairness

-----------------------------------------------------------------------------
(* Properties.                                                             *)

\* The harness keeps its promise in every run: a call is not given up because
\* models are exhausted, busy or missing while one of the chain works.
HealthyModelIsReached == H!HealthyModelIsReached

\* A call of an agent ends, and with it the stage of the run that waits for it.
CallEnds == H!CallEnds

\* An execution left ambiguous, by an error or by a crash anywhere in the
\* executor, is settled by a later run ("Leaving them pending would understate
\* the batch; guessing would either fabricate revenue or invite a duplicate
\* charge"), in whichever incident it is and whatever became of that incident,
\* as long as runs keep coming to their sixth stage.
PendingSettles ==
  []<>(pc = "resolve") => \A p \in Payments : exec[p] = "pending" ~> exec[p] # "pending"

\* What a customer paid through a link the executor has on record gets its outcome
\* although every webhook about it may be lost and runs die anywhere: a run pulls
\* it, whichever incident it works on, as long as runs keep coming to stage 6b
\* and fewer executions are ahead of it than a reconciliation looks at.
PaidIsPulled ==
  \A p \in Payments :
    (/\ []<>(pc = "resolve" /\ todo = {})
     /\ <>[](Cardinality(Ahead(p)) < PullLimit))
      => (link[p] = "paid" /\ exec[p] = "succeeded")
           ~> (ledger[p] # "none" \/ exec[p] # "succeeded")

\* The agents are not given up for ever.
AgentsAnswer == []<>(call = "raised") => []<>(call = "answered")

\* The same without the exceptions: "Webhooks must never be assumed to arrive.
\* [...] Pull the authoritative answer too." (pipeline.py, step 6b)
PaidIsRecorded ==
  AgentsAnswer =>
    \A p \in Payments :
      (link[p] = "paid" /\ exec[p] = "succeeded")
        ~> (ledger[p] = "paid" \/ exec[p] # "succeeded")
=============================================================================
