--------------------------- MODULE PipelineProofs ---------------------------
(***************************************************************************)
(* Proofs about the batch run, for any payments, incidents and errors and  *)
(* any chain of models and budgets.                                        *)
(***************************************************************************)
EXTENDS Pipeline, TLAPS

\* Whatever model of the chain works, the call has not gone past it.
NotYetPassed ==
  /\ call = "idle" => model = 1
  /\ call \in {"idle", "asking"} => \A m \in healthy : model <= m

USE DEF H!Chain

\* The part of the invariant the call is about.
CallOK == H!TypeOK /\ NotYetPassed /\ HealthyModelIsReached

USE DEF CallOK, NotYetPassed, HealthyModelIsReached, H!HealthyModelIsReached, H!TypeOK

\* Giving up keeps it, if no model works or the models are not to blame.
LEMMA RaiseKeeps ==
  ASSUME NEW why \in {"schema", "unknown", "exhausted"}, CallOK, call = "asking",
         healthy = {} \/ why # "exhausted", H!Raise(why)
  PROVE  CallOK'
  BY DEF H!Raise

\* Going on to the next model, which is done only when this one does not work.
LEMMA NextModelKeeps ==
  ASSUME CallOK, call = "asking", model \notin healthy, H!NextModel
  PROVE  CallOK'
<1> USE HarnessAssumption DEF H!ConstantsOK
<1>1. CASE model < Models /\ model' = model + 1 /\ attempt' = 1
           /\ UNCHANGED <<healthy, call, round, cause>>
  <2>1. H!TypeOK' /\ HealthyModelIsReached'
    BY <1>1
  <2>2. NotYetPassed'
    BY <1>1
  <2> QED
    BY <2>1, <2>2
<1>2. CASE model = Models /\ H!Raise("exhausted")
  <2>1. healthy = {}
    BY <1>2
  <2> QED
    BY <1>2, <2>1, RaiseKeeps
<1> QED
  BY <1>1, <1>2 DEF H!NextModel

\* Every step of the harness keeps it.
LEMMA AnsweringKeeps ==
  ASSUME CallOK, H!Answering
  PROVE  CallOK'
<1> USE HarnessAssumption DEF H!ConstantsOK
<1>1. CASE H!SubmitsResult
  BY <1>1 DEF H!SubmitsResult
<1>2. CASE H!SubmitsNothing
  <2>1. CASE round < SchemaRetries /\ round' = round + 1 /\ model' = 1 /\ attempt' = 1
             /\ UNCHANGED <<healthy, call, cause>>
    <3>1. H!TypeOK' /\ HealthyModelIsReached'
      BY <2>1
    <3>2. NotYetPassed'
      BY <2>1
    <3> QED
      BY <3>1, <3>2
  <2>2. CASE H!Raise("schema")
    BY <1>2, <2>2, RaiseKeeps DEF H!SubmitsNothing
  <2> QED
    BY <1>2, <2>1, <2>2 DEF H!SubmitsNothing
<1>3. ASSUME NEW e \in Errors, H!Fails(e)
      PROVE  CallOK'
  <2>1. call = "asking" /\ model \notin healthy
    BY <1>3 DEF H!Fails
  <2>2. CASE H!NextModel
    BY <2>1, <2>2, NextModelKeeps
  <2>3. CASE H!Retry /\ attempt < Attempts
    BY <2>1, <2>3 DEF H!Retry
  <2>4. CASE H!Raise("unknown")
    BY <2>1, <2>4, RaiseKeeps
  <2> QED
    BY <1>3, <2>2, <2>3, <2>4 DEF H!Fails
<1> QED
  BY <1>1, <1>2, <1>3 DEF H!Answering

LEMMA ReturnKeeps ==
  ASSUME CallOK, H!Return
  PROVE  CallOK'
  BY HarnessAssumption DEF H!ConstantsOK, H!Return

\* The call under every step of the run and of its environment.
LEMMA CallStep ==
  ASSUME CallOK, [Next]_vars
  PROVE  CallOK'
<1>1. CASE UNCHANGED callVars
  BY <1>1 DEF callVars
<1>2. CASE H!Ask
  BY <1>2, HarnessAssumption DEF H!Ask, H!ConstantsOK
<1>3. CASE H!Answering
  BY <1>3, AnsweringKeeps
<1>4. CASE H!Return
  BY <1>4, ReturnKeeps
<1>5. CASE Crash
  BY <1>5, HarnessAssumption DEF Crash, H!ConstantsOK
<1> QED
  BY <1>1, <1>2, <1>3, <1>4, <1>5
  DEF Next, Run, Environment, Agents, StartRun, NothingDetected, Detect, AskAgent,
      AgentAnswering, Investigate, Propose, AgentRaises, Plan, DryRun, PlanRaises, Select,
      ExecuteNext, ExecuteRaises, ResolveSkips, ResolveSettles, ResolveStaysPending,
      ResolveRaises, SelectPending, Reconcile, Pull, LinkCloses, LateLink, Webhook,
      HumanDecides, OtherTask, Crash, vars

-----------------------------------------------------------------------------
(* The rest of the state.                                                  *)

Stages == {"idle", "detect", "investigate", "propose", "plan", "select",
           "execute", "resolve"}

RunOK ==
  /\ pc \in Stages
  /\ at \in Incidents \cup {None}
  /\ todo \subseteq Payments

\* A strategy is stored for an investigated incident only; a run that is past
\* the investigation works on such an incident.
StoreOK ==
  /\ investigated \subseteq Incidents
  /\ proposed \subseteq investigated
  /\ unknown \subseteq proposed
  /\ pc \in {"investigate", "propose"} => at \in Incidents
  /\ pc = "propose" => at \in investigated

RowsOK ==
  /\ action \in [Payments -> {"none", "awaiting_approval", "approved", "closed"}]
  /\ exec \in [Payments -> {"none", "pending", "succeeded", "failed"}]
  /\ older \in [Payments -> SUBSET Payments]
  /\ link \in [Payments -> {"none", "open", "paid", "expired"}]
  /\ ledger \in [Payments -> {"none", "paid", "lost"}]

IInv == RunOK /\ StoreOK /\ RowsOK /\ CallOK

LEMMA InitIsGood == Init => IInv
<1> SUFFICES ASSUME Init PROVE IInv
  OBVIOUS
<1> USE PipelineAssumption, HarnessAssumption DEF Init
<1>1. RunOK /\ StoreOK
  BY DEF RunOK, Stages, StoreOK
<1>2. RowsOK
  BY DEF RowsOK
<1>3. CallOK
  BY DEF H!Init, H!Idle, H!ConstantsOK
<1> QED
  BY <1>1, <1>2, <1>3 DEF IInv

LEMMA RunStep ==
  ASSUME RunOK, RowsOK, [Next]_vars
  PROVE  RunOK'
<1> USE PipelineAssumption DEF RunOK, Stages
<1>1. CASE UNCHANGED vars
  BY <1>1 DEF vars, runVars
<1>2. CASE StartRun \/ NothingDetected \/ Detect
  BY <1>2 DEF StartRun, NothingDetected, Detect, Detected
<1>3. CASE Agents
  BY <1>3 DEF Agents, AskAgent, AgentAnswering, Investigate, Propose, AgentRaises, runVars
<1>4. CASE Plan \/ DryRun \/ PlanRaises
  BY <1>4 DEF Plan, DryRun, PlanRaises
<1>5. CASE Select \/ SelectPending \/ Reconcile
  BY <1>5 DEF Select, Approved, SelectPending, LeftPending, Reconcile, Pull, EndRun
<1>6. ASSUME NEW p \in Payments,
             \/ ExecuteNext(p) \/ ExecuteRaises(p) \/ ResolveSkips(p)
             \/ ResolveSettles(p) \/ ResolveStaysPending(p) \/ ResolveRaises(p)
      PROVE  RunOK'
  BY <1>6 DEF ExecuteNext, ExecuteRaises, ResolveSkips, ResolveSettles, ResolveStaysPending,
       ResolveRaises, EndRun
<1>7. CASE Crash
  BY <1>7 DEF Crash, EndRun
<1>8. ASSUME NEW p \in Payments,
             LinkCloses(p) \/ LateLink(p) \/ Webhook(p) \/ HumanDecides(p) \/ OtherTask(p)
      PROVE  RunOK'
  BY <1>8 DEF LinkCloses, LateLink, Webhook, HumanDecides, OtherTask, runVars
<1> QED
  BY <1>1, <1>2, <1>3, <1>4, <1>5, <1>6, <1>7, <1>8 DEF Next, Run, Environment

LEMMA StoreStep ==
  ASSUME RunOK, StoreOK, [Next]_vars
  PROVE  StoreOK'
<1> USE PipelineAssumption DEF StoreOK
<1>1. CASE UNCHANGED vars
  BY <1>1 DEF vars, runVars, storeVars
<1>2. CASE StartRun \/ NothingDetected \/ Detect
  BY <1>2 DEF StartRun, NothingDetected, Detect, Detected, storeVars
<1>3. CASE Agents
  BY <1>3 DEF Agents, AskAgent, AgentAnswering, Investigate, Propose, AgentRaises,
       runVars, storeVars
<1>4. CASE Plan \/ DryRun \/ PlanRaises \/ Select \/ SelectPending \/ Reconcile
  BY <1>4 DEF Plan, DryRun, PlanRaises, Select, SelectPending, Reconcile, Pull, EndRun, storeVars
<1>5. ASSUME NEW p \in Payments,
             \/ ExecuteNext(p) \/ ExecuteRaises(p) \/ ResolveSkips(p)
             \/ ResolveSettles(p) \/ ResolveStaysPending(p) \/ ResolveRaises(p)
      PROVE  StoreOK'
  BY <1>5 DEF ExecuteNext, ExecuteRaises, ResolveSkips, ResolveSettles, ResolveStaysPending,
       ResolveRaises, EndRun, storeVars
<1>6. CASE Crash
  BY <1>6 DEF Crash, EndRun, storeVars
<1>7. ASSUME NEW p \in Payments,
             LinkCloses(p) \/ LateLink(p) \/ Webhook(p) \/ HumanDecides(p) \/ OtherTask(p)
      PROVE  StoreOK'
  BY <1>7 DEF LinkCloses, LateLink, Webhook, HumanDecides, OtherTask, runVars, storeVars
<1> QED
  BY <1>1, <1>2, <1>3, <1>4, <1>5, <1>6, <1>7 DEF Next, Run, Environment

\* What a claim writes, in a run or in another task.
LEMMA ClaimsKeepRows ==
  ASSUME RowsOK, NEW p \in Payments, Claims(p), UNCHANGED ledger
  PROVE  RowsOK'
<1> USE DEF RowsOK
<1>1. action' \in [Payments -> {"none", "awaiting_approval", "approved", "closed"}]
  BY DEF Claims, Closes
<1>2. /\ exec' \in [Payments -> {"none", "pending", "succeeded", "failed"}]
      /\ older' \in [Payments -> SUBSET Payments]
  BY DEF Claims, Inserted, execVars
<1>3. link' \in [Payments -> {"none", "open", "paid", "expired"}]
  BY DEF Claims, LinkMade
<1> QED
  BY <1>1, <1>2, <1>3

LEMMA RowsStep ==
  ASSUME RunOK, RowsOK, [Next]_vars
  PROVE  RowsOK'
<1> USE PipelineAssumption DEF RowsOK
<1>1. CASE UNCHANGED vars
  BY <1>1 DEF vars, moneyVars, execVars
<1>2. CASE \/ StartRun \/ NothingDetected \/ Detect \/ Agents \/ PlanRaises
           \/ Select \/ SelectPending \/ Crash
  BY <1>2 DEF StartRun, NothingDetected, Detect, Agents, AskAgent, AgentAnswering,
       Investigate, Propose, AgentRaises, PlanRaises, Select, SelectPending, Crash,
       moneyVars, execVars
<1>3. CASE Plan \/ DryRun
  <2>1. PICK planned \in SUBSET Unplanned : \E rows \in [planned -> Rulings] :
          action' = [p \in Payments |-> IF p \in planned THEN rows[p] ELSE action[p]]
    BY <1>3 DEF Plan, DryRun, PlanRows
  <2>2. PICK rows \in [planned -> Rulings] :
          action' = [p \in Payments |-> IF p \in planned THEN rows[p] ELSE action[p]]
    BY <2>1
  <2> QED
    BY <1>3, <2>2 DEF Plan, DryRun, moneyVars, execVars
<1>4. CASE Reconcile
  <2>1. PICK answered : Pull(answered)
    BY <1>4 DEF Reconcile
  <2>2. \A p \in Payments : OutcomeOf(p) \in {"paid", "lost"}
    BY DEF OutcomeOf
  <2> QED
    BY <2>1, <2>2 DEF Pull, execVars
<1>5. ASSUME NEW p \in Payments, ExecuteNext(p)
      PROVE  RowsOK'
  BY <1>5, ClaimsKeepRows DEF ExecuteNext, Passes, execVars
<1>6. ASSUME NEW p \in Payments, ExecuteRaises(p)
      PROVE  RowsOK'
  BY <1>6 DEF ExecuteRaises, Passes, Inserted, Closes, LinkMade, execVars
<1>7. ASSUME NEW p \in Payments,
             ResolveSkips(p) \/ ResolveSettles(p) \/ ResolveStaysPending(p) \/ ResolveRaises(p)
      PROVE  RowsOK'
  BY <1>7 DEF ResolveSkips, ResolveSettles, ResolveStaysPending, ResolveRaises, Closes,
       LinkMade, moneyVars, execVars
<1>8. ASSUME NEW p \in Payments, OtherTask(p)
      PROVE  RowsOK'
  <2>1. CASE Claims(p)
    BY <1>8, <2>1, ClaimsKeepRows DEF OtherTask
  <2>2. CASE ~Claims(p)
    <3>1. /\ action' = [action EXCEPT ![p] = "closed"]
          /\ \/ exec' = [exec EXCEPT ![p] = "failed"]
             \/ exec' = [exec EXCEPT ![p] = "succeeded"]
          /\ UNCHANGED <<older, link, ledger>>
      BY <1>8, <2>2 DEF OtherTask, Closes
    <3> QED
      BY <3>1
  <2> QED
    BY <2>1, <2>2
<1>9. ASSUME NEW p \in Payments, LinkCloses(p) \/ LateLink(p) \/ HumanDecides(p) \/ Webhook(p)
      PROVE  RowsOK'
  BY <1>9 DEF LinkCloses, LateLink, LinkMade, HumanDecides, Webhook, OutcomeOf, moneyVars,
       execVars
<1> QED
  BY <1>1, <1>2, <1>3, <1>4, <1>5, <1>6, <1>7, <1>8, <1>9 DEF Next, Run, Environment

LEMMA InductiveHolds == Spec => []IInv
<1>1. IInv /\ [Next]_vars => IInv'
  BY CallStep, RunStep, StoreStep, RowsStep DEF IInv
<1> QED
  BY InitIsGood, <1>1, PTL DEF Spec

\* The variables keep their types; above all, a strategy is stored only for an
\* incident that has been investigated, across crashes and calls given up.
THEOREM TypeCorrect == Spec => []TypeOK
<1>1. IInv => TypeOK
  BY DEF IInv, TypeOK, RunOK, Stages, StoreOK, RowsOK
<1> QED
  BY InductiveHolds, <1>1, PTL

\* No call of an agent is given up because models are exhausted, busy or missing
\* while one of the chain works, for every chain, budget and mix of errors.
THEOREM ChainIsExhausted == Spec => []HealthyModelIsReached
<1>1. IInv => HealthyModelIsReached
  BY DEF IInv
<1> QED
  BY InductiveHolds, <1>1, PTL
=============================================================================
