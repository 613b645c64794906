------------------------------ MODULE Outcome -------------------------------
(***************************************************************************)
(* From a paid link to recovered revenue: webhook ingest                   *)
(* (backend/integrations/ingest.py, backend/routes_webhooks.py), the       *)
(* outcome engine (backend/recovery/outcome.py) and reconciliation         *)
(* (backend/recovery/reconcile.py), which all write the outcomes of one    *)
(* incident's executions.                                                  *)
(*                                                                         *)
(* Every SQL statement commits by itself; pc[w] is the next one of task w. *)
(* Planning, approvals and the executor are the environment here: of their *)
(* rows only what this module reads is kept, which actions are live and    *)
(* which executions succeeded, and both change at any time, as races of    *)
(* the executor change them.  An action has one execution, so an           *)
(* execution's id stands for its action and its payment too.  Webhooks of  *)
(* other traffic match no execution and change nothing but the event table.*)
(***************************************************************************)
EXTENDS Integers, FiniteSetsExt

CONSTANTS
  Executions,       \* ids of execution_records rows, in order of creation
  Amounts,          \* what a customer may pay
  Workers,          \* concurrent tasks
  Limit,            \* rows one reconciliation looks at
  AttemptsMayFail,  \* a payment attempt on an open link may fail
  Replayed,         \* bound: event ids the development endpoint is given
  MaxCrashes,       \* bound on crashes
  None              \* no outcome, no job

ASSUME ExecutionsAssumption == Executions \subseteq Nat

ASSUME AmountsAssumption == Amounts \subseteq Nat \ {0}

ASSUME BoundsAssumption ==
  Limit \in Nat \ {0} /\ MaxCrashes \in Nat /\ AttemptsMayFail \in BOOLEAN

SuccessEvents == {"payment_link.paid", "payment.captured"}

FailureEvents == {"payment_link.expired", "payment.failed"}

TrustedSources == {"razorpay", "razorpay_api"}

\* A webhook carries its event type and the reference_id of the link.
Events == [type : SuccessEvents \cup FailureEvents, execution : Executions]

\* A pulled answer is stored under an id of its own.
PulledId(e) == [type |-> "rzp_api", execution |-> e]

EventIds == Events \cup {PulledId(e) : e \in Executions}

ASSUME ReplayedAssumption == Replayed \subseteq EventIds

VARIABLES
  \* the side of planning and the executor
  live,         \* recovery_actions approved, awaiting_approval or executing
  executed,     \* execution_records.status = succeeded, with a razorpay_ref
  \* Razorpay
  link, paid,   \* state of the link, amount the customer paid
  sent,         \* webhooks on their way: lost, late, repeated at will
  \* written by the modules modelled here
  stored,       \* payment_events.source by event id
  outcome,      \* recovery_outcomes
  captured,     \* executions whose payment is captured
  incident,     \* revenue_incidents.status
  \* the tasks
  pc, job, todo,
  crashes

executorVars == <<live, executed>>
razorpayVars == <<link, paid, sent>>
recordVars == <<stored, outcome, captured, incident>>
taskVars == <<pc, job, todo>>

vars == <<executorVars, razorpayVars, recordVars, taskVars, crashes>>

Jobs == [id : EventIds, succeeded : BOOLEAN, amount : Nat,
         source : TrustedSources \cup {"replay"}]

Outcomes == [recovered : Nat, succeeded : BOOLEAN, event : EventIds]

ASSUME NoneAssumption == None \notin Outcomes /\ None \notin Jobs

TypeOK ==
  /\ live \subseteq Executions
  /\ executed \subseteq Executions
  /\ link \in [Executions -> {"none", "open", "paid", "closed"}]
  /\ paid \in [Executions -> Nat]
  /\ sent \subseteq Events
  /\ stored \in [EventIds -> TrustedSources \cup {"replay", "none"}]
  /\ outcome \in [Executions -> Outcomes \cup {None}]
  /\ captured \subseteq Executions
  /\ incident \in {"recovering", "resolved"}
  /\ pc \in [Workers -> {"idle", "fetch", "store", "insert", "capture", "resolve"}]
  /\ job \in [Workers -> Jobs \cup {None}]
  /\ todo \in [Workers -> SUBSET Executions]
  /\ crashes \in Nat

Init ==
  /\ live = {}
  /\ executed = {}
  /\ link = [e \in Executions |-> "none"]
  /\ paid = [e \in Executions |-> 0]
  /\ sent = {}
  /\ stored = [i \in EventIds |-> "none"]
  /\ outcome = [e \in Executions |-> None]
  /\ captured = {}
  /\ incident = "recovering"
  /\ pc = [w \in Workers |-> "idle"]
  /\ job = [w \in Workers |-> None]
  /\ todo = [w \in Workers |-> {}]
  /\ crashes = 0

-----------------------------------------------------------------------------
(* Planning, approvals, the executor, Razorpay and its customers.          *)

\* Planning inserts an action, also into an incident that is resolved.  A
\* second call of the executor may reopen one that is over.
ActionOpens(e) ==
  /\ live' = live \cup {e}
  /\ UNCHANGED <<executed, razorpayVars, recordVars, taskVars, crashes>>

ActionEnds(e) ==
  /\ live' = live \ {e}
  /\ UNCHANGED <<executed, razorpayVars, recordVars, taskVars, crashes>>

CreateLink(e) ==
  /\ link[e] = "none"
  /\ link' = [link EXCEPT ![e] = "open"]
  /\ UNCHANGED <<executorVars, paid, sent, recordVars, taskVars, crashes>>

WriteSucceeded(e) ==
  /\ link[e] # "none"
  /\ executed' = executed \cup {e}
  /\ UNCHANGED <<live, razorpayVars, recordVars, taskVars, crashes>>

\* A call whose request came back as a duplicate overwrites a success.
WriteFailed(e) ==
  /\ executed' = executed \ {e}
  /\ UNCHANGED <<live, razorpayVars, recordVars, taskVars, crashes>>

Send(type, e) == sent' = sent \cup {[type |-> type, execution |-> e]}

Pay(e, m) ==
  /\ link[e] = "open"
  /\ link' = [link EXCEPT ![e] = "paid"]
  /\ paid' = [paid EXCEPT ![e] = m]
  /\ sent' = sent \cup [type : SuccessEvents, execution : {e}]
  /\ UNCHANGED <<executorVars, recordVars, taskVars, crashes>>

\* The link stays open: the customer may try again.
AttemptFails(e) ==
  /\ AttemptsMayFail
  /\ link[e] = "open"
  /\ Send("payment.failed", e)
  /\ UNCHANGED <<executorVars, link, paid, recordVars, taskVars, crashes>>

CloseLink(e) ==
  /\ link[e] = "open"
  /\ link' = [link EXCEPT ![e] = "closed"]
  /\ Send("payment_link.expired", e)
  /\ UNCHANGED <<executorVars, paid, recordVars, taskVars, crashes>>

-----------------------------------------------------------------------------
(* ingest_webhook: the event table deduplicates by event id.               *)

JobOn(w) == job[w].id.execution

\* The next row of a reconciliation, or the end of the call.
Return(w) ==
  /\ pc' = [pc EXCEPT ![w] = IF todo[w] = {} THEN "idle" ELSE "fetch"]
  /\ job' = [job EXCEPT ![w] = None]
  /\ UNCHANGED todo

\* An event id that is stored already is a duplicate and is not applied.
Unseen(id) == stored[id] = "none"

Ingest(w, id, success, amount, source) ==
  /\ pc[w] = "idle"
  /\ Unseen(id)
  /\ stored' = [stored EXCEPT ![id] = source]
  /\ pc' = [pc EXCEPT ![w] = "insert"]
  /\ job' = [job EXCEPT ![w] =
       [id |-> id, succeeded |-> success, amount |-> amount, source |-> source]]
  /\ UNCHANGED <<executorVars, razorpayVars, outcome, captured, incident, todo, crashes>>

ReceiveWebhook(w, ev) ==
  /\ ev \in sent
  /\ Ingest(w, ev, ev.type \in SuccessEvents, paid[ev.execution], "razorpay")

\* The development endpoint signs and ingests any payload under any id, also
\* under the id of an answer that reconciliation has not pulled yet.
ReplayWebhook(w, id, success, amount) == Ingest(w, id, success, amount, "replay")

-----------------------------------------------------------------------------
(* record_outcome.                                                         *)

MutantTrusted(w) == TRUE

Trusted(w) == job[w].source \in TrustedSources

IgnoreUntrusted(w) ==
  /\ pc[w] = "insert"
  /\ ~Trusted(w)
  /\ Return(w)
  /\ UNCHANGED <<executorVars, razorpayVars, recordVars, crashes>>

\* The later event replaces the earlier outcome.
MutantFirstOutcome(e) == TRUE

\* ON CONFLICT (execution_id) DO NOTHING
FirstOutcome(e) == outcome[e] = None

InsertOutcome(w) ==
  LET e == JobOn(w) IN
  /\ pc[w] = "insert"
  /\ Trusted(w)
  /\ FirstOutcome(e)
  /\ outcome' = [outcome EXCEPT ![e] =
       [recovered |-> IF job[w].succeeded THEN job[w].amount ELSE 0,
        succeeded |-> job[w].succeeded, event |-> job[w].id]]
  /\ pc' = [pc EXCEPT ![w] = "capture"]
  /\ UNCHANGED <<executorVars, razorpayVars, stored, captured, incident, job, todo, crashes>>

AlreadyRecorded(w) ==
  /\ pc[w] = "insert"
  /\ Trusted(w)
  /\ ~FirstOutcome(JobOn(w))
  /\ Return(w)
  /\ UNCHANGED <<executorVars, razorpayVars, recordVars, crashes>>

Capture(w) ==
  captured' = captured \cup (IF job[w].succeeded THEN {JobOn(w)} ELSE {})

UpdatePayment(w) ==
  /\ pc[w] = "capture"
  /\ Capture(w)
  /\ pc' = [pc EXCEPT ![w] = "resolve"]
  /\ UNCHANGED <<executorVars, razorpayVars, stored, outcome, incident, job, todo, crashes>>

ResolveIncident(w) ==
  /\ pc[w] = "resolve"
  /\ incident' = IF live = {} THEN "resolved" ELSE incident
  /\ Return(w)
  /\ UNCHANGED <<executorVars, razorpayVars, stored, outcome, captured, crashes>>

-----------------------------------------------------------------------------
(* reconcile_outcomes: executions without an outcome, oldest first.        *)

\* Executions whose answer was pulled once are done.
MutantUnreconciled ==
  {e \in executed : outcome[e] = None /\ stored[PulledId(e)] = "none"}

Unreconciled == {e \in executed : outcome[e] = None}

Oldest(n, S) == {e \in S : Cardinality({d \in S : d < e}) < n}

StartReconcile(w) ==
  /\ pc[w] = "idle"
  /\ Unreconciled # {}
  /\ todo' = [todo EXCEPT ![w] = Oldest(Limit, Unreconciled)]
  /\ pc' = [pc EXCEPT ![w] = "fetch"]
  /\ UNCHANGED <<executorVars, razorpayVars, recordVars, job, crashes>>

NextRow(w, e) ==
  /\ pc[w] = "fetch"
  /\ e \in todo[w]
  /\ \A d \in todo[w] : e <= d

\* The link is paid or closed; the amount is the one Razorpay reports.
FetchSettled(w, e) ==
  /\ NextRow(w, e)
  /\ link[e] \in {"paid", "closed"}
  /\ todo' = [todo EXCEPT ![w] = @ \ {e}]
  /\ pc' = [pc EXCEPT ![w] = "store"]
  /\ job' = [job EXCEPT ![w] =
       [id |-> PulledId(e), succeeded |-> link[e] = "paid",
        amount |-> paid[e], source |-> "razorpay_api"]]
  /\ UNCHANGED <<executorVars, razorpayVars, recordVars, crashes>>

SkipRow(w, e) ==
  /\ NextRow(w, e)
  /\ todo' = [todo EXCEPT ![w] = @ \ {e}]
  /\ pc' = [pc EXCEPT ![w] = IF todo[w] = {e} THEN "idle" ELSE "fetch"]
  /\ UNCHANGED <<executorVars, razorpayVars, recordVars, job, crashes>>

FetchUnsettled(w, e) == SkipRow(w, e) /\ link[e] \notin {"paid", "closed"}

FetchFails(w, e) == SkipRow(w, e)

\* The pulled answer is not kept.
MutantEvidence(w) == stored' = stored

\* A pulled answer is stored as evidence unless its id is taken, by an earlier
\* run or by a replay.
Evidence(w) ==
  stored' = [stored EXCEPT ![job[w].id] = IF @ = "none" THEN "razorpay_api" ELSE @]

StorePulled(w) ==
  /\ pc[w] = "store"
  /\ Evidence(w)
  /\ pc' = [pc EXCEPT ![w] = "insert"]
  /\ UNCHANGED <<executorVars, razorpayVars, outcome, captured, incident, job, todo, crashes>>

-----------------------------------------------------------------------------
Crash(w) ==
  /\ pc[w] # "idle"
  /\ crashes < MaxCrashes
  /\ crashes' = crashes + 1
  /\ pc' = [pc EXCEPT ![w] = "idle"]
  /\ job' = [job EXCEPT ![w] = None]
  /\ todo' = [todo EXCEPT ![w] = {}]
  /\ UNCHANGED <<executorVars, razorpayVars, recordVars>>

Record(w) ==
  \/ IgnoreUntrusted(w) \/ InsertOutcome(w) \/ AlreadyRecorded(w)
  \/ UpdatePayment(w) \/ ResolveIncident(w)

Fetch(w) == \E e \in Executions : FetchSettled(w, e) \/ FetchUnsettled(w, e)

World(e) ==
  \/ ActionOpens(e) \/ ActionEnds(e)
  \/ CreateLink(e) \/ WriteSucceeded(e) \/ WriteFailed(e)
  \/ AttemptFails(e) \/ CloseLink(e)
  \/ \E m \in Amounts : Pay(e, m)

Next ==
  \/ \E e \in Executions : World(e)
  \/ \E w \in Workers :
       \/ \E ev \in Events : ReceiveWebhook(w, ev)
       \/ \E id \in Replayed, success \in BOOLEAN, m \in Amounts :
            ReplayWebhook(w, id, success, m)
       \/ Record(w)
       \/ StartReconcile(w) \/ Fetch(w) \/ StorePulled(w)
       \/ \E e \in Executions : FetchFails(w, e)
       \/ Crash(w)

Spec == Init /\ [][Next]_vars

\* A task that runs keeps running, and a link that is fetched again and again is
\* fetched some time.  No webhook needs ever arrive, and that reconciliation is
\* started is not assumed: a run may end before it.
Fairness ==
  /\ \A w \in Workers : WF_vars(Record(w) \/ Fetch(w) \/ StorePulled(w))
  /\ \A e \in Executions :
       SF_vars(\E w \in Workers : FetchSettled(w, e))

FairSpec == Spec /\ Fairness

-----------------------------------------------------------------------------
(* Properties.                                                             *)

\* A replay proves nothing, but reconciliation keeps the row that has the id of
\* its answer already, whoever stored it.
IsEvidence(id) ==
  \/ stored[id] \in TrustedSources
  \/ stored[id] = "replay" /\ id = PulledId(id.execution)

\* A recorded outcome names a stored event that is about this execution, says
\* what the outcome says and came from Razorpay, unless a replay had taken the id
\* of the pulled answer (reconcile.py: "the outcome still names concrete
\* evidence").
OutcomeHasEvidence ==
  \A e \in Executions : outcome[e] # None =>
    LET proof == outcome[e].event IN
    /\ IsEvidence(proof)
    /\ proof.execution = e
    /\ outcome[e].succeeded =>
         proof = PulledId(e) \/ proof.type \in SuccessEvents

\* Recovered revenue is money a customer paid: the recorded amount is the one
\* Razorpay has for the link (outcome.py, rules 1 and 2).
RevenueIsReal ==
  \A e \in Executions : outcome[e] # None /\ outcome[e].succeeded =>
    link[e] = "paid" /\ outcome[e].recovered = paid[e]

\* Once nobody is recording, a recovered payment is captured, so that the
\* policy engine refuses to recover it again (outcome.py, UPDATE payments).
RecoveredIsCaptured ==
  \A e \in Executions :
    (/\ outcome[e] # None /\ outcome[e].succeeded
     /\ \A w \in Workers : pc[w] = "capture" => JobOn(w) # e)
      => e \in captured

\* The ledger of recovered revenue is kept as promised, whatever is lost,
\* repeated, replayed, reordered or interrupted.
Ledger == INSTANCE RevenueLedger
            WITH Unrecorded <- None,
                 ledger <- [e \in Executions |->
                              IF outcome[e] = None THEN None
                              ELSE outcome[e].recovered]

LedgerIsKept == Ledger!Spec

\* Executions that a reconciliation takes before e.
Older(e) == {d \in Unreconciled : d < e}

\* A payment of which no webhook arrives is not forgotten: if reconciliation is
\* started again and again and e stays within its limit, the execution gets its
\* outcome, wherever an earlier pull broke off (reconcile.py: "So the system also
\* PULLS").
ReconciliationCatchesUp ==
  \A e \in Executions :
    (/\ SF_vars(\E w \in Workers : StartReconcile(w))
     /\ <>[](Cardinality(Older(e)) < Limit))
      => (link[e] = "paid" /\ e \in executed)
           ~> (outcome[e] # None \/ e \notin executed)

\* ... and that outcome is the payment: "a missed push doesn't silently understate
\* the headline number".
PaidIsRecorded ==
  \A e \in Executions :
    SF_vars(\E w \in Workers : StartReconcile(w))
      => (link[e] = "paid" /\ e \in executed)
           ~> (\/ outcome[e] # None /\ outcome[e].succeeded
               \/ e \notin executed)

-----------------------------------------------------------------------------
(* Why the outcomes are true.                                              *)

\* A task that applies an event holds it; a reconciliation has a row left.
JobsAreHeld ==
  \A w \in Workers :
    /\ pc[w] \in {"store", "insert", "capture", "resolve"} => job[w] \in Jobs
    /\ pc[w] = "store" => job[w].source = "razorpay_api"

\* Razorpay sends success only for paid links, and an unpaid link has no amount.
EventsAreTrue ==
  /\ \A ev \in sent : ev.type \in SuccessEvents => link[ev.execution] = "paid"
  /\ \A e \in Executions : link[e] # "paid" => paid[e] = 0

\* What a task is about to record is what Razorpay said, and is still true.
JobsAreTrue ==
  \A w \in Workers :
    pc[w] \in {"store", "insert"} /\ Trusted(w) /\ job[w].succeeded =>
      /\ link[JobOn(w)] = "paid"
      /\ job[w].amount = paid[JobOn(w)]
      /\ job[w].id = PulledId(JobOn(w)) \/ job[w].id.type \in SuccessEvents

\* A pulled answer is stored under its own id, and what is about to be recorded
\* is stored.
EvidenceIsStored ==
  \A w \in Workers :
    /\ pc[w] = "store" => job[w].id = PulledId(JobOn(w))
    /\ pc[w] = "insert" /\ Trusted(w) => IsEvidence(job[w].id)

Inductive ==
  /\ TypeOK
  /\ JobsAreHeld
  /\ EventsAreTrue
  /\ JobsAreTrue
  /\ EvidenceIsStored
  /\ OutcomeHasEvidence
  /\ RevenueIsReal
=============================================================================
