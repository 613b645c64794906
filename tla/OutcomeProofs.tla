--------------------------- MODULE OutcomeProofs ----------------------------
(***************************************************************************)
(* Recovered revenue is real, for any number of executions and tasks.      *)
(***************************************************************************)
EXTENDS Outcome, TLAPS

USE DEF SuccessEvents, FailureEvents, TrustedSources

(* Event ids: a webhook's id is the event, a pulled answer has its own.    *)
LEMMA IdsAreApart ==
  /\ Events \subseteq EventIds
  /\ \A e \in Executions : PulledId(e) \in EventIds /\ PulledId(e).execution = e
  /\ \A i \in EventIds : i.execution \in Executions
BY DEF Events, EventIds, PulledId

(* A task that applies an event works on an execution.                     *)
LEMMA WorksOnAnExecution ==
  ASSUME Inductive, NEW w \in Workers, pc[w] \in {"store", "insert", "capture", "resolve"}
  PROVE  JobOn(w) \in Executions /\ job[w] \in Jobs /\ job[w].id \in EventIds
BY IdsAreApart DEF Inductive, JobsAreHeld, Jobs, JobOn

(* The executor, Razorpay and its customers keep the invariant.            *)
LEMMA WorldKeepsInductive ==
  ASSUME Inductive, NEW e \in Executions, World(e)
  PROVE  Inductive'
<1> USE AmountsAssumption DEF Inductive
<1>1. TypeOK'
  <2>1. CASE ActionOpens(e) \/ ActionEnds(e)
    BY <2>1 DEF TypeOK, ActionOpens, ActionEnds, razorpayVars, recordVars, taskVars
  <2>2. CASE CreateLink(e)
    BY <2>2 DEF TypeOK, CreateLink, executorVars, recordVars, taskVars
  <2>3. CASE WriteSucceeded(e) \/ WriteFailed(e)
    BY <2>3 DEF TypeOK, WriteSucceeded, WriteFailed, razorpayVars, recordVars, taskVars
  <2>4. CASE AttemptFails(e)
    BY <2>4 DEF TypeOK, AttemptFails, Send, Events, executorVars, recordVars, taskVars
  <2>5. CASE CloseLink(e)
    BY <2>5 DEF TypeOK, CloseLink, Send, Events, executorVars, recordVars, taskVars
  <2>6. ASSUME NEW m \in Amounts, Pay(e, m) PROVE TypeOK'
    BY <2>6 DEF TypeOK, Pay, Events, executorVars, recordVars, taskVars
  <2> QED
    BY <2>1, <2>2, <2>3, <2>4, <2>5, <2>6 DEF World
<1>2. UNCHANGED <<stored, outcome, pc, job, todo>>
  BY DEF World, ActionOpens, ActionEnds, CreateLink, WriteSucceeded, WriteFailed,
         Pay, AttemptFails, CloseLink, recordVars, taskVars
<1>3. /\ \A d \in Executions : link[d] = "paid" => link'[d] = "paid" /\ paid'[d] = paid[d]
      /\ EventsAreTrue'
  <2>1. CASE UNCHANGED <<link, paid, sent>>
    BY <2>1 DEF EventsAreTrue
  <2>2. CASE CreateLink(e)
    BY <2>2 DEF CreateLink, EventsAreTrue, TypeOK, Events
  <2>3. CASE AttemptFails(e)
    BY <2>3 DEF AttemptFails, Send, EventsAreTrue, TypeOK
  <2>4. CASE CloseLink(e)
    BY <2>4 DEF CloseLink, Send, EventsAreTrue, TypeOK, Events
  <2>5. ASSUME NEW m \in Amounts, Pay(e, m)
        PROVE  /\ \A d \in Executions :
                    link[d] = "paid" => link'[d] = "paid" /\ paid'[d] = paid[d]
               /\ EventsAreTrue'
    BY <2>5 DEF Pay, EventsAreTrue, TypeOK, Events
  <2> QED
    BY <2>1, <2>2, <2>3, <2>4, <2>5
       DEF World, ActionOpens, ActionEnds, WriteSucceeded, WriteFailed, razorpayVars
<1>4. JobsAreHeld' /\ EvidenceIsStored' /\ OutcomeHasEvidence'
  BY <1>2 DEF JobsAreHeld, EvidenceIsStored, OutcomeHasEvidence, IsEvidence, JobOn, Trusted
<1>5. JobsAreTrue'
  BY <1>2, <1>3, WorksOnAnExecution DEF JobsAreTrue, JobOn, Trusted
<1>6. RevenueIsReal'
  BY <1>2, <1>3 DEF RevenueIsReal
<1> QED
  BY <1>1, <1>3, <1>4, <1>5, <1>6

(* An ingested event is stored once, and held by the task that applies it. *)
LEMMA IngestKeepsInductive ==
  ASSUME Inductive, NEW w \in Workers, NEW ev \in EventIds,
         NEW success \in BOOLEAN, NEW amount \in Nat, NEW source \in {"razorpay", "replay"},
         source = "razorpay" =>
           /\ ev \in sent /\ amount = paid[ev.execution]
           /\ success = (ev.type \in SuccessEvents),
         Ingest(w, ev, success, amount, source)
  PROVE  Inductive'
<1> USE IdsAreApart DEF Inductive
<1>1. /\ UNCHANGED <<executorVars, razorpayVars, outcome, captured, incident, todo, crashes>>
      /\ stored[ev] = "none" /\ stored' = [stored EXCEPT ![ev] = source]
      /\ pc[w] = "idle" /\ pc' = [pc EXCEPT ![w] = "insert"]
  BY DEF Ingest, Unseen
<1> DEFINE J == [id |-> ev, succeeded |-> success, amount |-> amount, source |-> source]
<1>2. job' = [job EXCEPT ![w] = J] /\ J \in Jobs
  BY DEF Ingest, Jobs
<1> HIDE DEF J
<1>3. TypeOK'
  BY <1>1, <1>2 DEF TypeOK, executorVars, razorpayVars
<1>4. /\ pc'[w] = "insert" /\ job'[w] = J
      /\ \A v \in Workers \ {w} : pc'[v] = pc[v] /\ job'[v] = job[v]
  BY <1>1, <1>2 DEF TypeOK
<1>5. J.id = ev /\ J.succeeded = success /\ J.amount = amount /\ J.source = source
  BY DEF J
<1>6. JobsAreHeld'
  BY <1>2, <1>4 DEF JobsAreHeld
<1>7. EventsAreTrue' /\ RevenueIsReal'
  BY <1>1 DEF EventsAreTrue, RevenueIsReal, razorpayVars
<1>8. JobsAreTrue'
  <2>1. UNCHANGED <<link, paid>>
    BY <1>1 DEF razorpayVars
  <2>2. source \in {"razorpay", "razorpay_api"} /\ J.succeeded => link[ev.execution] = "paid"
    BY <1>5 DEF EventsAreTrue
  <2>3. SUFFICES ASSUME NEW v \in Workers
                 PROVE  JobsAreTrue!(v)'
    BY DEF JobsAreTrue
  <2>4. CASE v = w
    BY <1>4, <1>5, <2>1, <2>2, <2>4 DEF JobOn, Trusted
  <2>5. CASE v # w
    BY <1>4, <2>1, <2>5 DEF JobsAreTrue, JobOn, Trusted
  <2> QED
    BY <2>4, <2>5
<1>9. \A i \in EventIds : IsEvidence(i) => IsEvidence(i)'
  BY <1>1 DEF TypeOK, IsEvidence
<1>10. EvidenceIsStored'
  <2>1. source = "razorpay" => IsEvidence(ev)'
    BY <1>1 DEF TypeOK, IsEvidence
  <2>2. \A v \in Workers : pc[v] = "insert" => job[v].id \in EventIds
    BY WorksOnAnExecution
  <2> QED
    BY <1>4, <1>5, <1>9, <2>1, <2>2 DEF EvidenceIsStored, JobOn, Trusted
<1>11. OutcomeHasEvidence'
  BY <1>1, <1>9 DEF OutcomeHasEvidence, TypeOK, Outcomes
<1> QED
  BY <1>3, <1>6, <1>7, <1>8, <1>10, <1>11

(* Recording an outcome writes down what the event said.                   *)
LEMMA InsertOutcomeKeepsInductive ==
  ASSUME Inductive, NEW w \in Workers, InsertOutcome(w)
  PROVE  Inductive'
<1> USE IdsAreApart DEF Inductive
<1> DEFINE e == JobOn(w)
           O == [recovered |-> IF job[w].succeeded THEN job[w].amount ELSE 0,
                 succeeded |-> job[w].succeeded, event |-> job[w].id]
<1>1. /\ UNCHANGED <<executorVars, razorpayVars, stored, captured, incident, job, todo, crashes>>
      /\ pc[w] = "insert" /\ pc' = [pc EXCEPT ![w] = "capture"]
      /\ Trusted(w)
      /\ outcome' = [outcome EXCEPT ![e] = O]
  BY DEF InsertOutcome
<1>2. /\ e \in Executions /\ job[w] \in Jobs /\ job[w].id \in EventIds
      /\ job[w].id.execution = e
  BY <1>1, WorksOnAnExecution DEF JobOn
<1>3. /\ O \in Outcomes
      /\ O.event = job[w].id /\ O.succeeded = job[w].succeeded
      /\ O.succeeded => O.recovered = job[w].amount
  BY <1>2 DEF Outcomes, Jobs
<1> HIDE DEF e, O
<1>4. TypeOK'
  BY <1>1, <1>2, <1>3 DEF TypeOK, executorVars, razorpayVars
<1>5. \A v \in Workers : pc'[v] = IF v = w THEN "capture" ELSE pc[v]
  BY <1>1 DEF TypeOK
<1>6. JobsAreHeld'
  BY <1>1, <1>2, <1>5 DEF JobsAreHeld
<1>7. EventsAreTrue' /\ JobsAreTrue' /\ EvidenceIsStored'
  BY <1>1, <1>5 DEF EventsAreTrue, JobsAreTrue, EvidenceIsStored, IsEvidence, JobOn, Trusted,
     razorpayVars
<1>8. \A d \in Executions : outcome'[d] = IF d = e THEN O ELSE outcome[d]
  BY <1>1, <1>2 DEF TypeOK
<1>9. OutcomeHasEvidence'
  <2>1. IsEvidence(job[w].id) /\ stored' = stored
    BY <1>1 DEF EvidenceIsStored
  <2>2. job[w].succeeded => job[w].id = PulledId(e) \/ job[w].id.type \in SuccessEvents
    BY <1>1 DEF JobsAreTrue, e
  <2> QED
    BY <1>1, <1>2, <1>3, <1>8, <2>1, <2>2 DEF OutcomeHasEvidence, IsEvidence
<1>10. RevenueIsReal'
  <2>1. job[w].succeeded => link[e] = "paid" /\ job[w].amount = paid[e]
    BY <1>1 DEF JobsAreTrue, e
  <2> QED
    BY <1>1, <1>3, <1>8, <2>1 DEF RevenueIsReal, razorpayVars
<1> QED
  BY <1>4, <1>6, <1>7, <1>9, <1>10

(* The rest of the application of an event.                                *)
LEMMA RecordKeepsInductive ==
  ASSUME Inductive, NEW w \in Workers, Record(w)
  PROVE  Inductive'
<1> USE DEF Inductive
<1>1. CASE InsertOutcome(w)
  BY <1>1, InsertOutcomeKeepsInductive
<1>2. ASSUME UNCHANGED <<executorVars, razorpayVars, stored, outcome, crashes>>,
             captured' \subseteq Executions, incident' \in {"recovering", "resolved"},
             pc' \in [Workers -> {"idle", "fetch", "resolve"} \cup {pc[v] : v \in Workers}],
             \A v \in Workers : pc'[v] \in {pc[v], "idle", "fetch", "resolve"},
             \A v \in Workers : job'[v] = job[v] \/ pc'[v] \in {"idle", "fetch"},
             \A v \in Workers : pc'[v] = "resolve" => pc[v] \in {"capture", "resolve"},
             job' \in [Workers -> Jobs \cup {None}],
             todo' = todo
      PROVE  Inductive'
  <2>1. TypeOK'
    BY <1>2 DEF TypeOK, executorVars, razorpayVars
  <2>2. JobsAreHeld'
    BY <1>2 DEF JobsAreHeld
  <2>3. EventsAreTrue' /\ OutcomeHasEvidence' /\ RevenueIsReal'
    BY <1>2 DEF EventsAreTrue, OutcomeHasEvidence, IsEvidence, RevenueIsReal, razorpayVars
  <2>4. JobsAreTrue' /\ EvidenceIsStored'
    BY <1>2 DEF JobsAreTrue, EvidenceIsStored, IsEvidence, JobOn, Trusted, razorpayVars
  <2> QED
    BY <2>1, <2>2, <2>3, <2>4
<1>3. CASE IgnoreUntrusted(w)
  BY <1>2, <1>3 DEF IgnoreUntrusted, Return, recordVars, TypeOK
<1>4. CASE AlreadyRecorded(w)
  BY <1>2, <1>4 DEF AlreadyRecorded, Return, recordVars, TypeOK
<1>5. CASE UpdatePayment(w)
  <2>1. captured' \subseteq Executions
    BY <1>5, WorksOnAnExecution DEF UpdatePayment, Capture, TypeOK
  <2> QED
    BY <1>2, <1>5, <2>1 DEF UpdatePayment, TypeOK
<1>6. CASE ResolveIncident(w)
  BY <1>2, <1>6 DEF ResolveIncident, Return, TypeOK
<1> QED
  BY <1>1, <1>3, <1>4, <1>5, <1>6 DEF Record

(* A step of a reconciliation that stores nothing, and a crash.            *)
LEMMA ReconcileKeepsInductive ==
  ASSUME Inductive, NEW w \in Workers,
         \/ StartReconcile(w) \/ Fetch(w) \/ Crash(w)
         \/ \E e \in Executions : FetchFails(w, e)
  PROVE  Inductive'
<1> USE DEF Inductive
<1>1. /\ UNCHANGED <<executorVars, razorpayVars, recordVars>>
      /\ crashes' \in Nat
      /\ todo' \in [Workers -> SUBSET Executions]
  <2>1. CASE StartReconcile(w)
    <3>1. Oldest(Limit, Unreconciled) \subseteq Executions
      BY DEF Oldest, Unreconciled, TypeOK
    <3> QED
      BY <2>1, <3>1 DEF StartReconcile, TypeOK
  <2>2. CASE Fetch(w)
    BY <2>2 DEF Fetch, FetchSettled, FetchUnsettled, SkipRow, TypeOK
  <2>3. CASE Crash(w)
    BY <2>3 DEF Crash, TypeOK
  <2>4. CASE \E e \in Executions : FetchFails(w, e)
    BY <2>4 DEF FetchFails, SkipRow, TypeOK
  <2> QED
    BY <2>1, <2>2, <2>3, <2>4
<1>2. CASE \E e \in Executions : FetchSettled(w, e)
  <2>1. PICK e \in Executions : FetchSettled(w, e)
    BY <1>2
  <2> DEFINE J == [id |-> PulledId(e), succeeded |-> link[e] = "paid",
                   amount |-> paid[e], source |-> "razorpay_api"]
  <2>2. /\ pc[w] = "fetch" /\ pc' = [pc EXCEPT ![w] = "store"]
        /\ job' = [job EXCEPT ![w] = J]
    BY <2>1 DEF FetchSettled, NextRow
  <2>3. /\ J \in Jobs /\ J.id = PulledId(e) /\ J.id.execution = e
        /\ J.succeeded => link[e] = "paid"
        /\ J.amount = paid[e] /\ J.source = "razorpay_api"
    BY IdsAreApart DEF Jobs, TypeOK
  <2> HIDE DEF J
  <2>4. \A v \in Workers : pc'[v] = (IF v = w THEN "store" ELSE pc[v])
                        /\ job'[v] = (IF v = w THEN J ELSE job[v])
    BY <2>2 DEF TypeOK
  <2>5. TypeOK'
    BY <1>1, <2>2, <2>3 DEF TypeOK, executorVars, razorpayVars, recordVars
  <2>6. JobsAreHeld'
    BY <2>3, <2>4 DEF JobsAreHeld
  <2>7. EventsAreTrue' /\ OutcomeHasEvidence' /\ RevenueIsReal'
    BY <1>1 DEF EventsAreTrue, OutcomeHasEvidence, IsEvidence, RevenueIsReal, razorpayVars, recordVars
  <2>8. JobsAreTrue'
    BY <1>1, <2>3, <2>4 DEF JobsAreTrue, JobOn, Trusted, razorpayVars
  <2>9. EvidenceIsStored'
    BY <1>1, <2>3, <2>4 DEF EvidenceIsStored, IsEvidence, JobOn, Trusted, recordVars
  <2> QED
    BY <2>5, <2>6, <2>7, <2>8, <2>9
<1>3. CASE ~\E e \in Executions : FetchSettled(w, e)
  <2>1. /\ pc' \in [Workers -> {"idle", "fetch"} \cup {pc[v] : v \in Workers}]
        /\ \A v \in Workers : pc'[v] \in {pc[v], "idle", "fetch"}
        /\ \A v \in Workers : job'[v] = job[v] \/ pc'[v] \in {"idle", "fetch"}
        /\ job' \in [Workers -> Jobs \cup {None}]
    <3>1. CASE StartReconcile(w)
      BY <3>1 DEF StartReconcile, TypeOK
    <3>2. CASE Crash(w)
      BY <3>2 DEF Crash, TypeOK
    <3>3. ASSUME NEW e \in Executions, SkipRow(w, e)
          PROVE  /\ pc' \in [Workers -> {"idle", "fetch"} \cup {pc[v] : v \in Workers}]
                 /\ \A v \in Workers : pc'[v] \in {pc[v], "idle", "fetch"}
                 /\ job' = job
      BY <3>3 DEF SkipRow, NextRow, TypeOK
    <3>4. ASSUME \E e \in Executions : SkipRow(w, e)
          PROVE  /\ pc' \in [Workers -> {"idle", "fetch"} \cup {pc[v] : v \in Workers}]
                 /\ \A v \in Workers : pc'[v] \in {pc[v], "idle", "fetch"}
                 /\ job' \in [Workers -> Jobs \cup {None}] /\ job' = job
      BY <3>3, <3>4 DEF TypeOK
    <3>5. CASE Fetch(w) \/ \E e \in Executions : FetchFails(w, e)
      BY <1>3, <3>4, <3>5 DEF Fetch, FetchUnsettled, FetchFails
    <3> QED
      BY <3>1, <3>2, <3>5
  <2>2. TypeOK'
    BY <1>1, <2>1 DEF TypeOK, executorVars, razorpayVars, recordVars
  <2>3. JobsAreHeld'
    BY <2>1 DEF JobsAreHeld
  <2>4. EventsAreTrue' /\ OutcomeHasEvidence' /\ RevenueIsReal'
    BY <1>1 DEF EventsAreTrue, OutcomeHasEvidence, IsEvidence, RevenueIsReal, razorpayVars, recordVars
  <2>5. JobsAreTrue' /\ EvidenceIsStored'
    BY <1>1, <2>1 DEF JobsAreTrue, EvidenceIsStored, IsEvidence, JobOn, Trusted, razorpayVars, recordVars
  <2> QED
    BY <2>2, <2>3, <2>4, <2>5
<1> QED
  BY <1>2, <1>3

(* A pulled answer is stored before it is recorded.                        *)
LEMMA StorePulledKeepsInductive ==
  ASSUME Inductive, NEW w \in Workers, StorePulled(w)
  PROVE  Inductive'
<1> USE IdsAreApart DEF Inductive
<1>1. /\ UNCHANGED <<executorVars, razorpayVars, outcome, captured, incident, job, todo, crashes>>
      /\ pc[w] = "store" /\ pc' = [pc EXCEPT ![w] = "insert"]
      /\ Evidence(w)
  BY DEF StorePulled
<1>2. PICK e \in Executions : job[w] \in Jobs /\ job[w].id = PulledId(e)
  BY <1>1, WorksOnAnExecution DEF EvidenceIsStored
<1>3. /\ stored' \in [EventIds -> TrustedSources \cup {"replay", "none"}]
      /\ stored'[PulledId(e)] \in TrustedSources \cup {"replay"}
      /\ \A i \in EventIds \ {PulledId(e)} : stored'[i] = stored[i]
  BY <1>1, <1>2 DEF Evidence, TypeOK
<1>4. \A v \in Workers : pc'[v] = IF v = w THEN "insert" ELSE pc[v]
  BY <1>1 DEF TypeOK
<1>5. TypeOK'
  BY <1>1, <1>3 DEF TypeOK, executorVars, razorpayVars
<1>6. JobsAreHeld'
  BY <1>1, <1>2, <1>4 DEF JobsAreHeld
<1>7. EventsAreTrue' /\ RevenueIsReal' /\ JobsAreTrue'
  BY <1>1, <1>4 DEF EventsAreTrue, RevenueIsReal, JobsAreTrue, JobOn, Trusted, razorpayVars
<1>8. IsEvidence(PulledId(e))' /\ \A i \in EventIds : IsEvidence(i) => IsEvidence(i)'
  <2>1. PulledId(e).execution = e
    BY <1>2
  <2>2. IsEvidence(PulledId(e))'
    BY <1>3, <2>1 DEF IsEvidence
  <2>3. ASSUME NEW i \in EventIds, i # PulledId(e), IsEvidence(i)
        PROVE  IsEvidence(i)'
    BY <1>3, <2>3 DEF IsEvidence
  <2> QED
    BY <2>2, <2>3
<1>9. OutcomeHasEvidence'
  BY <1>1, <1>8 DEF OutcomeHasEvidence, TypeOK, Outcomes
<1>10. EvidenceIsStored'
  <2>1. ASSUME NEW v \in Workers PROVE EvidenceIsStored!(v)'
    <3>1. CASE v = w
      <4>1. pc'[v] = "insert" /\ job'[v].id = PulledId(e)
        BY <1>1, <1>2, <1>4, <3>1
      <4>2. IsEvidence(job[v].id)'
        BY <1>8, <4>1 DEF IsEvidence
      <4> QED
        BY <4>1, <4>2
    <3>2. CASE v # w
      <4>1. pc[v] = "insert" => job[v].id \in EventIds
        BY WorksOnAnExecution
      <4>2. job' = job /\ pc'[v] = pc[v]
        BY <1>1, <1>4, <3>2
      <4>3. pc[v] = "insert" /\ IsEvidence(job[v].id) => IsEvidence(job[v].id)'
        BY <1>8, <4>1, <4>2 DEF IsEvidence
      <4> QED
        BY <4>2, <4>3 DEF EvidenceIsStored, JobOn, Trusted
    <3> QED
      BY <3>1, <3>2
  <2> QED
    BY <2>1 DEF EvidenceIsStored
<1> QED
  BY <1>5, <1>6, <1>7, <1>9, <1>10

-----------------------------------------------------------------------------
LEMMA InitInductive == Init => Inductive
<1> SUFFICES ASSUME Init PROVE Inductive
  OBVIOUS
<1> USE DEF Init
<1>1. TypeOK
  BY ExecutionsAssumption DEF TypeOK
<1>2. JobsAreHeld /\ EventsAreTrue /\ JobsAreTrue
  BY DEF JobsAreHeld, EventsAreTrue, JobsAreTrue
<1>3. EvidenceIsStored
  BY IdsAreApart DEF EvidenceIsStored
<1>4. OutcomeHasEvidence /\ RevenueIsReal
  BY DEF OutcomeHasEvidence, RevenueIsReal
<1> QED
  BY <1>1, <1>2, <1>3, <1>4 DEF Inductive

LEMMA NextKeepsInductive ==
  ASSUME Inductive, [Next]_vars
  PROVE  Inductive'
<1>1. ASSUME NEW e \in Executions, World(e) PROVE Inductive'
  BY <1>1, WorldKeepsInductive
<1>2. ASSUME NEW w \in Workers, NEW ev \in Events, ReceiveWebhook(w, ev) PROVE Inductive'
  <2>1. /\ ev \in sent /\ ev \in EventIds /\ paid[ev.execution] \in Nat
        /\ (ev.type \in SuccessEvents) \in BOOLEAN
    BY <1>2, IdsAreApart DEF ReceiveWebhook, Inductive, TypeOK, Events
  <2> QED
    BY <1>2, <2>1, IngestKeepsInductive DEF ReceiveWebhook
<1>3. ASSUME NEW w \in Workers, NEW id \in Replayed, NEW success \in BOOLEAN, NEW m \in Amounts,
             ReplayWebhook(w, id, success, m)
      PROVE  Inductive'
  BY <1>3, ReplayedAssumption, AmountsAssumption, IngestKeepsInductive DEF ReplayWebhook
<1>4. ASSUME NEW w \in Workers, Record(w) PROVE Inductive'
  BY <1>4, RecordKeepsInductive
<1>5. ASSUME NEW w \in Workers,
             \/ StartReconcile(w) \/ Fetch(w) \/ Crash(w)
             \/ \E e \in Executions : FetchFails(w, e)
      PROVE  Inductive'
  BY <1>5, ReconcileKeepsInductive
<1>6. ASSUME NEW w \in Workers, StorePulled(w) PROVE Inductive'
  BY <1>6, StorePulledKeepsInductive
<1>7. CASE UNCHANGED vars
  BY <1>7 DEF vars, executorVars, razorpayVars, recordVars, taskVars, Inductive, TypeOK,
       JobsAreHeld, EventsAreTrue, JobsAreTrue, EvidenceIsStored, OutcomeHasEvidence,
       IsEvidence, RevenueIsReal, JobOn, Trusted
<1> QED
  BY <1>1, <1>2, <1>3, <1>4, <1>5, <1>6, <1>7 DEF Next

(* Whatever webhooks are lost, late, repeated or replayed under any id,    *)
(* whatever planning and the executor do to their rows, and wherever tasks *)
(* crash, the facts that make outcomes true hold (outcome.py, ingest.py    *)
(* and reconcile.py together).                                             *)
THEOREM OutcomeInvariant == Spec => []Inductive
<1>1. Init => Inductive
  BY InitInductive
<1>2. Inductive /\ [Next]_vars => Inductive'
  BY NextKeepsInductive
<1> QED
  BY <1>1, <1>2, PTL DEF Spec

(* Every recorded outcome rests on a stored event about its execution,     *)
(* which is Razorpay's unless a replay had taken the id of the pulled      *)
(* answer (reconcile.py, ON CONFLICT DO NOTHING).                          *)
THEOREM OutcomeEvidence == Spec => []OutcomeHasEvidence
<1>1. Inductive => OutcomeHasEvidence
  BY DEF Inductive
<1> QED
  BY <1>1, OutcomeInvariant, PTL

(* Every amount recorded as recovered was paid through the link.           *)
THEOREM RecoveredRevenueIsReal == Spec => []RevenueIsReal
<1>1. Inductive => RevenueIsReal
  BY DEF Inductive
<1> QED
  BY <1>1, OutcomeInvariant, PTL

-----------------------------------------------------------------------------
(* The refinement: a step of the system is a payment, an entry of the      *)
(* ledger, or nothing.                                                     *)
ledger == [e \in Executions |-> IF outcome[e] = None THEN None ELSE outcome[e].recovered]

LEMMA InitIsLedgerInit == Init => Ledger!Init
BY DEF Init, Ledger!Init

LEMMA StepIsLedgerStep ==
  ASSUME Inductive, [Next]_vars
  PROVE  [Ledger!Next]_(Ledger!vars)
<1> USE DEF Inductive
<1>1. ASSUME UNCHANGED <<paid, outcome>>
      PROVE  UNCHANGED Ledger!vars
  BY <1>1 DEF Ledger!vars
<1>2. ASSUME NEW e \in Executions, NEW m \in Amounts, Pay(e, m)
      PROVE  Ledger!Next
  <2>1. paid[e] = 0 /\ paid' = [paid EXCEPT ![e] = m]
    BY <1>2 DEF Pay, EventsAreTrue
  <2>2. UNCHANGED ledger
    BY <1>2 DEF Pay, ledger, recordVars
  <2> QED
    BY <2>1, <2>2 DEF Ledger!Next, Ledger!Pay, ledger
<1>3. ASSUME NEW w \in Workers, InsertOutcome(w)
      PROVE  Ledger!Next
  <2>1. JobOn(w) \in Executions /\ job[w] \in Jobs
    BY <1>3, WorksOnAnExecution DEF InsertOutcome
  <2> PICK e \in Executions : e = JobOn(w)
    BY <2>1
  <2> DEFINE r == IF job[w].succeeded THEN job[w].amount ELSE 0
  <2>2. r \in {0, paid[e]}
    BY <1>3 DEF InsertOutcome, JobsAreTrue
  <2>3. outcome[e] = None
    BY <1>3 DEF InsertOutcome, FirstOutcome
  <2> DEFINE O == [recovered |-> r, succeeded |-> job[w].succeeded, event |-> job[w].id]
  <2>4. O \in Outcomes /\ O.recovered = r
    BY <2>1 DEF Outcomes, Jobs
  <2>5. outcome' = [outcome EXCEPT ![e] = O] /\ paid' = paid
    BY <1>3 DEF InsertOutcome, razorpayVars
  <2> HIDE DEF r, O
  <2>6. \A d \in Executions : outcome'[d] = IF d = e THEN O ELSE outcome[d]
    BY <2>1, <2>5 DEF TypeOK
  <2>7. ledger' = [ledger EXCEPT ![e] = r]
    BY <2>1, <2>4, <2>6, NoneAssumption DEF ledger
  <2>8. ledger[e] = None
    BY <2>1, <2>3 DEF ledger
  <2>9. Ledger!Record(e)
    BY <2>2, <2>5, <2>7, <2>8 DEF Ledger!Record, ledger
  <2> QED
    BY <2>9 DEF Ledger!Next
<1>4. ASSUME NEW e \in Executions, World(e), ~\E m \in Amounts : Pay(e, m)
      PROVE  UNCHANGED <<paid, outcome>>
  BY <1>4 DEF World, ActionOpens, ActionEnds, CreateLink, WriteSucceeded, WriteFailed,
       AttemptFails, CloseLink, razorpayVars, recordVars
<1>5. ASSUME NEW w \in Workers, Record(w), ~InsertOutcome(w)
      PROVE  UNCHANGED <<paid, outcome>>
  BY <1>5 DEF Record, IgnoreUntrusted, AlreadyRecorded, UpdatePayment, ResolveIncident,
       razorpayVars, recordVars
<1>6. ASSUME NEW w \in Workers,
             \/ \E ev \in Events : ReceiveWebhook(w, ev)
             \/ \E id \in Replayed, success \in BOOLEAN, m \in Amounts :
                  ReplayWebhook(w, id, success, m)
             \/ StartReconcile(w) \/ Fetch(w) \/ StorePulled(w) \/ Crash(w)
             \/ \E e \in Executions : FetchFails(w, e)
      PROVE  UNCHANGED <<paid, outcome>>
  BY <1>6 DEF ReceiveWebhook, ReplayWebhook, Ingest, StartReconcile, Fetch, FetchSettled,
       FetchUnsettled, FetchFails, SkipRow, StorePulled, Crash, razorpayVars, recordVars
<1>7. CASE UNCHANGED vars
  BY <1>7, <1>1 DEF vars, razorpayVars, recordVars
<1> QED
  BY <1>1, <1>2, <1>3, <1>4, <1>5, <1>6, <1>7 DEF Next, World

(* The headline number keeps what RevenueLedger promises.                  *)
THEOREM LedgerRefinement == Spec => LedgerIsKept
<1>1. Init => Ledger!Init
  BY InitIsLedgerInit
<1>2. Inductive /\ [Next]_vars => [Ledger!Next]_(Ledger!vars)
  BY StepIsLedgerStep
<1> QED
  BY <1>1, <1>2, OutcomeInvariant, PTL DEF Spec, LedgerIsKept, Ledger!Spec
=============================================================================
