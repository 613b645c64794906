--------------------------- MODULE ExecutorProofs ---------------------------
(***************************************************************************)
(* The executor's safety for any number of actions, workers, policies,     *)
(* crashes and amounts.                                                    *)
(***************************************************************************)
EXTENDS Executor, PolicyProofs, SumProofs, FiniteSetTheorems

USE DEF rowVars, factVars, execVars, razorpayVars, taskVars, clockVars

-----------------------------------------------------------------------------
(* Keys.                                                                   *)

LEMMA KeyParts ==
  ASSUME NEW k \in Keys
  PROVE  ActionOf(k) \in Actions /\ AmountOf(k) \in Amounts
BY DEF Keys, ActionOf, AmountOf

LEMMA PairIsKey ==
  ASSUME NEW a \in Actions, NEW m \in Amounts
  PROVE  /\ <<a, m>> \in Keys
         /\ ActionOf(<<a, m>>) = a /\ AmountOf(<<a, m>>) = m
BY DEF Keys, ActionOf, AmountOf

LEMMA KeyIsPair ==
  ASSUME NEW k \in Keys, NEW l \in Keys,
         ActionOf(k) = ActionOf(l), AmountOf(k) = AmountOf(l)
  PROVE  k = l
BY DEF Keys, ActionOf, AmountOf

(* The number of executions of an action is a natural number.              *)
LEMMA AttemptsAreCounted ==
  ASSUME NEW a \in Actions
  PROVE  Cardinality(Executions(a)) \in Nat
<1>1. IsFiniteSet(Keys)
  BY FiniteAssumption, FS_Product DEF Keys
<1>2. Executions(a) \subseteq Keys
  BY DEF Executions
<1>3. IsFiniteSet(Executions(a))
  BY <1>1, <1>2, FS_Subset
<1> QED
  BY <1>3, FS_CardinalityType

-----------------------------------------------------------------------------
(* Type correctness, with what a task holds at each step.                  *)

Typed == TypeOK /\ JobsAndRows

LEMMA TypedInit == Init => Typed
<1> SUFFICES ASSUME Init PROVE Typed
  OBVIOUS
<1>1. TypeOK
  <2>1. status \in [Actions -> Statuses]
    <3>1. \A d \in Decisions : StatusFor[d] \in Statuses
      BY DEF Decisions, StatusFor, Statuses
    <3> QED  BY <3>1 DEF Init
  <2>2. amount \in [Actions -> Amounts]
    BY AmountsAssumption DEF Init
  <2> QED
    BY <2>1, <2>2 DEF Init, TypeOK, ExecStatuses, Steps
<1>2. JobsAndRows
  BY DEF Init, JobsAndRows
<1> QED
  BY <1>1, <1>2 DEF Typed

LEMMA DecisionsAreTyped ==
  ASSUME NEW w \in Workers
  PROVE  RuntimeDecision(w) \in Decisions
BY DEF RuntimeDecision, DecisionOf, Decisions

LEMMA TypedStep == Typed /\ [Next]_vars => Typed'
<1> SUFFICES ASSUME Typed, [Next]_vars PROVE Typed'
  OBVIOUS
<1> USE DEF Typed, TypeOK, JobsAndRows, Steps
<1>1. ASSUME NEW w \in Workers, Execute(w) PROVE Typed'
  <2>1. ASSUME NEW a \in Actions, ExecuteAction(w, a) PROVE Typed'
    <3>1. <<a, amount[a]>> \in Keys
      BY PairIsKey
    <3>2. [status |-> status[a], amount |-> amount[a],
           approval |-> approval[a], captured |-> a \in captured,
           optedOut |-> a \in optedOut,
           priorAttempts |-> Cardinality(Executions(a)), now |-> now] \in Rows
      BY AttemptsAreCounted DEF Rows
    <3> QED
      BY <2>1, <3>1, <3>2 DEF ExecuteAction
  <2>2. CASE StopAtLookup(w)
    BY <2>2 DEF StopAtLookup, Finish
  <2>3. CASE LoadPolicy(w)
    BY <2>3 DEF LoadPolicy
  <2>4. CASE BlockAtRuntime(w)
    BY <2>4, DecisionsAreTyped DEF BlockAtRuntime, RecordRuling, Finish, Statuses
  <2>5. CASE AskForApproval(w)
    BY <2>5, DecisionsAreTyped DEF AskForApproval, RecordRuling, Finish
  <2>6. CASE LoseRace(w)
    BY <2>6 DEF LoseRace, KeyIsFree, Finish
  <2>7. CASE ClaimBudget(w)
    <3>1. seen[w].now \in Nat
      BY <2>7 DEF ClaimBudget, KeyIsFree, Rows
    <3> QED
      BY <2>7, <3>1, DecisionsAreTyped DEF ClaimBudget, KeyIsFree, RecordRuling, ExecStatuses
  <2>8. CASE MarkExecuting(w)
    BY <2>8 DEF MarkExecuting, GoTo, Statuses
  <2>9. CASE SendRequest(w)
    BY <2>9 DEF SendRequest, GoTo
  <2> QED
    BY <1>1, <2>1, <2>2, <2>3, <2>4, <2>5, <2>6, <2>7, <2>8, <2>9 DEF Execute
<1>2. ASSUME NEW w \in Workers, Call(w) PROVE Typed'
  <2>1. CASE RazorpayCreates(w)
    BY <2>1 DEF RazorpayCreates, GoTo, Waiting
  <2>2. CASE RazorpayRejects(w)
    BY <2>2 DEF RazorpayRejects, GoTo, Waiting
  <2>3. CASE RazorpayReportsDuplicate(w)
    BY <2>3 DEF RazorpayReportsDuplicate, AfterDuplicate, GoTo, Waiting
  <2>4. CASE RetryableError(w)
    BY <2>4 DEF RetryableError, AfterRetryable, Finish, Waiting
  <2> QED
    BY <1>2, <2>1, <2>2, <2>3, <2>4 DEF Call
<1>3. ASSUME NEW w \in Workers, Settle(w) PROVE Typed'
  <2>1. CASE WriteSucceeded(w)
    BY <2>1 DEF WriteSucceeded, GoTo, ExecStatuses
  <2>2. CASE WriteFailed(w)
    BY <2>2 DEF WriteFailed, GoTo, ExecStatuses
  <2>3. CASE MarkSettled(w)
    BY <2>3 DEF MarkSettled, Finish, Statuses
  <2> QED
    BY <1>3, <2>1, <2>2, <2>3 DEF Settle
<1>4. ASSUME NEW w \in Workers, Resolve(w) PROVE Typed'
  <2>1. ASSUME NEW k \in Keys, ResolvePending(w, k) PROVE Typed'
    BY <2>1 DEF ResolvePending, Unresolved
  <2>2. CASE ResendRequest(w)
    BY <2>2 DEF ResendRequest, GoTo
  <2>3. CASE FindLink(w)
    BY <2>3 DEF FindLink, GoTo
  <2>4. CASE LinkNotRetrievable(w)
    BY <2>4 DEF LinkNotRetrievable, Finish
  <2> QED
    BY <1>4, <2>1, <2>2, <2>3, <2>4 DEF Resolve
<1>5. ASSUME NEW w \in Workers, Decide(w) PROVE Typed'
  <2>1. ASSUME NEW a \in Actions, OpenDecision(w, a) PROVE Typed'
    BY <2>1, PairIsKey DEF OpenDecision
  <2>2. ASSUME NEW answer \in {"granted", "denied"}, CommitDecision(w, answer)
        PROVE  Typed'
    BY <2>2 DEF CommitDecision, Finish, Statuses
  <2>3. CASE AlreadyDecided(w)
    BY <2>3 DEF AlreadyDecided, Finish
  <2> QED
    BY <1>5, <2>1, <2>2, <2>3 DEF Decide
<1>6. ASSUME NEW w \in Workers, Crash(w) PROVE Typed'
  BY <1>6 DEF Crash, Finish, Waiting
<1>7. CASE Environment
  <2>1. CASE Tick
    BY <2>1, BoundsAssumption DEF Tick
  <2>2. ASSUME NEW a \in Actions, PaymentCaptured(a) \/ CustomerOptsOut(a)
        PROVE  Typed'
    BY <2>2 DEF PaymentCaptured, CustomerOptsOut
  <2>3. ASSUME NEW p \in Policies, ChangePolicy(p) PROVE Typed'
    BY <2>3 DEF ChangePolicy
  <2>4. ASSUME NEW a \in Actions, NEW m \in Amended, AmendAmount(a, m)
        PROVE  Typed'
    BY <2>4, AmountsAssumption DEF AmendAmount
  <2>5. ASSUME NEW k \in Keys, LateRequestArrives(k) PROVE Typed'
    BY <2>5 DEF LateRequestArrives
  <2> QED
    BY <1>7, <2>1, <2>2, <2>3, <2>4, <2>5 DEF Environment
<1>8. CASE UNCHANGED vars
  BY <1>8 DEF vars
<1> QED
  BY <1>1, <1>2, <1>3, <1>4, <1>5, <1>6, <1>7, <1>8 DEF Next

(* Every reachable state is well typed, and a started call holds the key,  *)
(* row and configuration its next step reads.                              *)
THEOREM TypeCorrect == Spec => [](TypeOK /\ JobsAndRows)
<1>1. Init => Typed
  BY TypedInit
<1>2. Typed /\ [Next]_vars => Typed'
  BY TypedStep
<1> QED
  BY <1>1, <1>2, PTL DEF Spec, Typed

-----------------------------------------------------------------------------
(* Executions and links.                                                   *)

Backed == WorksOnExecution /\ RequestsHaveExecutions

LEMMA BackedStep == Typed /\ Backed /\ [Next]_vars => Backed'
<1> SUFFICES ASSUME Typed, Backed, [Next]_vars PROVE Backed'
  OBVIOUS
<1> USE DEF Typed, TypeOK, JobsAndRows, Steps,
            Backed, WorksOnExecution, RequestsHaveExecutions
<1>1. ASSUME NEW w \in Workers, Execute(w) PROVE Backed'
  <2>1. ASSUME NEW a \in Actions, ExecuteAction(w, a)
        PROVE  Backed'
    BY <2>1 DEF ExecuteAction
  <2>2. CASE StopAtLookup(w)
    BY <2>2 DEF StopAtLookup, Finish
  <2>3. CASE LoadPolicy(w)
    BY <2>3 DEF LoadPolicy
  <2>4. CASE BlockAtRuntime(w)
    BY <2>4 DEF BlockAtRuntime, RecordRuling, Finish
  <2>5. CASE AskForApproval(w)
    BY <2>5 DEF AskForApproval, RecordRuling, Finish
  <2>6. CASE LoseRace(w)
    BY <2>6 DEF LoseRace, KeyIsFree, Finish
  <2>7. CASE ClaimBudget(w)
    BY <2>7 DEF ClaimBudget, KeyIsFree, RecordRuling
  <2>8. CASE MarkExecuting(w)
    BY <2>8 DEF MarkExecuting, GoTo
  <2>9. CASE SendRequest(w)
    BY <2>9 DEF SendRequest, GoTo
  <2> QED
    BY <1>1, <2>1, <2>2, <2>3, <2>4, <2>5, <2>6, <2>7, <2>8, <2>9 DEF Execute
<1>2. ASSUME NEW w \in Workers, Call(w) PROVE Backed'
  <2>1. CASE RazorpayCreates(w)
    BY <2>1 DEF RazorpayCreates, Waiting, GoTo
  <2>2. CASE RazorpayRejects(w)
    BY <2>2 DEF RazorpayRejects, Waiting, GoTo
  <2>3. CASE RazorpayReportsDuplicate(w)
    BY <2>3 DEF RazorpayReportsDuplicate, Waiting, AfterDuplicate, GoTo
  <2>4. CASE RetryableError(w)
    BY <2>4 DEF RetryableError, Waiting, AfterRetryable, Finish
  <2> QED
    BY <1>2, <2>1, <2>2, <2>3, <2>4 DEF Call
<1>3. ASSUME NEW w \in Workers, Settle(w) PROVE Backed'
  <2>1. CASE WriteSucceeded(w)
    BY <2>1 DEF WriteSucceeded, GoTo
  <2>2. CASE WriteFailed(w)
    BY <2>2 DEF WriteFailed, GoTo
  <2>3. CASE MarkSettled(w)
    BY <2>3 DEF MarkSettled, Finish
  <2> QED
    BY <1>3, <2>1, <2>2, <2>3 DEF Settle
<1>4. ASSUME NEW w \in Workers, Resolve(w) PROVE Backed'
  <2>1. ASSUME NEW k \in Keys, ResolvePending(w, k)
        PROVE  Backed'
    BY <2>1 DEF ResolvePending, Unresolved
  <2>2. CASE ResendRequest(w)
    BY <2>2 DEF ResendRequest, GoTo
  <2>3. CASE FindLink(w)
    BY <2>3 DEF FindLink, GoTo
  <2>4. CASE LinkNotRetrievable(w)
    BY <2>4 DEF LinkNotRetrievable, Finish
  <2> QED
    BY <1>4, <2>1, <2>2, <2>3, <2>4 DEF Resolve
<1>5. ASSUME NEW w \in Workers, Decide(w) PROVE Backed'
  <2>1. ASSUME NEW a \in Actions, OpenDecision(w, a)
        PROVE  Backed'
    BY <2>1 DEF OpenDecision
  <2>2. ASSUME NEW answer \in {"granted", "denied"}, CommitDecision(w, answer)
        PROVE  Backed'
    BY <2>2 DEF CommitDecision, Undecided, Finish
  <2>3. CASE AlreadyDecided(w)
    BY <2>3 DEF AlreadyDecided, Undecided, Finish
  <2> QED
    BY <1>5, <2>1, <2>2, <2>3 DEF Decide
<1>6. ASSUME NEW w \in Workers, Crash(w) PROVE Backed'
  BY <1>6 DEF Crash, Waiting, Finish
<1>7. CASE Environment
  <2>1. CASE Tick
    BY <2>1 DEF Tick
  <2>2. ASSUME NEW a \in Actions, PaymentCaptured(a)
        PROVE  Backed'
    BY <2>2 DEF PaymentCaptured
  <2>3. ASSUME NEW a \in Actions, CustomerOptsOut(a)
        PROVE  Backed'
    BY <2>3 DEF CustomerOptsOut
  <2>4. ASSUME NEW p \in Policies, ChangePolicy(p)
        PROVE  Backed'
    BY <2>4 DEF ChangePolicy
  <2>5. ASSUME NEW a \in Actions, NEW m \in Amended, AmendAmount(a, m)
        PROVE  Backed'
    BY <2>5 DEF AmendAmount
  <2>6. ASSUME NEW k \in Keys, LateRequestArrives(k)
        PROVE  Backed'
    BY <2>6 DEF LateRequestArrives
  <2> QED
    BY <1>7, <2>1, <2>2, <2>3, <2>4, <2>5, <2>6 DEF Environment
<1>8. CASE UNCHANGED vars
  BY <1>8 DEF vars
<1> QED
  BY <1>1, <1>2, <1>3, <1>4, <1>5, <1>6, <1>7, <1>8 DEF Next

-----------------------------------------------------------------------------
(* Consent only grows.                                                     *)

\* What no step takes back.
ConsentGrows ==
  /\ ruling' = ruling
  /\ \A a \in Actions :
       /\ approval[a] # "none" => approval'[a] = approval[a]
       /\ runtimeRulings[a] \subseteq runtimeRulings'[a]

LEMMA ConsentStep == Typed /\ [Next]_vars => ConsentGrows
<1> SUFFICES ASSUME Typed, [Next]_vars PROVE ConsentGrows
  OBVIOUS
<1> USE DEF Typed, TypeOK, ConsentGrows
<1>1. ASSUME NEW w \in Workers, Execute(w) PROVE ConsentGrows
  <2>1. ASSUME NEW a \in Actions, ExecuteAction(w, a)
        PROVE  ConsentGrows
    BY <2>1 DEF ExecuteAction
  <2>2. CASE StopAtLookup(w)
    BY <2>2 DEF StopAtLookup, Finish
  <2>3. CASE LoadPolicy(w)
    BY <2>3 DEF LoadPolicy
  <2>4. CASE BlockAtRuntime(w)
    BY <2>4 DEF BlockAtRuntime, RecordRuling, Finish
  <2>5. CASE AskForApproval(w)
    BY <2>5 DEF AskForApproval, RecordRuling, Finish
  <2>6. CASE LoseRace(w)
    BY <2>6 DEF LoseRace, KeyIsFree, Finish
  <2>7. CASE ClaimBudget(w)
    BY <2>7 DEF ClaimBudget, KeyIsFree, RecordRuling
  <2>8. CASE MarkExecuting(w)
    BY <2>8 DEF MarkExecuting, GoTo
  <2>9. CASE SendRequest(w)
    BY <2>9 DEF SendRequest, GoTo
  <2> QED
    BY <1>1, <2>1, <2>2, <2>3, <2>4, <2>5, <2>6, <2>7, <2>8, <2>9 DEF Execute
<1>2. ASSUME NEW w \in Workers, Call(w) PROVE ConsentGrows
  <2>1. CASE RazorpayCreates(w)
    BY <2>1 DEF RazorpayCreates, Waiting, GoTo
  <2>2. CASE RazorpayRejects(w)
    BY <2>2 DEF RazorpayRejects, Waiting, GoTo
  <2>3. CASE RazorpayReportsDuplicate(w)
    BY <2>3 DEF RazorpayReportsDuplicate, Waiting, AfterDuplicate, GoTo
  <2>4. CASE RetryableError(w)
    BY <2>4 DEF RetryableError, Waiting, AfterRetryable, Finish
  <2> QED
    BY <1>2, <2>1, <2>2, <2>3, <2>4 DEF Call
<1>3. ASSUME NEW w \in Workers, Settle(w) PROVE ConsentGrows
  <2>1. CASE WriteSucceeded(w)
    BY <2>1 DEF WriteSucceeded, GoTo
  <2>2. CASE WriteFailed(w)
    BY <2>2 DEF WriteFailed, GoTo
  <2>3. CASE MarkSettled(w)
    BY <2>3 DEF MarkSettled, Finish
  <2> QED
    BY <1>3, <2>1, <2>2, <2>3 DEF Settle
<1>4. ASSUME NEW w \in Workers, Resolve(w) PROVE ConsentGrows
  <2>1. ASSUME NEW k \in Keys, ResolvePending(w, k)
        PROVE  ConsentGrows
    BY <2>1 DEF ResolvePending, Unresolved
  <2>2. CASE ResendRequest(w)
    BY <2>2 DEF ResendRequest, GoTo
  <2>3. CASE FindLink(w)
    BY <2>3 DEF FindLink, GoTo
  <2>4. CASE LinkNotRetrievable(w)
    BY <2>4 DEF LinkNotRetrievable, Finish
  <2> QED
    BY <1>4, <2>1, <2>2, <2>3, <2>4 DEF Resolve
<1>5. ASSUME NEW w \in Workers, Decide(w) PROVE ConsentGrows
  <2>1. ASSUME NEW a \in Actions, OpenDecision(w, a)
        PROVE  ConsentGrows
    BY <2>1 DEF OpenDecision
  <2>2. ASSUME NEW answer \in {"granted", "denied"}, CommitDecision(w, answer)
        PROVE  ConsentGrows
    BY <2>2 DEF CommitDecision, Undecided, Finish
  <2>3. CASE AlreadyDecided(w)
    BY <2>3 DEF AlreadyDecided, Undecided, Finish
  <2> QED
    BY <1>5, <2>1, <2>2, <2>3 DEF Decide
<1>6. ASSUME NEW w \in Workers, Crash(w) PROVE ConsentGrows
  BY <1>6 DEF Crash, Waiting, Finish
<1>7. CASE Environment
  <2>1. CASE Tick
    BY <2>1 DEF Tick
  <2>2. ASSUME NEW a \in Actions, PaymentCaptured(a)
        PROVE  ConsentGrows
    BY <2>2 DEF PaymentCaptured
  <2>3. ASSUME NEW a \in Actions, CustomerOptsOut(a)
        PROVE  ConsentGrows
    BY <2>3 DEF CustomerOptsOut
  <2>4. ASSUME NEW p \in Policies, ChangePolicy(p)
        PROVE  ConsentGrows
    BY <2>4 DEF ChangePolicy
  <2>5. ASSUME NEW a \in Actions, NEW m \in Amended, AmendAmount(a, m)
        PROVE  ConsentGrows
    BY <2>5 DEF AmendAmount
  <2>6. ASSUME NEW k \in Keys, LateRequestArrives(k)
        PROVE  ConsentGrows
    BY <2>6 DEF LateRequestArrives
  <2> QED
    BY <1>7, <2>1, <2>2, <2>3, <2>4, <2>5, <2>6 DEF Environment
<1>8. CASE UNCHANGED vars
  BY <1>8 DEF vars
<1> QED
  BY <1>1, <1>2, <1>3, <1>4, <1>5, <1>6, <1>7, <1>8 DEF Next

-----------------------------------------------------------------------------
(* Authority.                                                              *)

\* Executions, links and answers are what they were.
Unnoticed ==
  /\ \A k \in Keys : execStatus'[k] # "none" <=> execStatus[k] # "none"
  /\ links' = links
  /\ approval' = approval

\* The four steps that change one of these.
Noticed ==
  \/ \E w \in Workers :
       \/ ClaimBudget(w) \/ RazorpayCreates(w)
       \/ \E answer \in {"granted", "denied"} : CommitDecision(w, answer)
  \/ \E k \in Keys : LateRequestArrives(k)

\* The row a call works with is the one it worked with.
SameRow(v) ==
  pc'[v] \in {"lookup", "claim"} =>
    pc'[v] = pc[v] /\ job'[v] = job[v] /\ seen'[v] = seen[v]

LEMMA StepsAreNoticed ==
  Typed /\ Backed /\ [Next]_vars => Unnoticed \/ Noticed
<1> SUFFICES ASSUME Typed, Backed, [Next]_vars PROVE Unnoticed \/ Noticed
  OBVIOUS
<1> DEFINE Goal == Unnoticed \/ Noticed
<1> USE DEF Typed, TypeOK, JobsAndRows, Backed, WorksOnExecution, Unnoticed
<1>1. ASSUME NEW w \in Workers, Execute(w) PROVE Goal
  <2>1. ASSUME NEW a \in Actions, ExecuteAction(w, a)
        PROVE  Goal
    BY <2>1 DEF ExecuteAction
  <2>2. CASE StopAtLookup(w)
    BY <2>2 DEF StopAtLookup, Finish
  <2>3. CASE LoadPolicy(w)
    BY <2>3 DEF LoadPolicy
  <2>4. CASE BlockAtRuntime(w)
    BY <2>4 DEF BlockAtRuntime, RecordRuling, Finish
  <2>5. CASE AskForApproval(w)
    BY <2>5 DEF AskForApproval, RecordRuling, Finish
  <2>6. CASE LoseRace(w)
    BY <2>6 DEF LoseRace, KeyIsFree, Finish
  <2>7. CASE ClaimBudget(w)
    BY <2>7 DEF Noticed
  <2>8. CASE MarkExecuting(w)
    BY <2>8 DEF MarkExecuting, GoTo
  <2>9. CASE SendRequest(w)
    BY <2>9 DEF SendRequest, GoTo
  <2> QED
    BY <1>1, <2>1, <2>2, <2>3, <2>4, <2>5, <2>6, <2>7, <2>8, <2>9 DEF Execute
<1>2. ASSUME NEW w \in Workers, Call(w) PROVE Goal
  <2>1. CASE RazorpayCreates(w)
    BY <2>1 DEF Noticed
  <2>2. CASE RazorpayRejects(w)
    BY <2>2 DEF RazorpayRejects, Waiting, GoTo
  <2>3. CASE RazorpayReportsDuplicate(w)
    BY <2>3 DEF RazorpayReportsDuplicate, Waiting, AfterDuplicate, GoTo
  <2>4. CASE RetryableError(w)
    BY <2>4 DEF RetryableError, Waiting, AfterRetryable, Finish
  <2> QED
    BY <1>2, <2>1, <2>2, <2>3, <2>4 DEF Call
<1>3. ASSUME NEW w \in Workers, Settle(w) PROVE Goal
  <2>1. CASE WriteSucceeded(w)
    BY <2>1 DEF WriteSucceeded, GoTo
  <2>2. CASE WriteFailed(w)
    BY <2>2 DEF WriteFailed, GoTo
  <2>3. CASE MarkSettled(w)
    BY <2>3 DEF MarkSettled, Finish
  <2> QED
    BY <1>3, <2>1, <2>2, <2>3 DEF Settle
<1>4. ASSUME NEW w \in Workers, Resolve(w) PROVE Goal
  <2>1. ASSUME NEW k \in Keys, ResolvePending(w, k)
        PROVE  Goal
    BY <2>1 DEF ResolvePending, Unresolved
  <2>2. CASE ResendRequest(w)
    BY <2>2 DEF ResendRequest, GoTo
  <2>3. CASE FindLink(w)
    BY <2>3 DEF FindLink, GoTo
  <2>4. CASE LinkNotRetrievable(w)
    BY <2>4 DEF LinkNotRetrievable, Finish
  <2> QED
    BY <1>4, <2>1, <2>2, <2>3, <2>4 DEF Resolve
<1>5. ASSUME NEW w \in Workers, Decide(w) PROVE Goal
  <2>1. ASSUME NEW a \in Actions, OpenDecision(w, a)
        PROVE  Goal
    BY <2>1 DEF OpenDecision
  <2>2. ASSUME NEW answer \in {"granted", "denied"}, CommitDecision(w, answer)
        PROVE  Goal
    BY <2>2 DEF Noticed
  <2>3. CASE AlreadyDecided(w)
    BY <2>3 DEF AlreadyDecided, Undecided, Finish
  <2> QED
    BY <1>5, <2>1, <2>2, <2>3 DEF Decide
<1>6. ASSUME NEW w \in Workers, Crash(w) PROVE Goal
  BY <1>6 DEF Crash, Waiting, Finish
<1>7. CASE Environment
  <2>1. CASE Tick
    BY <2>1 DEF Tick
  <2>2. ASSUME NEW a \in Actions, PaymentCaptured(a)
        PROVE  Goal
    BY <2>2 DEF PaymentCaptured
  <2>3. ASSUME NEW a \in Actions, CustomerOptsOut(a)
        PROVE  Goal
    BY <2>3 DEF CustomerOptsOut
  <2>4. ASSUME NEW p \in Policies, ChangePolicy(p)
        PROVE  Goal
    BY <2>4 DEF ChangePolicy
  <2>5. ASSUME NEW a \in Actions, NEW m \in Amended, AmendAmount(a, m)
        PROVE  Goal
    BY <2>5 DEF AmendAmount
  <2>6. ASSUME NEW k \in Keys, LateRequestArrives(k)
        PROVE  Goal
    BY <2>6 DEF Noticed
  <2> QED
    BY <1>7, <2>1, <2>2, <2>3, <2>4, <2>5, <2>6 DEF Environment
<1>8. CASE UNCHANGED vars
  BY <1>8 DEF vars
<1> QED
  BY <1>1, <1>2, <1>3, <1>4, <1>5, <1>6, <1>7, <1>8 DEF Next

LEMMA OnlyClaimsCreate ==
  ASSUME Typed, Backed, [Next]_vars,
         NEW k \in Keys, execStatus[k] = "none", execStatus'[k] # "none"
  PROVE  \E w \in Workers : ClaimBudget(w)
<1>1. CASE Unnoticed
  BY <1>1 DEF Unnoticed
<1>2. CASE Noticed
  BY <1>2 DEF Noticed, RazorpayCreates, CommitDecision, LateRequestArrives
<1> QED
  BY <1>1, <1>2, StepsAreNoticed

LEMMA OnlyReadsChangeRows ==
  Typed /\ [Next]_vars =>
    \A v \in Workers :
      SameRow(v) \/ (\E a \in Actions : ExecuteAction(v, a)) \/ LoadPolicy(v)
<1> SUFFICES ASSUME Typed, [Next]_vars, NEW v \in Workers
             PROVE  SameRow(v) \/ (\E a \in Actions : ExecuteAction(v, a)) \/ LoadPolicy(v)
  OBVIOUS
<1> DEFINE Goal == SameRow(v) \/ (\E a \in Actions : ExecuteAction(v, a)) \/ LoadPolicy(v)
<1> USE DEF Typed, TypeOK, SameRow
<1>1. ASSUME NEW w \in Workers, Execute(w) PROVE Goal
  <2>1. ASSUME NEW a \in Actions, ExecuteAction(w, a)
        PROVE  Goal
    <3>1. CASE v = w
      BY <2>1, <3>1
    <3>2. CASE v # w
      BY <2>1, <3>2 DEF ExecuteAction
    <3> QED
      BY <3>1, <3>2
  <2>2. CASE StopAtLookup(w)
    BY <2>2 DEF StopAtLookup, Finish
  <2>3. CASE LoadPolicy(w)
    <3>1. CASE v = w
      BY <2>3, <3>1
    <3>2. CASE v # w
      BY <2>3, <3>2 DEF LoadPolicy
    <3> QED
      BY <3>1, <3>2
  <2>4. CASE BlockAtRuntime(w)
    BY <2>4 DEF BlockAtRuntime, RecordRuling, Finish
  <2>5. CASE AskForApproval(w)
    BY <2>5 DEF AskForApproval, RecordRuling, Finish
  <2>6. CASE LoseRace(w)
    BY <2>6 DEF LoseRace, KeyIsFree, Finish
  <2>7. CASE ClaimBudget(w)
    BY <2>7 DEF ClaimBudget, KeyIsFree, RecordRuling
  <2>8. CASE MarkExecuting(w)
    BY <2>8 DEF MarkExecuting, GoTo
  <2>9. CASE SendRequest(w)
    BY <2>9 DEF SendRequest, GoTo
  <2> QED
    BY <1>1, <2>1, <2>2, <2>3, <2>4, <2>5, <2>6, <2>7, <2>8, <2>9 DEF Execute
<1>2. ASSUME NEW w \in Workers, Call(w) PROVE Goal
  <2>1. CASE RazorpayCreates(w)
    BY <2>1 DEF RazorpayCreates, Waiting, GoTo
  <2>2. CASE RazorpayRejects(w)
    BY <2>2 DEF RazorpayRejects, Waiting, GoTo
  <2>3. CASE RazorpayReportsDuplicate(w)
    BY <2>3 DEF RazorpayReportsDuplicate, Waiting, AfterDuplicate, GoTo
  <2>4. CASE RetryableError(w)
    BY <2>4 DEF RetryableError, Waiting, AfterRetryable, Finish
  <2> QED
    BY <1>2, <2>1, <2>2, <2>3, <2>4 DEF Call
<1>3. ASSUME NEW w \in Workers, Settle(w) PROVE Goal
  <2>1. CASE WriteSucceeded(w)
    BY <2>1 DEF WriteSucceeded, GoTo
  <2>2. CASE WriteFailed(w)
    BY <2>2 DEF WriteFailed, GoTo
  <2>3. CASE MarkSettled(w)
    BY <2>3 DEF MarkSettled, Finish
  <2> QED
    BY <1>3, <2>1, <2>2, <2>3 DEF Settle
<1>4. ASSUME NEW w \in Workers, Resolve(w) PROVE Goal
  <2>1. ASSUME NEW k \in Keys, ResolvePending(w, k)
        PROVE  Goal
    BY <2>1 DEF ResolvePending, Unresolved
  <2>2. CASE ResendRequest(w)
    BY <2>2 DEF ResendRequest, GoTo
  <2>3. CASE FindLink(w)
    BY <2>3 DEF FindLink, GoTo
  <2>4. CASE LinkNotRetrievable(w)
    BY <2>4 DEF LinkNotRetrievable, Finish
  <2> QED
    BY <1>4, <2>1, <2>2, <2>3, <2>4 DEF Resolve
<1>5. ASSUME NEW w \in Workers, Decide(w) PROVE Goal
  <2>1. ASSUME NEW a \in Actions, OpenDecision(w, a)
        PROVE  Goal
    BY <2>1 DEF OpenDecision
  <2>2. ASSUME NEW answer \in {"granted", "denied"}, CommitDecision(w, answer)
        PROVE  Goal
    BY <2>2 DEF CommitDecision, Undecided, Finish
  <2>3. CASE AlreadyDecided(w)
    BY <2>3 DEF AlreadyDecided, Undecided, Finish
  <2> QED
    BY <1>5, <2>1, <2>2, <2>3 DEF Decide
<1>6. ASSUME NEW w \in Workers, Crash(w) PROVE Goal
  BY <1>6 DEF Crash, Waiting, Finish
<1>7. CASE Environment
  <2>1. CASE Tick
    BY <2>1 DEF Tick
  <2>2. ASSUME NEW a \in Actions, PaymentCaptured(a)
        PROVE  Goal
    BY <2>2 DEF PaymentCaptured
  <2>3. ASSUME NEW a \in Actions, CustomerOptsOut(a)
        PROVE  Goal
    BY <2>3 DEF CustomerOptsOut
  <2>4. ASSUME NEW p \in Policies, ChangePolicy(p)
        PROVE  Goal
    BY <2>4 DEF ChangePolicy
  <2>5. ASSUME NEW a \in Actions, NEW m \in Amended, AmendAmount(a, m)
        PROVE  Goal
    BY <2>5 DEF AmendAmount
  <2>6. ASSUME NEW k \in Keys, LateRequestArrives(k)
        PROVE  Goal
    BY <2>6 DEF LateRequestArrives
  <2> QED
    BY <1>7, <2>1, <2>2, <2>3, <2>4, <2>5, <2>6 DEF Environment
<1>8. CASE UNCHANGED vars
  BY <1>8 DEF vars
<1> QED
  BY <1>1, <1>2, <1>3, <1>4, <1>5, <1>6, <1>7, <1>8 DEF Next

\* What the run-time evaluation permits without an approval is within the
\* autonomous limit of the configuration that was loaded.
LEMMA ClaimRespectsLimit ==
  ASSUME Typed, RowsStayTrue,
         NEW w \in Workers, pc[w] = "claim", Permitted(w),
         ActionType[ActionOf(job[w])] \in FinancialActions,
         AmountOf(job[w]) > loaded[w].maxAuto
  PROVE  approval[ActionOf(job[w])] = "granted"
<1>1. CASE RuntimeDecision(w) = "AUTO_APPROVED"
  <2>1. Evaluate(ActionAsRead(w), ContextAsRead(w), loaded[w]) = "AUTO_APPROVED"
    BY <1>1 DEF RuntimeDecision, RuntimeRule, Evaluate
  <2>2. ~OverAutoLimit(ActionAsRead(w), ContextAsRead(w), loaded[w])
    BY <2>1, PermitIsWithinLimits
  <2>3. loaded[w] \in Policies /\ seen[w].amount = AmountOf(job[w])
    BY DEF Typed, JobsAndRows, RowsStayTrue
  <2>4. ~(AmountOf(job[w]) > loaded[w].maxAuto)
    BY <2>2, <2>3 DEF OverAutoLimit, IsFinancial, ActionAsRead
  <2> QED
    BY <2>3, <2>4
<1>2. CASE RuntimeDecision(w) # "AUTO_APPROVED"
  BY <1>2 DEF Permitted, RowsStayTrue
<1> QED
  BY <1>1, <1>2

\* The fact about one execution that ExecutionNeedsAuthority states of all.
Deserved(k) ==
  /\ AmountOf(k) = RuledAmount[ActionOf(k)]
  /\ HasAuthority(ActionOf(k))
  /\ runtimeRulings[ActionOf(k)] \cap {"AUTO_APPROVED", "REQUIRES_APPROVAL"} # {}
  /\ (/\ ActionType[ActionOf(k)] \in FinancialActions
      /\ \A p \in Policies : AmountOf(k) > p.maxAuto)
       => approval[ActionOf(k)] = "granted"

\* ... and the one about one worker that RowsStayTrue states of all.
RowStaysTrue(v) ==
  pc[v] \in {"lookup", "claim"} =>
    /\ HasAuthority(ActionOf(job[v]))
    /\ seen[v].amount = AmountOf(job[v])
    /\ seen[v].approval = "granted" => approval[ActionOf(job[v])] = "granted"
    /\ pc[v] = "claim" => seen[v].amount = RuledAmount[ActionOf(job[v])]

LEMMA AuthorityIsKept ==
  ASSUME ConsentGrows, NEW a \in Actions, HasAuthority(a)
  PROVE  HasAuthority(a)'
BY DEF ConsentGrows, HasAuthority

LEMMA DeservedIsKept ==
  ASSUME ConsentGrows, NEW k \in Keys, Deserved(k)
  PROVE  Deserved(k)'
<1>1. ActionOf(k) \in Actions
  BY KeyParts
<1>2. HasAuthority(ActionOf(k))'
  BY <1>1, AuthorityIsKept DEF Deserved
<1>3. runtimeRulings'[ActionOf(k)] \cap {"AUTO_APPROVED", "REQUIRES_APPROVAL"} # {}
  BY <1>1 DEF Deserved, ConsentGrows
<1>4. approval[ActionOf(k)] = "granted" => approval'[ActionOf(k)] = "granted"
  BY <1>1 DEF ConsentGrows
<1> QED
  BY <1>2, <1>3, <1>4 DEF Deserved

LEMMA RowsStayTrueStep ==
  ASSUME Typed, RowsStayTrue, [Next]_vars
  PROVE  RowsStayTrue'
<1> SUFFICES ASSUME NEW v \in Workers PROVE RowStaysTrue(v)'
  BY DEF RowsStayTrue, RowStaysTrue
<1>1. ConsentGrows
  BY ConsentStep
<1>2. RowStaysTrue(v) /\ (pc[v] # "idle" => ActionOf(job[v]) \in Actions)
  BY KeyParts DEF RowsStayTrue, RowStaysTrue, Typed, JobsAndRows
<1>3. CASE SameRow(v)
  <2> SUFFICES ASSUME pc'[v] \in {"lookup", "claim"} PROVE RowStaysTrue(v)'
    BY DEF RowStaysTrue
  <2>1. pc'[v] = pc[v] /\ job'[v] = job[v] /\ seen'[v] = seen[v]
    BY <1>3 DEF SameRow
  <2>2. HasAuthority(ActionOf(job[v]))' /\ ActionOf(job[v]) \in Actions
    <3>1. HasAuthority(ActionOf(job[v])) /\ ActionOf(job[v]) \in Actions
      BY <1>2, <2>1 DEF RowStaysTrue
    <3> QED
      BY <1>1, <2>1, <3>1 DEF HasAuthority, ConsentGrows
  <2>3. approval[ActionOf(job[v])] = "granted"
          => approval'[ActionOf(job[v])] = "granted"
    BY <1>1, <2>2 DEF ConsentGrows
  <2> QED
    BY <1>2, <2>1, <2>2, <2>3 DEF RowStaysTrue
<1>4. ASSUME NEW a \in Actions, ExecuteAction(v, a)
      PROVE  RowStaysTrue(v)'
  <2>1. amount[a] \in Amounts
    BY DEF Typed, TypeOK
  <2>2. ActionOf(<<a, amount[a]>>) = a /\ AmountOf(<<a, amount[a]>>) = amount[a]
    BY <2>1, PairIsKey
  <2>3. /\ job'[v] = <<a, amount[a]>> /\ pc'[v] = "lookup"
        /\ seen'[v].amount = amount[a] /\ seen'[v].approval = approval[a]
        /\ approval' = approval /\ ruling' = ruling
    BY <1>4 DEF ExecuteAction, Typed, TypeOK
  <2>4. HasAuthority(a)'
    BY <1>1, <1>4, AuthorityIsKept DEF ExecuteAction
  <2>5. HasAuthority(ActionOf(job[v]))'
    BY <2>2, <2>3, <2>4 DEF HasAuthority
  <2> QED
    BY <2>2, <2>3, <2>5 DEF RowStaysTrue
<1>5. CASE LoadPolicy(v)
  <2>1. /\ pc[v] = "lookup" /\ MayStart(v)
        /\ job' = job /\ seen' = seen /\ approval' = approval /\ ruling' = ruling
    BY <1>5 DEF LoadPolicy
  <2> QED
    BY <1>2, <2>1 DEF RowStaysTrue, MayStart, HasAuthority
<1> QED
  BY <1>3, <1>4, <1>5, OnlyReadsChangeRows

LEMMA ExecutionNeedsAuthorityStep ==
  ASSUME Typed, Backed, RowsStayTrue, ExecutionNeedsAuthority, [Next]_vars
  PROVE  ExecutionNeedsAuthority'
<1> SUFFICES ASSUME NEW k \in Keys, execStatus'[k] # "none"
             PROVE  Deserved(k)'
  BY DEF ExecutionNeedsAuthority, Deserved
<1>1. ConsentGrows
  BY ConsentStep
<1>2. CASE execStatus[k] # "none"
  <2>1. Deserved(k)
    BY <1>2 DEF ExecutionNeedsAuthority, Deserved
  <2> QED
    BY <1>1, <2>1, DeservedIsKept
<1>3. ASSUME execStatus[k] = "none", NEW w \in Workers, ClaimBudget(w)
      PROVE  Deserved(k)'
  <2>1. k = job[w] /\ pc[w] = "claim" /\ Permitted(w)
        /\ approval' = approval /\ ruling' = ruling
    BY <1>3 DEF ClaimBudget, KeyIsFree, Typed, TypeOK
  <2>2. ActionOf(k) \in Actions
    BY KeyParts
  <2>3. AmountOf(k) = RuledAmount[ActionOf(k)] /\ HasAuthority(ActionOf(k))
    BY <2>1 DEF RowsStayTrue
  <2>4. RuntimeDecision(w) \in runtimeRulings'[ActionOf(k)]
    BY <1>3, <2>1, <2>2 DEF ClaimBudget, KeyIsFree, RecordRuling, Typed, TypeOK
  <2>5. RuntimeDecision(w) \in {"AUTO_APPROVED", "REQUIRES_APPROVAL"}
    BY <2>1 DEF Permitted
  <2>6. (/\ ActionType[ActionOf(k)] \in FinancialActions
         /\ \A p \in Policies : AmountOf(k) > p.maxAuto)
          => approval[ActionOf(k)] = "granted"
    <3>1. pc[w] = "claim" /\ loaded[w] \in Policies
      BY <2>1 DEF ClaimBudget, Typed, JobsAndRows
    <3> QED
      BY <2>1, <3>1, ClaimRespectsLimit
  <2>7. HasAuthority(ActionOf(k))'
    BY <2>1, <2>3 DEF HasAuthority
  <2> QED
    BY <2>1, <2>3, <2>4, <2>5, <2>6, <2>7 DEF Deserved
<1> QED
  BY <1>2, <1>3, OnlyClaimsCreate

-----------------------------------------------------------------------------
(* Answers and success.                                                    *)

LEMMA OnlyEscalatedStep ==
  ASSUME Typed, OnlyEscalatedAreDecided, [Next]_vars
  PROVE  OnlyEscalatedAreDecided'
<1>0. ruling' = ruling
  BY ConsentStep DEF ConsentGrows
<1> USE DEF Typed, TypeOK, JobsAndRows, OnlyEscalatedAreDecided
<1>1. ASSUME NEW w \in Workers, Execute(w) PROVE OnlyEscalatedAreDecided'
  <2>1. ASSUME NEW a \in Actions, ExecuteAction(w, a)
        PROVE  OnlyEscalatedAreDecided'
    BY <2>1, <1>0 DEF ExecuteAction
  <2>2. CASE StopAtLookup(w)
    BY <2>2, <1>0 DEF StopAtLookup, Finish
  <2>3. CASE LoadPolicy(w)
    BY <2>3, <1>0 DEF LoadPolicy
  <2>4. CASE BlockAtRuntime(w)
    BY <2>4, <1>0 DEF BlockAtRuntime, RecordRuling, Finish
  <2>5. CASE AskForApproval(w)
    BY <2>5, <1>0 DEF AskForApproval, RecordRuling, Finish
  <2>6. CASE LoseRace(w)
    BY <2>6, <1>0 DEF LoseRace, KeyIsFree, Finish
  <2>7. CASE ClaimBudget(w)
    BY <2>7, <1>0 DEF ClaimBudget, KeyIsFree, RecordRuling
  <2>8. CASE MarkExecuting(w)
    BY <2>8, <1>0 DEF MarkExecuting, GoTo
  <2>9. CASE SendRequest(w)
    BY <2>9, <1>0 DEF SendRequest, GoTo
  <2> QED
    BY <1>1, <2>1, <2>2, <2>3, <2>4, <2>5, <2>6, <2>7, <2>8, <2>9 DEF Execute
<1>2. ASSUME NEW w \in Workers, Call(w) PROVE OnlyEscalatedAreDecided'
  <2>1. CASE RazorpayCreates(w)
    BY <2>1, <1>0 DEF RazorpayCreates, Waiting, GoTo
  <2>2. CASE RazorpayRejects(w)
    BY <2>2, <1>0 DEF RazorpayRejects, Waiting, GoTo
  <2>3. CASE RazorpayReportsDuplicate(w)
    BY <2>3, <1>0 DEF RazorpayReportsDuplicate, Waiting, AfterDuplicate, GoTo
  <2>4. CASE RetryableError(w)
    BY <2>4, <1>0 DEF RetryableError, Waiting, AfterRetryable, Finish
  <2> QED
    BY <1>2, <2>1, <2>2, <2>3, <2>4 DEF Call
<1>3. ASSUME NEW w \in Workers, Settle(w) PROVE OnlyEscalatedAreDecided'
  <2>1. CASE WriteSucceeded(w)
    BY <2>1, <1>0 DEF WriteSucceeded, GoTo
  <2>2. CASE WriteFailed(w)
    BY <2>2, <1>0 DEF WriteFailed, GoTo
  <2>3. CASE MarkSettled(w)
    BY <2>3, <1>0 DEF MarkSettled, Finish
  <2> QED
    BY <1>3, <2>1, <2>2, <2>3 DEF Settle
<1>4. ASSUME NEW w \in Workers, Resolve(w) PROVE OnlyEscalatedAreDecided'
  <2>1. ASSUME NEW k \in Keys, ResolvePending(w, k)
        PROVE  OnlyEscalatedAreDecided'
    BY <2>1, <1>0 DEF ResolvePending, Unresolved
  <2>2. CASE ResendRequest(w)
    BY <2>2, <1>0 DEF ResendRequest, GoTo
  <2>3. CASE FindLink(w)
    BY <2>3, <1>0 DEF FindLink, GoTo
  <2>4. CASE LinkNotRetrievable(w)
    BY <2>4, <1>0 DEF LinkNotRetrievable, Finish
  <2> QED
    BY <1>4, <2>1, <2>2, <2>3, <2>4 DEF Resolve
<1>5. ASSUME NEW w \in Workers, Decide(w) PROVE OnlyEscalatedAreDecided'
  <2>1. ASSUME NEW a \in Actions, OpenDecision(w, a)
        PROVE  OnlyEscalatedAreDecided'
    <3>1. amount[a] \in Amounts
      OBVIOUS
    <3>2. ActionOf(<<a, amount[a]>>) = a
      BY <3>1, PairIsKey
    <3> QED
      BY <1>0, <2>1, <3>2 DEF OpenDecision
  <2>2. ASSUME NEW answer \in {"granted", "denied"}, CommitDecision(w, answer)
        PROVE  OnlyEscalatedAreDecided'
    BY <2>2, <1>0 DEF CommitDecision, Undecided, Finish
  <2>3. CASE AlreadyDecided(w)
    BY <2>3, <1>0 DEF AlreadyDecided, Undecided, Finish
  <2> QED
    BY <1>5, <2>1, <2>2, <2>3 DEF Decide
<1>6. ASSUME NEW w \in Workers, Crash(w) PROVE OnlyEscalatedAreDecided'
  BY <1>6, <1>0 DEF Crash, Waiting, Finish
<1>7. CASE Environment
  <2>1. CASE Tick
    BY <2>1, <1>0 DEF Tick
  <2>2. ASSUME NEW a \in Actions, PaymentCaptured(a)
        PROVE  OnlyEscalatedAreDecided'
    BY <2>2, <1>0 DEF PaymentCaptured
  <2>3. ASSUME NEW a \in Actions, CustomerOptsOut(a)
        PROVE  OnlyEscalatedAreDecided'
    BY <2>3, <1>0 DEF CustomerOptsOut
  <2>4. ASSUME NEW p \in Policies, ChangePolicy(p)
        PROVE  OnlyEscalatedAreDecided'
    BY <2>4, <1>0 DEF ChangePolicy
  <2>5. ASSUME NEW a \in Actions, NEW m \in Amended, AmendAmount(a, m)
        PROVE  OnlyEscalatedAreDecided'
    BY <2>5, <1>0 DEF AmendAmount
  <2>6. ASSUME NEW k \in Keys, LateRequestArrives(k)
        PROVE  OnlyEscalatedAreDecided'
    BY <2>6, <1>0 DEF LateRequestArrives
  <2> QED
    BY <1>7, <2>1, <2>2, <2>3, <2>4, <2>5, <2>6 DEF Environment
<1>8. CASE UNCHANGED vars
  BY <1>8 DEF vars
<1> QED
  BY <1>1, <1>2, <1>3, <1>4, <1>5, <1>6, <1>7, <1>8 DEF Next

Real == SuccessFollowsLink /\ SuccessIsReal

LEMMA RealStep ==
  ASSUME Typed, Real, [Next]_vars
  PROVE  Real'
<1>0. \A v \in Workers : pc[v] # "idle" => ActionOf(job[v]) \in Actions
  BY KeyParts DEF Typed, JobsAndRows
<1> USE DEF Typed, TypeOK, JobsAndRows, Real, SuccessFollowsLink, SuccessIsReal
<1>1. ASSUME NEW w \in Workers, Execute(w) PROVE Real'
  <2>1. ASSUME NEW a \in Actions, ExecuteAction(w, a)
        PROVE  Real'
    BY <2>1, <1>0 DEF ExecuteAction
  <2>2. CASE StopAtLookup(w)
    BY <2>2, <1>0 DEF StopAtLookup, Finish
  <2>3. CASE LoadPolicy(w)
    BY <2>3, <1>0 DEF LoadPolicy
  <2>4. CASE BlockAtRuntime(w)
    BY <2>4, <1>0 DEF BlockAtRuntime, RecordRuling, Finish
  <2>5. CASE AskForApproval(w)
    BY <2>5, <1>0 DEF AskForApproval, RecordRuling, Finish
  <2>6. CASE LoseRace(w)
    BY <2>6, <1>0 DEF LoseRace, KeyIsFree, Finish
  <2>7. CASE ClaimBudget(w)
    BY <2>7, <1>0 DEF ClaimBudget, KeyIsFree, RecordRuling
  <2>8. CASE MarkExecuting(w)
    BY <2>8, <1>0 DEF MarkExecuting, GoTo
  <2>9. CASE SendRequest(w)
    BY <2>9, <1>0 DEF SendRequest, GoTo
  <2> QED
    BY <1>1, <2>1, <2>2, <2>3, <2>4, <2>5, <2>6, <2>7, <2>8, <2>9 DEF Execute
<1>2. ASSUME NEW w \in Workers, Call(w) PROVE Real'
  <2>1. CASE RazorpayCreates(w)
    BY <2>1, <1>0 DEF RazorpayCreates, Waiting, GoTo
  <2>2. CASE RazorpayRejects(w)
    BY <2>2, <1>0 DEF RazorpayRejects, Waiting, GoTo
  <2>3. CASE RazorpayReportsDuplicate(w)
    BY <2>3, <1>0 DEF RazorpayReportsDuplicate, Waiting, AfterDuplicate, GoTo
  <2>4. CASE RetryableError(w)
    BY <2>4, <1>0 DEF RetryableError, Waiting, AfterRetryable, Finish
  <2> QED
    BY <1>2, <2>1, <2>2, <2>3, <2>4 DEF Call
<1>3. ASSUME NEW w \in Workers, Settle(w) PROVE Real'
  <2>1. CASE WriteSucceeded(w)
    BY <2>1, <1>0 DEF WriteSucceeded, GoTo
  <2>2. CASE WriteFailed(w)
    BY <2>2, <1>0 DEF WriteFailed, GoTo
  <2>3. CASE MarkSettled(w)
    BY <2>3, <1>0 DEF MarkSettled, Finish
  <2> QED
    BY <1>3, <2>1, <2>2, <2>3 DEF Settle
<1>4. ASSUME NEW w \in Workers, Resolve(w) PROVE Real'
  <2>1. ASSUME NEW k \in Keys, ResolvePending(w, k)
        PROVE  Real'
    BY <2>1, <1>0 DEF ResolvePending, Unresolved
  <2>2. CASE ResendRequest(w)
    BY <2>2, <1>0 DEF ResendRequest, GoTo
  <2>3. CASE FindLink(w)
    BY <2>3, <1>0 DEF FindLink, GoTo
  <2>4. CASE LinkNotRetrievable(w)
    BY <2>4, <1>0 DEF LinkNotRetrievable, Finish
  <2> QED
    BY <1>4, <2>1, <2>2, <2>3, <2>4 DEF Resolve
<1>5. ASSUME NEW w \in Workers, Decide(w) PROVE Real'
  <2>1. ASSUME NEW a \in Actions, OpenDecision(w, a)
        PROVE  Real'
    BY <2>1, <1>0 DEF OpenDecision
  <2>2. ASSUME NEW answer \in {"granted", "denied"}, CommitDecision(w, answer)
        PROVE  Real'
    BY <2>2, <1>0 DEF CommitDecision, Undecided, Finish
  <2>3. CASE AlreadyDecided(w)
    BY <2>3, <1>0 DEF AlreadyDecided, Undecided, Finish
  <2> QED
    BY <1>5, <2>1, <2>2, <2>3 DEF Decide
<1>6. ASSUME NEW w \in Workers, Crash(w) PROVE Real'
  BY <1>6, <1>0 DEF Crash, Waiting, Finish
<1>7. CASE Environment
  <2>1. CASE Tick
    BY <2>1, <1>0 DEF Tick
  <2>2. ASSUME NEW a \in Actions, PaymentCaptured(a)
        PROVE  Real'
    BY <2>2, <1>0 DEF PaymentCaptured
  <2>3. ASSUME NEW a \in Actions, CustomerOptsOut(a)
        PROVE  Real'
    BY <2>3, <1>0 DEF CustomerOptsOut
  <2>4. ASSUME NEW p \in Policies, ChangePolicy(p)
        PROVE  Real'
    BY <2>4, <1>0 DEF ChangePolicy
  <2>5. ASSUME NEW a \in Actions, NEW m \in Amended, AmendAmount(a, m)
        PROVE  Real'
    BY <2>5, <1>0 DEF AmendAmount
  <2>6. ASSUME NEW k \in Keys, LateRequestArrives(k)
        PROVE  Real'
    BY <2>6, <1>0 DEF LateRequestArrives
  <2> QED
    BY <1>7, <2>1, <2>2, <2>3, <2>4, <2>5, <2>6 DEF Environment
<1>8. CASE UNCHANGED vars
  BY <1>8 DEF vars
<1> QED
  BY <1>1, <1>2, <1>3, <1>4, <1>5, <1>6, <1>7, <1>8 DEF Next
-----------------------------------------------------------------------------
(* A human answer stands.                                                  *)

\* The four steps that write a status.
StatusMoves ==
  \E w \in Workers :
    \/ BlockAtRuntime(w) \/ MarkExecuting(w) \/ MarkSettled(w)
    \/ \E answer \in {"granted", "denied"} : CommitDecision(w, answer)

LEMMA OnlyTheseWriteStatus ==
  [Next]_vars => status' = status \/ StatusMoves
<1> SUFFICES ASSUME [Next]_vars PROVE status' = status \/ StatusMoves
  OBVIOUS
<1> DEFINE Goal == status' = status \/ StatusMoves
<1>1. ASSUME NEW w \in Workers, Execute(w) PROVE Goal
  <2>1. ASSUME NEW a \in Actions, ExecuteAction(w, a)
        PROVE  Goal
    BY <2>1 DEF ExecuteAction
  <2>2. CASE StopAtLookup(w)
    BY <2>2 DEF StopAtLookup, Finish
  <2>3. CASE LoadPolicy(w)
    BY <2>3 DEF LoadPolicy
  <2>4. CASE BlockAtRuntime(w)
    BY <2>4 DEF StatusMoves
  <2>5. CASE AskForApproval(w)
    BY <2>5 DEF AskForApproval, RecordRuling, Finish
  <2>6. CASE LoseRace(w)
    BY <2>6 DEF LoseRace, KeyIsFree, Finish
  <2>7. CASE ClaimBudget(w)
    BY <2>7 DEF ClaimBudget, KeyIsFree
  <2>8. CASE MarkExecuting(w)
    BY <2>8 DEF StatusMoves
  <2>9. CASE SendRequest(w)
    BY <2>9 DEF SendRequest, GoTo
  <2> QED
    BY <1>1, <2>1, <2>2, <2>3, <2>4, <2>5, <2>6, <2>7, <2>8, <2>9 DEF Execute
<1>2. ASSUME NEW w \in Workers, Call(w) PROVE Goal
  <2>1. CASE RazorpayCreates(w)
    BY <2>1 DEF RazorpayCreates, GoTo
  <2>2. CASE RazorpayRejects(w)
    BY <2>2 DEF RazorpayRejects, Waiting, GoTo
  <2>3. CASE RazorpayReportsDuplicate(w)
    BY <2>3 DEF RazorpayReportsDuplicate, Waiting, AfterDuplicate, GoTo
  <2>4. CASE RetryableError(w)
    BY <2>4 DEF RetryableError, Waiting, AfterRetryable, Finish
  <2> QED
    BY <1>2, <2>1, <2>2, <2>3, <2>4 DEF Call
<1>3. ASSUME NEW w \in Workers, Settle(w) PROVE Goal
  <2>1. CASE WriteSucceeded(w)
    BY <2>1 DEF WriteSucceeded, GoTo
  <2>2. CASE WriteFailed(w)
    BY <2>2 DEF WriteFailed, GoTo
  <2>3. CASE MarkSettled(w)
    BY <2>3 DEF StatusMoves
  <2> QED
    BY <1>3, <2>1, <2>2, <2>3 DEF Settle
<1>4. ASSUME NEW w \in Workers, Resolve(w) PROVE Goal
  <2>1. ASSUME NEW k \in Keys, ResolvePending(w, k)
        PROVE  Goal
    BY <2>1 DEF ResolvePending, Unresolved
  <2>2. CASE ResendRequest(w)
    BY <2>2 DEF ResendRequest, GoTo
  <2>3. CASE FindLink(w)
    BY <2>3 DEF FindLink, GoTo
  <2>4. CASE LinkNotRetrievable(w)
    BY <2>4 DEF LinkNotRetrievable, Finish
  <2> QED
    BY <1>4, <2>1, <2>2, <2>3, <2>4 DEF Resolve
<1>5. ASSUME NEW w \in Workers, Decide(w) PROVE Goal
  <2>1. ASSUME NEW a \in Actions, OpenDecision(w, a)
        PROVE  Goal
    BY <2>1 DEF OpenDecision
  <2>2. ASSUME NEW answer \in {"granted", "denied"}, CommitDecision(w, answer)
        PROVE  Goal
    BY <2>2 DEF StatusMoves
  <2>3. CASE AlreadyDecided(w)
    BY <2>3 DEF AlreadyDecided, Undecided, Finish
  <2> QED
    BY <1>5, <2>1, <2>2, <2>3 DEF Decide
<1>6. ASSUME NEW w \in Workers, Crash(w) PROVE Goal
  BY <1>6 DEF Crash, Waiting, Finish
<1>7. CASE Environment
  <2>1. CASE Tick
    BY <2>1 DEF Tick
  <2>2. ASSUME NEW a \in Actions, PaymentCaptured(a)
        PROVE  Goal
    BY <2>2 DEF PaymentCaptured
  <2>3. ASSUME NEW a \in Actions, CustomerOptsOut(a)
        PROVE  Goal
    BY <2>3 DEF CustomerOptsOut
  <2>4. ASSUME NEW p \in Policies, ChangePolicy(p)
        PROVE  Goal
    BY <2>4 DEF ChangePolicy
  <2>5. ASSUME NEW a \in Actions, NEW m \in Amended, AmendAmount(a, m)
        PROVE  Goal
    BY <2>5 DEF AmendAmount
  <2>6. ASSUME NEW k \in Keys, LateRequestArrives(k)
        PROVE  Goal
    BY <2>6 DEF LateRequestArrives
  <2> QED
    BY <1>7, <2>1, <2>2, <2>3, <2>4, <2>5, <2>6 DEF Environment
<1>8. CASE UNCHANGED vars
  BY <1>8 DEF vars
<1> QED
  BY <1>1, <1>2, <1>3, <1>4, <1>5, <1>6, <1>7, <1>8 DEF Next

\* An action a human denied has no authority, so no call works on it.
LEMMA DeniedIsLeftAlone ==
  ASSUME Inductive, [Next]_vars, NEW a \in Actions, approval[a] = "denied"
  PROVE  status'[a] = status[a]
<1> USE DEF Inductive, TypeOK, JobsAndRows, Steps
<1>1. ~HasAuthority(a)
  BY DEF OnlyEscalatedAreDecided, HasAuthority
<1>2. \A w \in Workers :
        pc[w] \notin {"idle", "lookup", "decide"} => ActionOf(job[w]) # a
  BY <1>1 DEF RowsStayTrue, WorksOnExecution, ExecutionNeedsAuthority
<1>3. ASSUME NEW w \in Workers, BlockAtRuntime(w) PROVE status'[a] = status[a]
  BY <1>2, <1>3 DEF BlockAtRuntime
<1>4. ASSUME NEW w \in Workers, MarkExecuting(w) PROVE status'[a] = status[a]
  BY <1>2, <1>4 DEF MarkExecuting
<1>5. ASSUME NEW w \in Workers, MarkSettled(w) PROVE status'[a] = status[a]
  BY <1>2, <1>5 DEF MarkSettled
<1>6. ASSUME NEW w \in Workers, NEW answer \in {"granted", "denied"},
             CommitDecision(w, answer)
      PROVE  status'[a] = status[a]
  BY <1>6 DEF CommitDecision, Undecided
<1> QED
  BY <1>3, <1>4, <1>5, <1>6, OnlyTheseWriteStatus DEF StatusMoves

-----------------------------------------------------------------------------
(* The inductive invariant.                                                *)

LEMMA InductiveInit == Init => Inductive
<1> SUFFICES ASSUME Init PROVE Inductive
  OBVIOUS
<1>1. TypeOK /\ JobsAndRows
  BY TypedInit DEF Typed
<1>2. RowsStayTrue /\ WorksOnExecution /\ SuccessFollowsLink
  BY DEF Init, RowsStayTrue, WorksOnExecution, SuccessFollowsLink
<1>3. ExecutionNeedsAuthority /\ RequestsHaveExecutions
  BY DEF Init, ExecutionNeedsAuthority, RequestsHaveExecutions
<1>4. OnlyEscalatedAreDecided
  BY DEF Init, OnlyEscalatedAreDecided, StatusFor, Decisions
<1>5. \A a \in Actions : status[a] # "executed"
  BY DEF Init, StatusFor, Decisions
<1>6. SuccessIsReal
  BY <1>5, KeyParts DEF Init, SuccessIsReal
<1> QED
  BY <1>1, <1>2, <1>3, <1>4, <1>6 DEF Inductive

LEMMA InductiveStep == Inductive /\ [Next]_vars => Inductive'
<1> SUFFICES ASSUME Inductive, [Next]_vars PROVE Inductive'
  OBVIOUS
<1>1. Typed /\ Backed /\ Real
  BY DEF Inductive, Typed, Backed, Real
<1>2. RowsStayTrue /\ ExecutionNeedsAuthority /\ OnlyEscalatedAreDecided
  BY DEF Inductive
<1>3. Typed' /\ Backed' /\ Real'
  BY <1>1, TypedStep, BackedStep, RealStep
<1>4. RowsStayTrue'
  BY <1>1, <1>2, RowsStayTrueStep
<1>5. ExecutionNeedsAuthority'
  BY <1>1, <1>2, ExecutionNeedsAuthorityStep
<1>6. OnlyEscalatedAreDecided'
  BY <1>1, <1>2, OnlyEscalatedStep
<1> QED
  BY <1>3, <1>4, <1>5, <1>6 DEF Inductive, Typed, Backed, Real

\* What is true of every task, execution and link at each step.
THEOREM InvariantHolds == Spec => []Inductive
<1> QED
  BY InductiveInit, InductiveStep, PTL DEF Spec

-----------------------------------------------------------------------------
(* What follows from it.                                                   *)

\* Two executions of one action would have one amount, hence one key.
LEMMA OneKeyPerAction == Inductive => OneExecutionPerAction
<1> SUFFICES ASSUME Inductive, NEW a \in Actions,
                    NEW k \in Executions(a), NEW l \in Executions(a)
             PROVE  k = l
  BY DEF OneExecutionPerAction
<1>1. /\ k \in Keys /\ ActionOf(k) = a /\ AmountOf(k) = RuledAmount[a]
      /\ l \in Keys /\ ActionOf(l) = a /\ AmountOf(l) = RuledAmount[a]
  BY DEF Inductive, ExecutionNeedsAuthority, Executions
<1> QED
  BY <1>1, KeyIsPair

LEMMA LinksAreDeserved ==
  Inductive => LinkNeedsAuthority /\ LargeLinkHasApproval /\ LinkIsExplained
<1> SUFFICES ASSUME Inductive, NEW k \in links
             PROVE  /\ k \in Executions(ActionOf(k))
                    /\ Deserved(k)
  BY DEF LinkNeedsAuthority, LargeLinkHasApproval, LinkIsExplained, Deserved
<1>1. k \in Keys /\ execStatus[k] # "none"
  BY DEF Inductive, TypeOK, RequestsHaveExecutions
<1> QED
  BY <1>1 DEF Inductive, ExecutionNeedsAuthority, Deserved, Executions

\* An action is executed at most once, however its row is edited and however
\* many workers run it.
THEOREM AtMostOnce == Spec => []OneExecutionPerAction
<1> QED
  BY InvariantHolds, OneKeyPerAction, PTL

\* Every payable link belongs to an execution of the ruled amount, authorised
\* by policy or by a human.
THEOREM NoLinkWithoutAuthority == Spec => []LinkNeedsAuthority
<1> QED
  BY InvariantHolds, LinksAreDeserved, PTL

\* A link above every autonomous limit has a recorded human approval.
THEOREM NoLargeLinkWithoutApproval == Spec => []LargeLinkHasApproval
<1> QED
  BY InvariantHolds, LinksAreDeserved, PTL

\* Every link is explained by a recorded run-time ruling.
THEOREM NoUnexplainedLink == Spec => []LinkIsExplained
<1> QED
  BY InvariantHolds, LinksAreDeserved, PTL

\* Reported success is backed by a link Razorpay has.
THEOREM NoFabricatedSuccess == Spec => []SuccessIsReal
<1>1. Inductive => SuccessIsReal
  BY DEF Inductive
<1> QED
  BY <1>1, InvariantHolds, PTL

\* A call about to mark or to send was not: it has just claimed.
StillAboutTo(v) ==
  pc'[v] \in {"mark", "send"} =>
    pc[v] \in {"mark", "send"} /\ job'[v] = job[v] /\ loaded'[v] = loaded[v]

LEMMA OnlyClaimsStartCalls ==
  ASSUME Typed, [Next]_vars, NEW v \in Workers
  PROVE  StillAboutTo(v) \/ ClaimBudget(v)
<1> USE DEF Typed, TypeOK, Steps, StillAboutTo
<1> DEFINE Goal == StillAboutTo(v) \/ ClaimBudget(v)
<1>1. ASSUME NEW w \in Workers, Execute(w) PROVE Goal
  <2>1. CASE \E a \in Actions : ExecuteAction(w, a)
    BY <2>1 DEF ExecuteAction
  <2>2. CASE StopAtLookup(w) \/ LoadPolicy(w)
    BY <2>2 DEF StopAtLookup, LoadPolicy, Finish
  <2>3. CASE BlockAtRuntime(w) \/ AskForApproval(w) \/ LoseRace(w)
    BY <2>3 DEF BlockAtRuntime, AskForApproval, LoseRace, Finish
  <2>4. CASE ClaimBudget(w)
    <3>1. CASE v = w
      BY <2>4, <3>1
    <3>2. CASE v # w
      BY <2>4, <3>2 DEF ClaimBudget
    <3> QED
      BY <3>1, <3>2
  <2>5. CASE MarkExecuting(w)
    BY <2>5 DEF MarkExecuting, GoTo
  <2>6. CASE SendRequest(w)
    BY <2>6 DEF SendRequest
  <2> QED
    BY <1>1, <2>1, <2>2, <2>3, <2>4, <2>5, <2>6 DEF Execute
<1>2. ASSUME NEW w \in Workers, Call(w) PROVE Goal
  BY <1>2
  DEF Call, RazorpayCreates, RazorpayRejects, RazorpayReportsDuplicate,
      RetryableError, AfterDuplicate, AfterRetryable, GoTo, Finish
<1>3. ASSUME NEW w \in Workers, Settle(w) PROVE Goal
  BY <1>3 DEF Settle, WriteSucceeded, WriteFailed, MarkSettled, GoTo, Finish
<1>4. ASSUME NEW w \in Workers, Resolve(w) PROVE Goal
  BY <1>4
  DEF Resolve, ResolvePending, ResendRequest, FindLink, LinkNotRetrievable, GoTo, Finish
<1>5. ASSUME NEW w \in Workers, Decide(w) PROVE Goal
  BY <1>5 DEF Decide, OpenDecision, CommitDecision, AlreadyDecided, Finish
<1>6. ASSUME NEW w \in Workers, Crash(w) PROVE Goal
  BY <1>6 DEF Crash, Finish
<1>7. CASE Environment
  BY <1>7
  DEF Environment, Tick, PaymentCaptured, CustomerOptsOut, ChangePolicy,
      AmendAmount, LateRequestArrives
<1>8. CASE UNCHANGED vars
  BY <1>8 DEF vars
<1> QED
  BY <1>1, <1>2, <1>3, <1>4, <1>5, <1>6, <1>7, <1>8 DEF Next

\* The fact about one call that TightenedLimitIsKept states of all.
LimitIsKept(v) ==
  (/\ pc[v] \in {"mark", "send"}
   /\ ActionType[ActionOf(job[v])] \in FinancialActions
   /\ AmountOf(job[v]) > loaded[v].maxAuto)
    => approval[ActionOf(job[v])] = "granted"

LEMMA TightenedLimitStep ==
  ASSUME Inductive, TightenedLimitIsKept, [Next]_vars
  PROVE  TightenedLimitIsKept'
<1> SUFFICES ASSUME NEW v \in Workers PROVE LimitIsKept(v)'
  BY DEF TightenedLimitIsKept, LimitIsKept
<1>1. Typed /\ RowsStayTrue /\ LimitIsKept(v)
  BY DEF Inductive, Typed, TightenedLimitIsKept, LimitIsKept
<1>2. ConsentGrows
  BY <1>1, ConsentStep
<1>3. pc[v] # "idle" => ActionOf(job[v]) \in Actions
  BY <1>1, KeyParts DEF Typed, JobsAndRows
<1>4. CASE StillAboutTo(v)
  BY <1>1, <1>2, <1>3, <1>4 DEF StillAboutTo, LimitIsKept, ConsentGrows
<1>5. CASE ClaimBudget(v)
  <2>1. /\ pc[v] = "claim" /\ Permitted(v)
        /\ job' = job /\ loaded' = loaded /\ approval' = approval
    BY <1>5 DEF ClaimBudget
  <2> QED
    BY <1>1, <2>1, ClaimRespectsLimit DEF LimitIsKept
<1> QED
  BY <1>1, <1>4, <1>5, OnlyClaimsStartCalls

\* A call claims above the autonomous limit it loaded only with a recorded
\* approval, whatever ruling the action was stored with.
THEOREM TightenedLimitHolds == Spec => []TightenedLimitIsKept
<1>1. Init => TightenedLimitIsKept
  BY DEF Init, TightenedLimitIsKept
<1>2. Inductive /\ TightenedLimitIsKept /\ [Next]_vars => TightenedLimitIsKept'
  BY TightenedLimitStep
<1> QED
  BY <1>1, <1>2, InvariantHolds, PTL DEF Spec

\* A human answer is never replaced, and a denied action stays as it is.
THEOREM AnswersStand == Spec => AnswerIsFinal
<1>1. Inductive /\ [Next]_vars =>
        [\A a \in Actions :
           /\ approval[a] # "none" => approval'[a] = approval[a]
           /\ approval[a] = "denied" => status'[a] = status[a]]_vars
  <2> SUFFICES ASSUME Inductive, [Next]_vars, NEW a \in Actions
               PROVE  /\ approval[a] # "none" => approval'[a] = approval[a]
                      /\ approval[a] = "denied" => status'[a] = status[a]
    OBVIOUS
  <2>1. ConsentGrows
    BY ConsentStep DEF Inductive, Typed
  <2> QED
    BY <2>1, DeniedIsLeftAlone DEF ConsentGrows
<1> QED
  BY <1>1, InvariantHolds, PTL DEF Spec, AnswerIsFinal

-----------------------------------------------------------------------------
(* The executor implements the money gate.                                 *)

LEMMA ConsentIsAFunction ==
  Consent \in [Actions -> {"open", "given", "withheld"}]
BY DEF Consent

\* Consent follows from the ruling and the approval.
LEMMA SameConsent ==
  ASSUME ruling' = ruling, approval' = approval
  PROVE  Consent' = Consent
BY DEF Consent

LEMMA GateInit == Init => Gate!Init
<1> SUFFICES ASSUME Init PROVE Gate!Init
  OBVIOUS
<1>1. {k \in Keys : execStatus[k] # "none"} = {} /\ links = {}
  BY DEF Init
<1> QED
  BY <1>1, ConsentIsAFunction DEF Gate!Init

\* A claim is the gate's Claim: the action is authorised and has no other
\* execution, for the ruled amount is the only one executions may have.
LEMMA ClaimBudgetClaims ==
  ASSUME Inductive, NEW w \in Workers, ClaimBudget(w),
         NEW a \in Actions, a = ActionOf(job[w])
  PROVE  Gate!Claim(a)
<1> DEFINE Claimed == {k \in Keys : execStatus[k] # "none"}
<1>1. /\ pc[w] = "claim" /\ job[w] \in Keys /\ execStatus[job[w]] = "none"
      /\ ruling' = ruling /\ approval' = approval /\ links' = links
      /\ execStatus' = [execStatus EXCEPT ![job[w]] = "pending"]
      /\ execStatus \in [Keys -> ExecStatuses]
  BY DEF ClaimBudget, KeyIsFree, Inductive, TypeOK, JobsAndRows
<1>2. HasAuthority(a)
  BY <1>1 DEF Inductive, RowsStayTrue
<1>3. Consent[a] = "given" /\ Consent' = Consent
  BY <1>1, <1>2, SameConsent DEF Consent, HasAuthority
<1>4. AmountOf(job[w]) = RuledAmount[a]
  BY <1>1 DEF Inductive, RowsStayTrue
<1>5. job[w] = <<a, RuledAmount[a]>>
  BY <1>1, <1>4 DEF Keys, ActionOf, AmountOf
<1>6. Claimed' = Claimed \cup {<<a, RuledAmount[a]>>}
  BY <1>1, <1>5
<1>7. \A k \in Claimed : k[1] # a
  <2> SUFFICES ASSUME NEW k \in Claimed, k[1] = a PROVE FALSE
    OBVIOUS
  <2>1. k \in Keys /\ ActionOf(k) = a /\ execStatus[k] # "none"
    BY DEF ActionOf
  <2>2. AmountOf(k) = RuledAmount[a]
    BY <2>1 DEF Inductive, ExecutionNeedsAuthority
  <2> QED
    BY <1>1, <1>4, <2>1, <2>2, KeyIsPair
<1> QED
  BY <1>1, <1>3, <1>6, <1>7 DEF Gate!Claim

\* A link appears only for a claimed execution: the gate's Move.
LEMMA NewLinkMoves ==
  ASSUME Inductive, NEW k \in Keys, execStatus[k] # "none",
         ruling' = ruling, approval' = approval, execStatus' = execStatus,
         links' = links \cup {k}
  PROVE  Gate!Move(k) /\ k \in {l \in Keys : execStatus[l] # "none"}
BY SameConsent DEF Gate!Move

\* An answer to an escalated action is the gate's Settle.
LEMMA CommitDecisionSettles ==
  ASSUME Inductive, NEW w \in Workers, NEW answer \in {"granted", "denied"},
         CommitDecision(w, answer)
  PROVE  Gate!Settle(ActionOf(job[w]))
<1> DEFINE a == ActionOf(job[w])
<1>1. /\ a \in Actions /\ ruling[a] = "REQUIRES_APPROVAL" /\ approval[a] = "none"
      /\ approval \in [Actions -> {"none", "granted", "denied"}]
      /\ approval' = [approval EXCEPT ![a] = answer]
      /\ ruling' = ruling /\ execStatus' = execStatus /\ links' = links
  BY KeyParts DEF CommitDecision, Undecided, Inductive, TypeOK, JobsAndRows,
                  OnlyEscalatedAreDecided
<1> DEFINE settled == IF answer = "granted" THEN "given" ELSE "withheld"
<1>2. Consent[a] = "open"
  BY <1>1 DEF Consent
<1>3. Consent' = [Consent EXCEPT ![a] = settled]
  BY <1>1 DEF Consent
<1>4. settled \in {"given", "withheld"}
  OBVIOUS
<1> QED
  BY <1>1, <1>2, <1>3, <1>4 DEF Gate!Settle

LEMMA GateStep ==
  Inductive /\ [Next]_vars => [Gate!Next]_(Gate!vars)
<1> SUFFICES ASSUME Inductive, [Next]_vars
             PROVE  [Gate!Next]_(Gate!vars)
  OBVIOUS
<1> DEFINE Claimed == {k \in Keys : execStatus[k] # "none"}
<1>0. Typed /\ Backed /\ ruling' = ruling
  BY ConsentStep DEF Inductive, Typed, Backed, ConsentGrows
<1>1. CASE Unnoticed
  <2>1. Claimed' = Claimed
    BY <1>1 DEF Unnoticed
  <2>2. Consent' = Consent /\ links' = links
    BY <1>0, <1>1, SameConsent DEF Unnoticed
  <2> QED
    BY <2>1, <2>2 DEF Gate!vars
<1>2. ASSUME NEW w \in Workers, ClaimBudget(w) PROVE Gate!Next
  <2>1. PICK a \in Actions : a = ActionOf(job[w])
    BY <1>2, KeyParts DEF ClaimBudget, KeyIsFree, Inductive, JobsAndRows
  <2>2. Gate!Claim(a)
    BY <1>2, <2>1, ClaimBudgetClaims
  <2> QED
    BY <2>2 DEF Gate!Next
<1>3. ASSUME NEW w \in Workers, RazorpayCreates(w) PROVE Gate!Next
  <2>1. /\ job[w] \in Keys /\ execStatus[job[w]] # "none"
        /\ approval' = approval /\ execStatus' = execStatus
        /\ links' = links \cup {job[w]}
    BY <1>3 DEF RazorpayCreates, Waiting, Inductive, JobsAndRows, WorksOnExecution
  <2> QED
    BY <1>0, <2>1, NewLinkMoves DEF Gate!Next
<1>4. ASSUME NEW w \in Workers, NEW answer \in {"granted", "denied"},
             CommitDecision(w, answer)
      PROVE  Gate!Next
  <2>1. ActionOf(job[w]) \in Actions
    BY <1>4, KeyParts DEF CommitDecision, Inductive, JobsAndRows
  <2> QED
    BY <1>4, <2>1, CommitDecisionSettles DEF Gate!Next
<1>5. ASSUME NEW k \in Keys, LateRequestArrives(k)
      PROVE  [Gate!Next]_(Gate!vars)
  <2>1. /\ execStatus[k] # "none" /\ approval' = approval
        /\ execStatus' = execStatus
        /\ links' = links \/ links' = links \cup {k}
    BY <1>5 DEF LateRequestArrives, Inductive, RequestsHaveExecutions
  <2>2. CASE links' = links
    BY <1>0, <2>1, <2>2, SameConsent DEF Gate!vars
  <2>3. CASE links' = links \cup {k}
    BY <1>0, <2>1, <2>3, NewLinkMoves DEF Gate!Next
  <2> QED
    BY <2>1, <2>2, <2>3
<1> QED
  BY <1>0, <1>1, <1>2, <1>3, <1>4, <1>5, StepsAreNoticed DEF Noticed

\* The executor, with its interleavings, crashes, timeouts and edits, is an
\* implementation of the money gate.
THEOREM ExecutorKeepsTheGate == Spec => KeepsTheGate
<1>1. Inductive /\ [Next]_vars => [Gate!Next]_(Gate!vars)
  BY GateStep
<1> QED
  BY <1>1, GateInit, InvariantHolds, PTL DEF Spec, KeepsTheGate, Gate!Spec

-----------------------------------------------------------------------------
(***************************************************************************)
(* Settlement.  An execution that no second task worked on, and whose      *)
(* re-sent request was not refused, is settled by one task, for good: its  *)
(* failure is sound, its claim counts as long as its link may be paid, and *)
(* the audit view is right about it.                                       *)
(***************************************************************************)

(* One task settles an execution.                                          *)

Known == Typed /\ Backed /\ SettledByOne

LEMMA SettledInit == Init => SettledByOne
BY DEF Init, SettledByOne, Working

LEMMA SettledStep ==
  ASSUME Known, [Next]_vars
  PROVE  SettledByOne'
<1> USE DEF Known, Typed, TypeOK, JobsAndRows, Steps, Backed, WorksOnExecution,
            RequestsHaveExecutions, SettledByOne, Working
<1>1. ASSUME NEW w \in Workers, Execute(w) PROVE SettledByOne'
  <2>1. ASSUME NEW a \in Actions, ExecuteAction(w, a)
        PROVE  SettledByOne'
    BY <2>1 DEF ExecuteAction
  <2>2. CASE StopAtLookup(w)
    BY <2>2 DEF StopAtLookup, Finish
  <2>3. CASE LoadPolicy(w)
    BY <2>3 DEF LoadPolicy
  <2>4. CASE BlockAtRuntime(w)
    BY <2>4 DEF BlockAtRuntime, RecordRuling, Finish
  <2>5. CASE AskForApproval(w)
    BY <2>5 DEF AskForApproval, RecordRuling, Finish
  <2>6. CASE LoseRace(w)
    BY <2>6 DEF LoseRace, KeyIsFree, Finish
  <2>7. CASE ClaimBudget(w)
    BY <2>7 DEF ClaimBudget, KeyIsFree, RecordRuling
  <2>8. CASE MarkExecuting(w)
    BY <2>8 DEF MarkExecuting, GoTo
  <2>9. CASE SendRequest(w)
    BY <2>9 DEF SendRequest, GoTo
  <2> QED
    BY <1>1, <2>1, <2>2, <2>3, <2>4, <2>5, <2>6, <2>7, <2>8, <2>9 DEF Execute
<1>2. ASSUME NEW w \in Workers, Call(w) PROVE SettledByOne'
  <2>1. CASE RazorpayCreates(w)
    BY <2>1 DEF RazorpayCreates, Waiting, GoTo
  <2>2. CASE RazorpayRejects(w)
    BY <2>2 DEF RazorpayRejects, Waiting, GoTo
  <2>3. CASE RazorpayReportsDuplicate(w)
    BY <2>3 DEF RazorpayReportsDuplicate, Waiting, AfterDuplicate, GoTo
  <2>4. CASE RetryableError(w)
    BY <2>4 DEF RetryableError, Waiting, AfterRetryable, Finish
  <2> QED
    BY <1>2, <2>1, <2>2, <2>3, <2>4 DEF Call
<1>3. ASSUME NEW w \in Workers, Settle(w) PROVE SettledByOne'
  <2>1. CASE WriteSucceeded(w)
    BY <2>1 DEF WriteSucceeded, GoTo
  <2>2. CASE WriteFailed(w)
    BY <2>2 DEF WriteFailed, GoTo
  <2>3. CASE MarkSettled(w)
    BY <2>3 DEF MarkSettled, Finish
  <2> QED
    BY <1>3, <2>1, <2>2, <2>3 DEF Settle
<1>4. ASSUME NEW w \in Workers, Resolve(w) PROVE SettledByOne'
  <2>1. ASSUME NEW k \in Keys, ResolvePending(w, k)
        PROVE  SettledByOne'
    BY <2>1 DEF ResolvePending, Unresolved
  <2>2. CASE ResendRequest(w)
    BY <2>2 DEF ResendRequest, GoTo
  <2>3. CASE FindLink(w)
    BY <2>3 DEF FindLink, GoTo
  <2>4. CASE LinkNotRetrievable(w)
    BY <2>4 DEF LinkNotRetrievable, Finish
  <2> QED
    BY <1>4, <2>1, <2>2, <2>3, <2>4 DEF Resolve
<1>5. ASSUME NEW w \in Workers, Decide(w) PROVE SettledByOne'
  <2>1. ASSUME NEW a \in Actions, OpenDecision(w, a)
        PROVE  SettledByOne'
    BY <2>1 DEF OpenDecision
  <2>2. ASSUME NEW answer \in {"granted", "denied"}, CommitDecision(w, answer)
        PROVE  SettledByOne'
    BY <2>2 DEF CommitDecision, Finish
  <2>3. CASE AlreadyDecided(w)
    BY <2>3 DEF AlreadyDecided, Finish
  <2> QED
    BY <1>5, <2>1, <2>2, <2>3 DEF Decide
<1>6. ASSUME NEW w \in Workers, Crash(w) PROVE SettledByOne'
  BY <1>6 DEF Crash, Waiting, Finish
<1>7. CASE Environment
  <2>1. CASE Tick
    BY <2>1 DEF Tick
  <2>2. ASSUME NEW a \in Actions, PaymentCaptured(a) \/ CustomerOptsOut(a)
        PROVE  SettledByOne'
    BY <2>2 DEF PaymentCaptured, CustomerOptsOut
  <2>3. ASSUME NEW p \in Policies, ChangePolicy(p)
        PROVE  SettledByOne'
    BY <2>3 DEF ChangePolicy
  <2>4. ASSUME NEW a \in Actions, NEW m \in Amended, AmendAmount(a, m)
        PROVE  SettledByOne'
    BY <2>4 DEF AmendAmount
  <2>5. ASSUME NEW k \in Keys, LateRequestArrives(k)
        PROVE  SettledByOne'
    BY <2>5 DEF LateRequestArrives
  <2> QED
    BY <1>7, <2>1, <2>2, <2>3, <2>4, <2>5 DEF Environment
<1>8. CASE UNCHANGED vars
  BY <1>8 DEF vars
<1> QED
  BY <1>1, <1>2, <1>3, <1>4, <1>5, <1>6, <1>7, <1>8 DEF Next

LEMMA KnownInvariant == Spec => []Known
<1>1. Init => Known
  BY TypedInit, SettledInit
  DEF Known, Backed, Init, WorksOnExecution, RequestsHaveExecutions
<1>2. Known /\ [Next]_vars => Known'
  BY TypedStep, BackedStep, SettledStep DEF Known
<1> QED
  BY <1>1, <1>2, PTL DEF Spec

(* An execution recorded as failed has no payable link, so its budget may  *)
(* be used again and reconciliation may leave it alone, unless two tasks   *)
(* worked on it at once or its re-sent request was refused.                *)
THEOREM FailureStands == Spec => []FailureIsSound
<1>1. Known => FailureIsSound
  BY DEF Known, Typed, TypeOK, SettledByOne, FailureIsSound
<1> QED
  BY <1>1, KnownInvariant, PTL

-----------------------------------------------------------------------------
(* What the audit view says.                                               *)

LEMMA AuditFollows ==
  ASSUME Inductive, FailureIsSound
  PROVE  AuditTellsTheTruth
<1> USE DEF Inductive, TypeOK, Executions
<1> SUFFICES ASSUME NEW a \in Actions, ActionType[a] \in FinancialActions
             PROVE  /\ FinalStatus(a) = "EXECUTED" => \E k \in links : ActionOf(k) = a
                    /\ FinalStatus(a) \in {"NOT_EXECUTED", "AWAITING_AUTHORIZATION"}
                         => ~ \E k \in links \ doubtful : ActionOf(k) = a
  BY DEF AuditTellsTheTruth
<1>1. ASSUME FinalStatus(a) = "EXECUTED"
      PROVE  \E k \in links : ActionOf(k) = a
  <2>1. PICK k \in Executions(a) : execStatus[k] = "succeeded"
    BY <1>1 DEF FinalStatus
  <2> QED
    BY <2>1 DEF SuccessIsReal
<1>2. ASSUME FinalStatus(a) \in {"NOT_EXECUTED", "AWAITING_AUTHORIZATION"},
             NEW k \in links \ doubtful, ActionOf(k) = a
      PROVE  FALSE
  <2>1. k \in Executions(a)
    BY <1>2 DEF RequestsHaveExecutions
  <2>2. execStatus[k] = "failed"
    BY <1>2, <2>1 DEF FinalStatus, ExecStatuses
  <2> QED
    BY <2>2 DEF FailureIsSound
<1> QED
  BY <1>1, <1>2

(* The audit view is right at every moment: what it reports as executed has *)
(* a link, what it reports as not executed or as awaiting an authorization  *)
(* has none but doubtful ones.                                             *)
THEOREM AuditIsTrue == Spec => []AuditTellsTheTruth
<1> QED
  BY InvariantHolds, FailureStands, AuditFollows, PTL

-----------------------------------------------------------------------------
(* A success is final.                                                     *)

SuccessStays ==
  \A k \in Keys \ doubtful' : execStatus[k] = "succeeded" => execStatus'[k] = "succeeded"

LEMMA SuccessStaysStep ==
  ASSUME Known, [Next]_vars
  PROVE  SuccessStays
<1> USE DEF Known, Typed, TypeOK, JobsAndRows, Steps, SuccessStays
<1>1. ASSUME NEW w \in Workers, Execute(w) PROVE SuccessStays
  <2>1. CASE ClaimBudget(w)
    BY <2>1 DEF ClaimBudget, KeyIsFree
  <2>2. CASE ~ClaimBudget(w)
    BY <1>1, <2>2
    DEF Execute, ExecuteAction, StopAtLookup, LoadPolicy, BlockAtRuntime,
        AskForApproval, LoseRace, MarkExecuting, SendRequest
  <2> QED
    BY <2>1, <2>2
<1>2. ASSUME NEW w \in Workers, Call(w) PROVE SuccessStays
  BY <1>2
  DEF Call, RazorpayCreates, RazorpayRejects, RazorpayReportsDuplicate, RetryableError
<1>3. ASSUME NEW w \in Workers, Settle(w) PROVE SuccessStays
  <2>1. CASE WriteSucceeded(w)
    BY <2>1 DEF WriteSucceeded
  <2>2. CASE WriteFailed(w)
    BY <2>2 DEF WriteFailed, SettledByOne, Working
  <2>3. CASE MarkSettled(w)
    BY <2>3 DEF MarkSettled
  <2> QED
    BY <1>3, <2>1, <2>2, <2>3 DEF Settle
<1>4. ASSUME NEW w \in Workers, Resolve(w) PROVE SuccessStays
  BY <1>4 DEF Resolve, ResolvePending, ResendRequest, FindLink, LinkNotRetrievable
<1>5. ASSUME NEW w \in Workers, Decide(w) PROVE SuccessStays
  BY <1>5 DEF Decide, OpenDecision, CommitDecision, AlreadyDecided
<1>6. ASSUME NEW w \in Workers, Crash(w) PROVE SuccessStays
  BY <1>6 DEF Crash
<1>7. CASE Environment
  BY <1>7
  DEF Environment, Tick, PaymentCaptured, CustomerOptsOut, ChangePolicy,
      AmendAmount, LateRequestArrives
<1>8. CASE UNCHANGED vars
  BY <1>8 DEF vars
<1> QED
  BY <1>1, <1>2, <1>3, <1>4, <1>5, <1>6, <1>7, <1>8 DEF Next

(* No task takes a recorded success back: the only one that may write a    *)
(* failure, unless two work on it, works on an execution that is pending.  *)
THEOREM SuccessStands == Spec => SuccessIsFinal
<1>1. Known /\ [Next]_vars => [SuccessStays]_vars
  BY SuccessStaysStep
<1> QED
  BY <1>1, KnownInvariant, PTL DEF Spec, SuccessIsFinal, SuccessStays

-----------------------------------------------------------------------------
(* The day's exposure.                                                     *)

Claimed ==
  {k \in Keys \ doubtful : /\ execStatus[k] \in CommittedStatuses
                           /\ ActionType[ActionOf(k)] \in FinancialActions}

ClaimedOn(d) == {k \in Claimed : DayOf(k) = d}

LEMMA KeysAreFinite ==
  ASSUME NEW S, S \subseteq Keys
  PROVE  IsFiniteSet(S)
<1>1. IsFiniteSet(Keys)
  BY FiniteAssumption, FS_Product DEF Keys
<1> QED
  BY <1>1, FS_Subset

LEMMA AmountsAreNat ==
  ASSUME NEW k \in Keys
  PROVE  KeyAmount[k] = AmountOf(k) /\ KeyAmount[k] \in Nat
BY KeyParts, AmountsAssumption DEF KeyAmount

(* An instant lies in its own day.                                         *)
LEMMA DayHasBegun ==
  ASSUME NEW t \in Nat
  PROVE  DayStart(t, DayLength) \in Int /\ DayStart(t, DayLength) <= t
BY BoundsAssumption DEF DayStart

(* What a call may claim fits, beside all that counts since the start of   *)
(* its day, into the daily cap it loaded.                                  *)
LEMMA ClaimFits ==
  ASSUME NEW w \in Workers, Permitted(w),
         ActionType[ActionOf(job[w])] \in FinancialActions
  PROVE  ~(Committed(seen[w].now) + seen[w].amount > loaded[w].maxDaily)
<1> DEFINE act == ActionAsRead(w)
           ctx == ContextAsRead(w)
           cfg == loaded[w]
<1>1. Evaluate(act, ctx, cfg) \in {"AUTO_APPROVED", "REQUIRES_APPROVAL"}
  BY DEF Permitted, RuntimeDecision, RuntimeRule, Evaluate
<1>2. IsFinancial(act) /\ act.amount = seen[w].amount /\ ctx.committed = Committed(seen[w].now)
  BY DEF ActionAsRead, ContextAsRead, IsFinancial
<1> HIDE DEF act, ctx, cfg
<1>3. ~Fires(RuleOrder[11], act, ctx, cfg)
  BY <1>1, PermitPassesEveryRule, EscalationPassesHardBlocks
<1>4. RuleOrder[11] = "daily_limit_exceeded"
  BY DEF RuleOrder
<1>5. ~OverDailyCap(act, ctx, cfg)
  BY <1>3, <1>4 DEF Fires
<1> QED
  BY <1>2, <1>5 DEF OverDailyCap, cfg

(* Every step but a claim leaves the sound claims as they are, or ends some. *)
LEMMA ClaimsOnlyEnd ==
  ASSUME Known, [Next]_vars, \A w \in Workers : ~ClaimBudget(w)
  PROVE  createdAt' = createdAt /\ Claimed' \subseteq Claimed
<1> USE DEF Known, Typed, TypeOK, JobsAndRows, Steps, Claimed, CommittedStatuses
<1>1. ASSUME NEW w \in Workers, Execute(w)
      PROVE  createdAt' = createdAt /\ Claimed' \subseteq Claimed
  BY <1>1
  DEF Execute, ExecuteAction, StopAtLookup, LoadPolicy, BlockAtRuntime,
      AskForApproval, LoseRace, MarkExecuting, SendRequest
<1>2. ASSUME NEW w \in Workers, Call(w)
      PROVE  createdAt' = createdAt /\ Claimed' \subseteq Claimed
  BY <1>2
  DEF Call, RazorpayCreates, RazorpayRejects, RazorpayReportsDuplicate, RetryableError
<1>3. ASSUME NEW w \in Workers, Settle(w)
      PROVE  createdAt' = createdAt /\ Claimed' \subseteq Claimed
  <2>1. CASE WriteSucceeded(w)
    BY <2>1 DEF WriteSucceeded, SettledByOne, Working
  <2>2. CASE WriteFailed(w)
    BY <2>2 DEF WriteFailed
  <2>3. CASE MarkSettled(w)
    BY <2>3 DEF MarkSettled
  <2> QED
    BY <1>3, <2>1, <2>2, <2>3 DEF Settle
<1>4. ASSUME NEW w \in Workers, Resolve(w)
      PROVE  createdAt' = createdAt /\ Claimed' \subseteq Claimed
  BY <1>4 DEF Resolve, ResolvePending, ResendRequest, FindLink, LinkNotRetrievable
<1>5. ASSUME NEW w \in Workers, Decide(w)
      PROVE  createdAt' = createdAt /\ Claimed' \subseteq Claimed
  BY <1>5 DEF Decide, OpenDecision, CommitDecision, AlreadyDecided
<1>6. ASSUME NEW w \in Workers, Crash(w)
      PROVE  createdAt' = createdAt /\ Claimed' \subseteq Claimed
  BY <1>6 DEF Crash
<1>7. CASE Environment
  BY <1>7
  DEF Environment, Tick, PaymentCaptured, CustomerOptsOut, ChangePolicy,
      AmendAmount, LateRequestArrives
<1>8. CASE UNCHANGED vars
  BY <1>8 DEF vars
<1> QED
  BY <1>1, <1>2, <1>3, <1>4, <1>5, <1>6, <1>7, <1>8 DEF Next

ClaimsFit ==
  \A k \in Claimed : \E p \in Policies :
    Total(KeyAmount, ClaimedOn(DayOf(k))) <= p.maxDaily

LEMMA ClaimsByDay == ClaimsWithinCap <=> ClaimsFit
<1> DEFINE claimed == {k \in Keys \ doubtful : execStatus[k] \in CommittedStatuses}
<1>1. \A k \in Keys : LinksOfTheDay(claimed, k) = ClaimedOn(DayOf(k))
  BY DEF LinksOfTheDay, Claimed, ClaimedOn
<1> QED
  BY <1>1 DEF ClaimsWithinCap, ClaimsFit, Claimed

LEMMA EndedClaimsFit ==
  ASSUME Typed, ClaimsFit, createdAt' = createdAt, Claimed' \subseteq Claimed
  PROVE  ClaimsFit'
<1> SUFFICES ASSUME NEW k \in Claimed'
             PROVE  \E p \in Policies : Total(KeyAmount, ClaimedOn(DayOf(k))') <= p.maxDaily
  BY DEF ClaimsFit
<1>1. PICK p \in Policies : Total(KeyAmount, ClaimedOn(DayOf(k))) <= p.maxDaily
  BY DEF ClaimsFit
<1> DEFINE before == ClaimedOn(DayOf(k))
           after == ClaimedOn(DayOf(k))'
<1>2. after \subseteq before /\ before \subseteq Keys
  BY DEF ClaimedOn, Claimed, DayOf
<1> HIDE DEF before, after
<1>3. Total(KeyAmount, after) <= Total(KeyAmount, before)
  BY <1>2, KeysAreFinite, AmountsAreNat, TotalGrows
<1>4. Total(KeyAmount, after) \in Nat /\ Total(KeyAmount, before) \in Nat
  BY <1>2, KeysAreFinite, AmountsAreNat, TotalIsNat
<1>5. p.maxDaily \in Int
  BY PoliciesAssumption
<1>6. Total(KeyAmount, after) <= p.maxDaily
  BY <1>1, <1>3, <1>4, <1>5 DEF before
<1> QED
  BY <1>6 DEF after

(* A claim joins those of its day and no other.                            *)
LEMMA ClaimJoinsItsDay ==
  ASSUME Known, NEW w \in Workers, ClaimBudget(w), NEW j, j = job[w]
  PROVE  /\ j \in Keys \ Claimed
         /\ Claimed' = IF ActionType[ActionOf(j)] \in FinancialActions
                       THEN Claimed \cup {j} ELSE Claimed
         /\ \A k \in Claimed : DayOf(k)' = DayOf(k)
         /\ DayOf(j)' = DayStart(seen[w].now, DayLength)
<1> USE DEF Known, Typed, TypeOK, JobsAndRows
<1>1. j \in Keys /\ execStatus[j] = "none" /\ j \notin doubtful
  BY DEF ClaimBudget, KeyIsFree, Backed, RequestsHaveExecutions
<1>2. /\ execStatus' = [execStatus EXCEPT ![j] = "pending"]
      /\ createdAt' = [createdAt EXCEPT ![j] = seen[w].now]
      /\ doubtful' = doubtful
  BY DEF ClaimBudget
<1> QED
  BY <1>1, <1>2 DEF Claimed, DayOf, CommittedStatuses

(* The other claims of the day are among what the evaluation counted.      *)
LEMMA TheDayIsCounted ==
  ASSUME Typed, NEW t \in Nat
  PROVE  Total(KeyAmount, ClaimedOn(DayStart(t, DayLength))) <= Committed(t)
<1> DEFINE counted == {k \in Keys : /\ execStatus[k] \in CommittedStatuses
                                    /\ createdAt[k] >= DayStart(t, DayLength)}
           day == ClaimedOn(DayStart(t, DayLength))
<1>1. day \subseteq counted
  <2> SUFFICES ASSUME NEW k \in day PROVE createdAt[k] >= DayStart(t, DayLength)
    BY DEF ClaimedOn, Claimed
  <2>1. createdAt[k] \in Nat /\ DayStart(createdAt[k], DayLength) = DayStart(t, DayLength)
    BY DEF ClaimedOn, Claimed, DayOf, Typed, TypeOK
  <2> QED
    BY <2>1, DayHasBegun
<1>2. counted \subseteq Keys
  OBVIOUS
<1>3. Committed(t) = Total(KeyAmount, counted)
  BY DEF Committed
<1> HIDE DEF counted, day
<1>4. Total(KeyAmount, day) <= Total(KeyAmount, counted)
  BY <1>1, <1>2, KeysAreFinite, AmountsAreNat, TotalGrows
<1> QED
  BY <1>3, <1>4 DEF day

LEMMA NewClaimFits ==
  ASSUME Known, Inductive, ClaimsFit, NEW w \in Workers, ClaimBudget(w)
  PROVE  ClaimsFit'
<1> SUFFICES ASSUME NEW k \in Claimed'
             PROVE  \E p \in Policies : Total(KeyAmount, ClaimedOn(DayOf(k))') <= p.maxDaily
  BY DEF ClaimsFit
<1>0. PICK j, t : j = job[w] /\ t = seen[w].now
  OBVIOUS
<1> DEFINE today == DayStart(t, DayLength)
<1>1. /\ j \in Keys \ Claimed
      /\ Claimed' = IF ActionType[ActionOf(j)] \in FinancialActions
                    THEN Claimed \cup {j} ELSE Claimed
      /\ \A l \in Claimed : DayOf(l)' = DayOf(l)
      /\ DayOf(j)' = today
  BY <1>0, ClaimJoinsItsDay
<1>2. t \in Nat /\ loaded[w] \in Policies /\ seen[w].amount = AmountOf(j)
  BY <1>0 DEF ClaimBudget, Inductive, TypeOK, JobsAndRows, RowsStayTrue, Rows
<1>3. CASE DayOf(k)' = today /\ ActionType[ActionOf(j)] \in FinancialActions
  <2> DEFINE others == ClaimedOn(today)
  <2>1. ClaimedOn(DayOf(k))' = others \cup {j}
    BY <1>1, <1>3 DEF ClaimedOn
  <2>2. j \notin others /\ others \subseteq Keys
    BY <1>1 DEF ClaimedOn, Claimed
  <2>3. Total(KeyAmount, others) <= Committed(t)
    BY <1>2, TheDayIsCounted DEF Known
  <2> HIDE DEF others
  <2>4. Total(KeyAmount, others \cup {j}) = Total(KeyAmount, others) + AmountOf(j)
    BY <1>1, <2>2, KeysAreFinite, AmountsAreNat, TotalWith
  <2>5. Total(KeyAmount, others) \in Nat /\ AmountOf(j) \in Nat
    BY <1>1, <2>2, KeysAreFinite, AmountsAreNat, TotalIsNat
  <2>6. Committed(t) \in Nat
    <3> DEFINE counted == {l \in Keys : /\ execStatus[l] \in CommittedStatuses
                                        /\ createdAt[l] >= DayStart(t, DayLength)}
    <3>1. counted \subseteq Keys /\ Committed(t) = Total(KeyAmount, counted)
      BY DEF Committed
    <3> HIDE DEF counted
    <3> QED
      BY <3>1, KeysAreFinite, AmountsAreNat, TotalIsNat
  <2>7. ~(Committed(t) + AmountOf(j) > loaded[w].maxDaily)
    BY <1>0, <1>2, <1>3, ClaimFits DEF ClaimBudget
  <2>8. loaded[w].maxDaily \in Int
    BY <1>2, PoliciesAssumption
  <2>9. Total(KeyAmount, others) + AmountOf(j) <= loaded[w].maxDaily
    BY <2>3, <2>5, <2>6, <2>7, <2>8
  <2> QED
    BY <1>2, <2>1, <2>4, <2>9
<1>4. CASE ~(DayOf(k)' = today /\ ActionType[ActionOf(j)] \in FinancialActions)
  <2>1. k \in Claimed /\ DayOf(k)' = DayOf(k)
    BY <1>1, <1>4
  <2>2. ClaimedOn(DayOf(k))' = ClaimedOn(DayOf(k))
    BY <1>1, <1>4, <2>1 DEF ClaimedOn
  <2> QED
    BY <2>1, <2>2 DEF ClaimsFit
<1> QED
  BY <1>3, <1>4

(* What counts against a day, known or unknown to have succeeded, fits at  *)
(* every moment into a daily cap the merchant has had, however many calls  *)
(* race for it and whatever happens to the configuration.                  *)
THEOREM ClaimsStayWithinCap == Spec => []ClaimsWithinCap
<1>1. Init => ClaimsFit
  BY DEF Init, ClaimsFit, Claimed, CommittedStatuses
<1>2. Known /\ Inductive /\ ClaimsFit /\ [Next]_vars => ClaimsFit'
  <2> SUFFICES ASSUME Known, Inductive, ClaimsFit, [Next]_vars
               PROVE  ClaimsFit'
    OBVIOUS
  <2>1. CASE \E w \in Workers : ClaimBudget(w)
    BY <2>1, NewClaimFits
  <2>2. CASE ~ \E w \in Workers : ClaimBudget(w)
    BY <2>2, ClaimsOnlyEnd, EndedClaimsFit DEF Known
  <2> QED
    BY <2>1, <2>2
<1> QED
  BY <1>1, <1>2, KnownInvariant, InvariantHolds, ClaimsByDay, PTL DEF Spec

LEMMA ExposureFollows ==
  ASSUME Inductive, FailureIsSound, ClaimsWithinCap
  PROVE  SoundLinksWithinCap
<1> DEFINE sound == links \ doubtful
<1> SUFFICES ASSUME NEW k \in sound, ActionType[ActionOf(k)] \in FinancialActions
             PROVE  \E p \in Policies :
                      Total(KeyAmount, LinksOfTheDay(sound, k)) <= p.maxDaily
  BY DEF SoundLinksWithinCap
<1>1. \A l \in sound : ActionType[ActionOf(l)] \in FinancialActions => l \in Claimed
  BY DEF Inductive, TypeOK, RequestsHaveExecutions, FailureIsSound, Claimed,
         CommittedStatuses, ExecStatuses
<1>2. PICK p \in Policies : Total(KeyAmount, ClaimedOn(DayOf(k))) <= p.maxDaily
  BY <1>1, ClaimsByDay DEF ClaimsFit
<1> DEFINE part == LinksOfTheDay(sound, k)
           all == ClaimedOn(DayOf(k))
<1>3. part \subseteq all /\ all \subseteq Keys
  BY <1>1 DEF LinksOfTheDay, ClaimedOn, Claimed
<1> HIDE DEF part, all
<1>4. Total(KeyAmount, part) <= Total(KeyAmount, all)
  BY <1>3, KeysAreFinite, AmountsAreNat, TotalGrows
<1>5. Total(KeyAmount, part) \in Nat /\ Total(KeyAmount, all) \in Nat
  BY <1>3, KeysAreFinite, AmountsAreNat, TotalIsNat
<1>6. p.maxDaily \in Int
  BY PoliciesAssumption
<1>7. Total(KeyAmount, part) <= p.maxDaily
  BY <1>2, <1>4, <1>5, <1>6 DEF all
<1> QED
  BY <1>7 DEF part

(* The payment links of one day, doubtful ones aside, never total more than *)
(* a daily cap the merchant has had: an execution that failed and gave its  *)
(* budget back has no link (daily_committed_minor counts only what is       *)
(* pending or succeeded).                                                  *)
THEOREM SoundLinksStayWithinCap == Spec => []SoundLinksWithinCap
<1> QED
  BY InvariantHolds, FailureStands, ClaimsStayWithinCap, ExposureFollows, PTL
=============================================================================
