--------------------------- MODULE PlanningProofs ---------------------------
(***************************************************************************)
(* The merchant's limits hold over any number of payments and incidents:   *)
(* one live action for each payment, no more permitted recoveries of it    *)
(* than the retry limit, none within the cooldown of another, and no plan  *)
(* beyond the day's cap.                                                   *)
(*                                                                         *)
(* Planning reads a payment's history in one statement and writes its      *)
(* actions in a later one.  The proof shows that no step in between adds   *)
(* to that history, so that what the policy engine was told is still so.   *)
(***************************************************************************)
EXTENDS Planning, PolicyProofs, SumProofs

-----------------------------------------------------------------------------
(* Sets of instants.                                                       *)

(* Every nonempty set of naturals has a least element.                     *)
LEMMA LeastExists ==
  ASSUME NEW T, T \subseteq Nat, T # {}
  PROVE  \E x \in T : \A y \in T : x <= y
<1> DEFINE Less == {ss \in Nat \X Nat : ss[1] < ss[2]}
<1>1. IsWellFoundedOn(Less, Nat)
  BY NatLessThanWellFounded, Zenon DEF OpToRel
<1>2. PICK x \in T : \A y \in T : <<y, x>> \notin Less
  <2> HIDE DEF Less
  <2> QED
    BY <1>1, WFMin
<1>3. ASSUME NEW y \in T
      PROVE  x <= y
  <2>1. ~(<<y, x>>[1] < <<y, x>>[2]) \/ <<y, x>> \notin Nat \X Nat
    BY <1>2
  <2>2. x \in Nat /\ y \in Nat
    BY <1>2
  <2> QED
    BY <2>1, <2>2
<1> QED
  BY <1>2, <1>3

(* The maximum of a nonempty, bounded set of instants bounds it.           *)
LEMMA MaxIsUpperBound ==
  ASSUME NEW S, S \subseteq Nat, S # {}, NEW b \in Nat, \A x \in S : x <= b
  PROVE  Max(S) \in S /\ \A x \in S : x <= Max(S)
<1> DEFINE Gaps == {b - x : x \in S}
<1>1. Gaps \subseteq Nat /\ Gaps # {}
  <2>1. \A x \in S : b - x \in Nat
    OBVIOUS
  <2> QED
    BY <2>1
<1>2. PICK g \in Gaps : \A h \in Gaps : g <= h
  <2> HIDE DEF Gaps
  <2> QED
    BY <1>1, LeastExists
<1>3. PICK m \in S : g = b - m
  BY <1>2
<1>4. ASSUME NEW x \in S
      PROVE  m >= x
  <2>1. b - m <= b - x
    BY <1>2, <1>3
  <2>2. m \in Nat /\ x \in Nat
    BY <1>3
  <2> QED
    BY <2>1, <2>2
<1>5. Max(S) \in S /\ \A y \in S : Max(S) >= y
  BY <1>3, <1>4 DEF Max
<1>6. Max(S) \in Nat
  BY <1>5
<1> QED
  BY <1>5, <1>6

-----------------------------------------------------------------------------
(* The policy engine's limits.                                             *)

(* A payment whose recovery is permitted, at once or by a human, is below  *)
(* the retry limit and out of its cooldown.                                *)
LEMMA PermittedIsWithinLimits ==
  ASSUME NEW act, NEW ctx, NEW cfg,
         Evaluate(act, ctx, cfg) \in {"AUTO_APPROVED", "REQUIRES_APPROVAL"}
  PROVE  ~RetriesExhausted(ctx, cfg) /\ ~CoolingDown(ctx, cfg)
<1>1. \A i \in 1..11 : ~Fires(RuleOrder[i], act, ctx, cfg)
  <2>1. \A i \in 1..11 : i \in 1..12
    OBVIOUS
  <2> QED
    BY <2>1, PermitPassesEveryRule, EscalationPassesHardBlocks
<1>2. RuleOrder[9] = "retry_limit_exceeded" /\ RuleOrder[10] = "cooldown_active"
  BY DEF RuleOrder
<1>3. /\ ~Fires("retry_limit_exceeded", act, ctx, cfg)
      /\ ~Fires("cooldown_active", act, ctx, cfg)
  <2>1. 9 \in 1..11 /\ 10 \in 1..11
    OBVIOUS
  <2> QED
    BY <1>1, <1>2, <2>1
<1> QED
  BY <1>3 DEF Fires

-----------------------------------------------------------------------------
(* The history of a payment.                                               *)

(* A payment has finitely many rows.                                       *)
LEMMA RowsAreFinite ==
  ASSUME NEW p
  PROVE  IsFiniteSet(RowsOf(p)) /\ PriorAttempts(p) \in Nat
<1>1. IsFiniteSet(Keys)
  BY FiniteAssumption, FS_Product DEF Keys
<1>2. IsFiniteSet(RowsOf(p))
  BY <1>1, FS_Subset DEF RowsOf
<1> QED
  BY <1>2, FS_CardinalityType DEF PriorAttempts

(* Out of the cooldown of the last attempt is out of the cooldown of each. *)
LEMMA CooledDownFromEach ==
  ASSUME TypeOK, HistoryIsPast, NEW p \in Payments, NEW instant \in Nat,
         LastAttempt(p) # Never => instant - LastAttempt(p) >= policy.cooldown
  PROVE  \A k \in RowsOf(p) : instant - action[k].proposedAt >= policy.cooldown
<1> SUFFICES ASSUME NEW k \in RowsOf(p)
             PROVE  instant - action[k].proposedAt >= policy.cooldown
  OBVIOUS
<1> DEFINE Times == {action[l].proposedAt : l \in RowsOf(p)}
<1>1. \A l \in RowsOf(p) : action[l].proposedAt \in Nat /\ action[l].proposedAt <= now
  BY PlanningNone DEF TypeOK, Actions, RowsOf, HistoryIsPast
<1>2. Times \subseteq Nat /\ Times # {} /\ \A x \in Times : x <= now
  BY <1>1
<1>3. Max(Times) \in Times /\ \A x \in Times : x <= Max(Times)
  <2>1. now \in Nat
    BY DEF TypeOK
  <2> HIDE DEF Times
  <2> QED
    BY <1>2, <2>1, MaxIsUpperBound
<1>4. LastAttempt(p) = Max(Times)
  BY DEF LastAttempt
<1>5. Max(Times) \in Nat /\ action[k].proposedAt <= Max(Times)
  BY <1>2, <1>3
<1>6. instant - Max(Times) >= policy.cooldown
  BY <1>4, <1>5, NeverAssumption
<1>7. policy.cooldown \in Nat /\ action[k].proposedAt \in Nat
  BY <1>1, PlanningPolicies DEF TypeOK
<1> QED
  BY <1>5, <1>6, <1>7

(* The last attempt is an instant, when there is one.                      *)
LEMMA LastAttemptIsAnInstant ==
  ASSUME TypeOK, HistoryIsPast, NEW p \in Payments, LastAttempt(p) # Never
  PROVE  LastAttempt(p) \in Nat
<1> DEFINE Times == {action[l].proposedAt : l \in RowsOf(p)}
<1>1. \A l \in RowsOf(p) : action[l].proposedAt \in Nat /\ action[l].proposedAt <= now
  BY PlanningNone DEF TypeOK, Actions, RowsOf, HistoryIsPast
<1>2. Times \subseteq Nat /\ \A x \in Times : x <= now
  BY <1>1
<1>3. Times # {} /\ LastAttempt(p) = Max(Times)
  BY DEF LastAttempt
<1>4. now \in Nat
  BY DEF TypeOK
<1> HIDE DEF Times
<1> QED
  BY <1>2, <1>3, <1>4, MaxIsUpperBound

(* A step that changes nothing but the status of actions keeps history,    *)
(* and with it the limits.                                                 *)
HistoryKept ==
  \A k \in Keys :
    /\ action'[k] = None <=> action[k] = None
    /\ action[k] # None => /\ action'[k].proposedAt = action[k].proposedAt
                           /\ action'[k].decision = action[k].decision

LEMMA KeptHistory ==
  ASSUME HistoryKept
  PROVE  /\ \A p : RowsOf(p)' = RowsOf(p)
         /\ \A p : PriorAttempts(p)' = PriorAttempts(p)
         /\ \A p : LastAttempt(p)' = LastAttempt(p)
<1>1. \A p : RowsOf(p)' = RowsOf(p)
  BY DEF HistoryKept, RowsOf
<1>2. \A p : PriorAttempts(p)' = PriorAttempts(p)
  BY <1>1 DEF PriorAttempts
<1>3. ASSUME NEW p
      PROVE  LastAttempt(p)' = LastAttempt(p)
  <2>1. \A k \in RowsOf(p) : action'[k].proposedAt = action[k].proposedAt
    BY DEF HistoryKept, RowsOf
  <2>2. {action'[k].proposedAt : k \in RowsOf(p)} = {action[k].proposedAt : k \in RowsOf(p)}
    BY <2>1
  <2> QED
    BY <1>1, <2>2 DEF LastAttempt
<1> QED
  BY <1>1, <1>2, <1>3

LEMMA KeptLimits ==
  ASSUME HistoryKept, policy' = policy, RetriesAreBounded, CooldownIsKept
  PROVE  RetriesAreBounded' /\ CooldownIsKept'
<1>1. \A k \in Keys : Permitted(k)' <=> Permitted(k)
  BY DEF HistoryKept, Permitted
<1>2. \A p : RowsOf(p)' = RowsOf(p)
  BY KeptHistory
<1>3. RetriesAreBounded'
  <2>1. ASSUME NEW p
        PROVE  {k \in RowsOf(p)' : Permitted(k)'} = {k \in RowsOf(p) : Permitted(k)}
    BY <1>1, <1>2 DEF RowsOf
  <2> QED
    BY <2>1 DEF RetriesAreBounded
<1>4. CooldownIsKept'
  BY <1>1 DEF CooldownIsKept, HistoryKept, Permitted
<1> QED
  BY <1>3, <1>4

(* Such a step while the run stands still keeps what the run knows.        *)
LEMMA KeptPlan ==
  ASSUME LimitsHold, HistoryKept, now' >= now, now' \in Nat, policy' = policy,
         UNCHANGED <<strategy, facts, left, candidates, planNow, pc>>
  PROVE  /\ HistoryIsPast' /\ FactsAreCurrent' /\ CandidatesFitTheHistory'
         /\ RetriesAreBounded' /\ CooldownIsKept'
<1>1. /\ \A p : RowsOf(p)' = RowsOf(p)
      /\ \A p : PriorAttempts(p)' = PriorAttempts(p)
      /\ \A p : LastAttempt(p)' = LastAttempt(p)
  BY KeptHistory
<1>2. HistoryIsPast'
  <2>1. \A k \in Keys : action[k] # None => action[k].proposedAt \in Nat
    BY DEF LimitsHold, TypeOK, Actions
  <2>2. planNow \in Nat /\ now \in Nat
    BY DEF LimitsHold, TypeOK
  <2>3. planNow <= now'
    BY <2>2 DEF LimitsHold, HistoryIsPast
  <2>4. ASSUME NEW k \in Keys, action'[k] # None
        PROVE  action'[k].proposedAt <= now'
    <3>1. action'[k].proposedAt = action[k].proposedAt /\ action[k].proposedAt <= now
      BY <2>4 DEF HistoryKept, LimitsHold, HistoryIsPast
    <3>2. action[k].proposedAt \in Nat
      BY <2>1, <2>4 DEF HistoryKept
    <3> QED
      BY <2>2, <3>1, <3>2
  <2> QED
    BY <2>3, <2>4 DEF HistoryIsPast
<1>3. FactsAreCurrent'
  BY <1>1 DEF LimitsHold, FactsAreCurrent
<1>4. CandidatesFitTheHistory'
  <2>1. \A p : \A k \in RowsOf(p) : action'[k].proposedAt = action[k].proposedAt
    BY DEF HistoryKept, RowsOf
  <2> QED
    BY <1>1, <2>1 DEF LimitsHold, CandidatesFitTheHistory, Recoverable
<1> QED
  BY <1>2, <1>3, <1>4, KeptLimits DEF LimitsHold

(* A step of the run that plans nothing keeps everything.                  *)
LEMMA StoppedRun ==
  ASSUME LimitsHold, EndRun, UNCHANGED <<worldVars, tableVars, now>>
  PROVE  LimitsHold'
<1>1. HistoryKept
  BY DEF HistoryKept, tableVars
<1>2. RetriesAreBounded' /\ CooldownIsKept'
  BY <1>1, KeptLimits DEF LimitsHold, worldVars
<1>3. TypeOK'
  BY DEF LimitsHold, TypeOK, EndRun, worldVars, tableVars, NoCandidates
<1>4. HistoryIsPast' /\ FactsAreCurrent'
  BY DEF LimitsHold, TypeOK, HistoryIsPast, FactsAreCurrent, EndRun, tableVars
<1>5. CandidatesFitTheHistory'
  BY PlanningNone DEF CandidatesFitTheHistory, Recoverable, EndRun, NoCandidates, Decisions
<1>6. OneLivePerPayment'
  BY DEF LimitsHold, OneLivePerPayment, tableVars
<1> QED
  BY <1>2, <1>3, <1>4, <1>5, <1>6 DEF LimitsHold

-----------------------------------------------------------------------------
(* The steps before the rulings.                                           *)

(* A run has no candidates before the first ruling.                        *)
LEMMA NoCandidatesYet ==
  ASSUME LimitsHold, pc \notin {"rule", "persist"}
  PROVE  \A p \in Payments : candidates[p] = None
BY DEF LimitsHold, CandidatesFitTheHistory

(* A step that leaves actions, candidates and time alone, taken before the *)
(* first ruling, keeps everything but the types and the facts.             *)
LEMMA KeptBeforeRuling ==
  ASSUME LimitsHold, pc \notin {"rule", "persist"}, policy' = policy, now' = now,
         planNow' \in {planNow, now}, UNCHANGED <<action, candidates>>
  PROVE  /\ HistoryIsPast' /\ CandidatesFitTheHistory'
         /\ OneLivePerPayment' /\ RetriesAreBounded' /\ CooldownIsKept'
<1>1. HistoryKept
  BY DEF HistoryKept
<1>2. RetriesAreBounded' /\ CooldownIsKept'
  BY <1>1, KeptLimits DEF LimitsHold
<1>3. HistoryIsPast'
  BY DEF LimitsHold, TypeOK, HistoryIsPast
<1>4. CandidatesFitTheHistory'
  BY NoCandidatesYet, PlanningNone DEF CandidatesFitTheHistory, Recoverable, Decisions
<1>5. OneLivePerPayment'
  BY DEF LimitsHold, OneLivePerPayment
<1> QED
  BY <1>2, <1>3, <1>4, <1>5

LEMMA StartRunKeepsLimits ==
  ASSUME LimitsHold, NEW i \in Incidents, StartRun(i)
  PROVE  LimitsHold'
<1> USE DEF StartRun, worldVars, planVars
<1>1. TypeOK'
  BY DEF LimitsHold, TypeOK
<1>2. FactsAreCurrent'
  BY DEF FactsAreCurrent
<1> QED
  BY <1>1, <1>2, KeptBeforeRuling DEF LimitsHold

LEMMA ProposeStrategyKeepsLimits ==
  ASSUME LimitsHold, NEW answer \in Answers, ProposeStrategy(answer)
  PROVE  LimitsHold'
<1> USE DEF ProposeStrategy, worldVars
<1>1. TypeOK'
  <2>1. answer \in Strategies /\ [answer EXCEPT !.worth = TRUE] \in Strategies
    BY AnswersAssumption DEF Strategies
  <2>2. answer # None
    BY <2>1, PlanningNone
  <2> QED
    BY <2>1, <2>2 DEF LimitsHold, TypeOK
<1>2. FactsAreCurrent'
  BY DEF FactsAreCurrent
<1> QED
  BY <1>1, <1>2, KeptBeforeRuling DEF LimitsHold

LEMMA ReuseStrategyKeepsLimits ==
  ASSUME LimitsHold, ReuseStrategy
  PROVE  LimitsHold'
<1> USE DEF ReuseStrategy, worldVars, tableVars
<1>1. TypeOK'
  BY DEF LimitsHold, TypeOK
<1>2. FactsAreCurrent'
  BY DEF FactsAreCurrent
<1> QED
  BY <1>1, <1>2, KeptBeforeRuling DEF LimitsHold

LEMMA ReadRowsKeepsLimits ==
  ASSUME LimitsHold, ReadRows
  PROVE  LimitsHold'
<1> USE DEF ReadRows, worldVars, tableVars
<1>1. TypeOK'
  <2>1. strategy.targets \subseteq Payments
    BY DEF LimitsHold, TypeOK, Strategies
  <2> QED
    BY <2>1 DEF LimitsHold, TypeOK
<1>2. FactsAreCurrent'
  <2>1. HistoryKept
    BY DEF HistoryKept
  <2>2. \A p \in DOMAIN facts' : /\ facts'[p].prior = PriorAttempts(p)
                                /\ facts'[p].last = LastAttempt(p)
    OBVIOUS
  <2>3. left' \subseteq DOMAIN facts'
    OBVIOUS
  <2> QED
    BY <2>1, <2>2, <2>3, KeptHistory DEF FactsAreCurrent
<1> QED
  BY <1>1, <1>2, KeptBeforeRuling DEF LimitsHold

LEMMA PlanDeclineKeepsLimits ==
  ASSUME LimitsHold, PlanDecline
  PROVE  LimitsHold'
<1> USE DEF PlanDecline, worldVars, tableVars, planVars
<1>1. TypeOK'
  BY DEF LimitsHold, TypeOK
<1>2. FactsAreCurrent'
  BY DEF FactsAreCurrent
<1> QED
  BY <1>1, <1>2, KeptBeforeRuling DEF LimitsHold

LEMMA ReadTotalKeepsLimits ==
  ASSUME LimitsHold, ReadTotal
  PROVE  LimitsHold'
<1> USE DEF ReadTotal, worldVars, tableVars
<1>1. TypeOK'
  BY DEF LimitsHold, TypeOK
<1>2. FactsAreCurrent'
  <2>1. HistoryKept
    BY DEF HistoryKept
  <2> QED
    BY <2>1, KeptHistory DEF LimitsHold, FactsAreCurrent
<1> QED
  BY <1>1, <1>2, KeptBeforeRuling DEF LimitsHold

-----------------------------------------------------------------------------
(* Ruling on a payment.                                                    *)

(* A ruling permits a recovery only within the limits the run has read.    *)
LEMMA RulingIsWithinLimits ==
  ASSUME LimitsHold, pc = "rule", NEW p \in left,
         Ruling(p) \in {"AUTO_APPROVED", "REQUIRES_APPROVAL"}
  PROVE  /\ PriorAttempts(p) < policy.maxRetries
         /\ \A k \in RowsOf(p) : planNow - action[k].proposedAt >= policy.cooldown
<1> DEFINE ctx == [paymentStatus |-> "failed", optedOut |-> facts[p].optedOut,
                   priorAttempts |-> facts[p].prior, lastAttempt |-> facts[p].last,
                   committed |-> running, now |-> planNow]
<1>1. ~RetriesExhausted(ctx, policy) /\ ~CoolingDown(ctx, policy)
  <2> DEFINE act == [type |-> strategy.type, identified |-> TRUE,
                     amount |-> AmountOf[p], proposedAt |-> planNow]
  <2>1. Evaluate(act, ctx, policy) \in {"AUTO_APPROVED", "REQUIRES_APPROVAL"}
    BY DEF Ruling
  <2> HIDE DEF ctx, act
  <2> QED
    BY <2>1, PermittedIsWithinLimits
<1>2. facts[p].prior = PriorAttempts(p) /\ facts[p].last = LastAttempt(p)
  BY DEF LimitsHold, FactsAreCurrent
<1>3. p \in Payments /\ planNow \in Nat
  BY DEF LimitsHold, TypeOK
<1>4. PriorAttempts(p) \in Nat /\ policy.maxRetries \in Nat /\ policy.cooldown \in Nat
  BY RowsAreFinite, PlanningPolicies DEF LimitsHold, TypeOK
<1>5. PriorAttempts(p) < policy.maxRetries
  BY <1>1, <1>2, <1>4 DEF RetriesExhausted
<1>6. LastAttempt(p) # Never => ~(planNow - LastAttempt(p) < policy.cooldown)
  BY <1>1, <1>2 DEF CoolingDown
<1>7. LastAttempt(p) # Never => LastAttempt(p) \in Nat
  BY <1>3, LastAttemptIsAnInstant DEF LimitsHold
<1>8. LastAttempt(p) # Never => planNow - LastAttempt(p) >= policy.cooldown
  BY <1>3, <1>4, <1>6, <1>7
<1> QED
  BY <1>3, <1>5, <1>8, CooledDownFromEach DEF LimitsHold

LEMMA RulePaymentKeepsLimits ==
  ASSUME LimitsHold, NEW p \in Payments, RulePayment(p)
  PROVE  LimitsHold'
<1> USE DEF RulePayment, worldVars, tableVars
<1>1. HistoryKept
  BY DEF HistoryKept
<1>2. TypeOK'
  <2>1. Ruling(p) \in Decisions
    BY EvaluateIsADecision DEF Ruling
  <2> QED
    BY <2>1 DEF LimitsHold, TypeOK
<1>3. HistoryIsPast'
  BY DEF LimitsHold, HistoryIsPast
<1>4. FactsAreCurrent'
  BY <1>1, KeptHistory DEF LimitsHold, FactsAreCurrent
<1>5. CandidatesFitTheHistory'
  <2> SUFFICES ASSUME NEW q \in Payments, candidates'[q] # None
               PROVE  /\ strategy.type \in ActionTypes
                      /\ Recoverable(q)' =>
                           /\ PriorAttempts(q)' < policy.maxRetries
                           /\ \A k \in RowsOf(q)' :
                                planNow - action[k].proposedAt >= policy.cooldown
    BY PlanningNone DEF CandidatesFitTheHistory, Recoverable, Decisions
  <2>1. strategy.type \in ActionTypes
    BY DEF LimitsHold, TypeOK, Strategies
  <2>2. CASE q = p
    <3>1. candidates'[q] = Ruling(p)
      BY <2>2 DEF LimitsHold, TypeOK
    <3> QED
      BY <1>1, <2>1, <2>2, <3>1, KeptHistory, RulingIsWithinLimits DEF Recoverable
  <2>3. CASE q # p
    <3>1. candidates'[q] = candidates[q]
      BY <2>3 DEF LimitsHold, TypeOK
    <3> QED
      BY <1>1, <2>1, <3>1, KeptHistory DEF LimitsHold, CandidatesFitTheHistory, Recoverable
  <2> QED
    BY <2>2, <2>3
<1>6. RetriesAreBounded' /\ CooldownIsKept'
  BY <1>1, KeptLimits DEF LimitsHold
<1>7. OneLivePerPayment'
  BY DEF LimitsHold, OneLivePerPayment
<1> QED
  BY <1>2, <1>3, <1>4, <1>5, <1>6, <1>7 DEF LimitsHold

LEMMA PlanCompleteKeepsLimits ==
  ASSUME LimitsHold, PlanComplete
  PROVE  LimitsHold'
<1> USE DEF PlanComplete, worldVars, tableVars, planVars
<1>1. HistoryKept
  BY DEF HistoryKept
<1>2. TypeOK' /\ HistoryIsPast' /\ FactsAreCurrent' /\ OneLivePerPayment'
  BY DEF LimitsHold, TypeOK, HistoryIsPast, FactsAreCurrent, OneLivePerPayment
<1>3. CandidatesFitTheHistory'
  BY <1>1, KeptHistory DEF LimitsHold, CandidatesFitTheHistory, Recoverable
<1>4. RetriesAreBounded' /\ CooldownIsKept'
  BY <1>1, KeptLimits DEF LimitsHold
<1> QED
  BY <1>2, <1>3, <1>4 DEF LimitsHold

-----------------------------------------------------------------------------
(* Persisting the plan.                                                    *)

(* What persist_plan inserts: it replaces no row.                          *)
LEMMA WhatIsInserted ==
  ASSUME LimitsHold, PersistPlan
  PROVE  /\ at \in Incidents
         /\ \A p \in Payments : Inserted(p) =>
              /\ action[<<at, p>>] = None
              /\ candidates[p] \in Decisions /\ strategy.type \in ActionTypes
              /\ action'[<<at, p>>] =
                   [type |-> strategy.type, decision |-> candidates[p],
                    proposedAt |-> planNow, status |-> StatusFor[candidates[p]]]
              /\ action'[<<at, p>>] \in Actions
         /\ \A k \in Keys : action'[k] = action[k] \/ (k = <<at, k[2]>> /\ Inserted(k[2]))
<1>1. at \in Incidents /\ planNow \in Nat
  BY DEF LimitsHold, TypeOK, PersistPlan
<1>2. ASSUME NEW p \in Payments, Inserted(p)
      PROVE  /\ action[<<at, p>>] = None
             /\ candidates[p] \in Decisions /\ strategy.type \in ActionTypes
             /\ action'[<<at, p>>] =
                  [type |-> strategy.type, decision |-> candidates[p],
                   proposedAt |-> planNow, status |-> StatusFor[candidates[p]]]
             /\ action'[<<at, p>>] \in Actions
  <2>1. action[<<at, p>>] = None /\ candidates[p] # None
    BY <1>2 DEF Inserted
  <2>2. candidates[p] \in Decisions /\ strategy.type \in ActionTypes
    BY <2>1 DEF LimitsHold, TypeOK, CandidatesFitTheHistory
  <2>3. <<at, p>> \in Keys
    BY <1>1 DEF Keys
  <2>4. action'[<<at, p>>] =
          [type |-> strategy.type, decision |-> candidates[p],
           proposedAt |-> planNow, status |-> StatusFor[candidates[p]]]
    BY <1>2, <2>3 DEF PersistPlan
  <2>5. StatusFor[candidates[p]] \in Live \cup {"denied"}
    BY <2>2 DEF StatusFor, Decisions, Live
  <2>6. action'[<<at, p>>] \in Actions
    BY <1>1, <2>2, <2>4, <2>5 DEF Actions
  <2> QED
    BY <2>1, <2>2, <2>4, <2>6
<1>3. ASSUME NEW k \in Keys
      PROVE  action'[k] = action[k] \/ (k = <<at, k[2]>> /\ Inserted(k[2]))
  BY DEF PersistPlan, Keys
<1> QED
  BY <1>1, <1>2, <1>3

LEMMA PersistPlanKeepsTypes ==
  ASSUME LimitsHold, PersistPlan
  PROVE  TypeOK' /\ HistoryIsPast' /\ FactsAreCurrent' /\ CandidatesFitTheHistory'
<1> USE DEF PersistPlan, EndRun, worldVars
<1>1. /\ at \in Incidents
      /\ \A p \in Payments : Inserted(p) =>
           action'[<<at, p>>] \in Actions /\ action'[<<at, p>>].proposedAt = planNow
      /\ \A k \in Keys : action'[k] = action[k] \/ (k = <<at, k[2]>> /\ Inserted(k[2]))
  <2>1. ASSUME NEW p \in Payments, Inserted(p)
        PROVE  action'[<<at, p>>] \in Actions /\ action'[<<at, p>>].proposedAt = planNow
    <3> HIDE DEF PersistPlan
    <3>1. /\ action'[<<at, p>>] \in Actions
          /\ action'[<<at, p>>] =
               [type |-> strategy.type, decision |-> candidates[p],
                proposedAt |-> planNow, status |-> StatusFor[candidates[p]]]
      BY <2>1, WhatIsInserted
    <3> QED
      BY <3>1
  <2> HIDE DEF PersistPlan
  <2> QED
    BY <2>1, WhatIsInserted
<1>2. \A k \in Keys : k[2] \in Payments
  BY DEF Keys
<1>3. TypeOK'
  <2>1. action' \in [Keys -> Actions \cup {None}]
    <3>1. \A k \in Keys : action'[k] \in Actions \cup {None}
      <4> HIDE DEF PersistPlan
      <4> QED
        BY <1>1, <1>2 DEF LimitsHold, TypeOK
    <3>2. DOMAIN action' = Keys /\ action' = [k \in Keys |-> action'[k]]
      OBVIOUS
    <3> QED
      BY <3>1, <3>2
  <2>2. incident' \in [Incidents -> {"open", "investigating", "recovering", "resolved"}]
    BY DEF LimitsHold, TypeOK
  <2> QED
    BY <2>1, <2>2 DEF LimitsHold, TypeOK, NoCandidates
<1>4. HistoryIsPast'
  <2>1. planNow <= now /\ now \in Nat
    BY DEF LimitsHold, TypeOK, HistoryIsPast
  <2>2. ASSUME NEW k \in Keys, action'[k] # None
        PROVE  action'[k].proposedAt <= now
    <3> HIDE DEF PersistPlan
    <3> QED
      BY <1>1, <1>2, <2>1, <2>2 DEF LimitsHold, HistoryIsPast
  <2> QED
    BY <2>1, <2>2 DEF HistoryIsPast
<1>5. FactsAreCurrent' /\ CandidatesFitTheHistory'
  BY PlanningNone DEF FactsAreCurrent, CandidatesFitTheHistory, Recoverable,
                      NoCandidates, Decisions
<1> QED
  BY <1>3, <1>4, <1>5

(* A live row is written only into a free slot.                            *)
LEMMA PersistPlanKeepsOneLive ==
  ASSUME LimitsHold, PersistPlan
  PROVE  OneLivePerPayment'
<1>1. ASSUME NEW k \in Keys, Inserted(k[2]), k = <<at, k[2]>>,
             action'[k].status \in Live,
             NEW l \in Keys, k[2] = l[2], action'[l] # None, action'[l].status \in Live
      PROVE  k = l
  <2>1. k[2] \in Payments
    BY DEF Keys
  <2>2. action'[k].status = StatusFor[candidates[k[2]]]
    <3>1. action'[<<at, k[2]>>] =
            [type |-> strategy.type, decision |-> candidates[k[2]],
             proposedAt |-> planNow, status |-> StatusFor[candidates[k[2]]]]
      BY <1>1, <2>1, WhatIsInserted
    <3> QED
      BY <1>1, <3>1
  <2>3. SlotIsFree(k[2])
    BY <1>1, <2>2 DEF Inserted
  <2>4. CASE action'[l] = action[l]
    BY <1>1, <2>3, <2>4 DEF SlotIsFree, RowsOf
  <2>5. CASE l = <<at, l[2]>>
    BY <1>1, <2>5
  <2> QED
    BY <2>4, <2>5, WhatIsInserted
<1>2. ASSUME NEW k \in Keys, NEW l \in Keys, k[2] = l[2],
             action'[k] # None, action'[k].status \in Live,
             action'[l] # None, action'[l].status \in Live
      PROVE  k = l
  <2>1. CASE k = <<at, k[2]>> /\ Inserted(k[2])
    BY <1>1, <1>2, <2>1
  <2>2. CASE l = <<at, l[2]>> /\ Inserted(l[2])
    BY <1>1, <1>2, <2>2
  <2>3. CASE action'[k] = action[k] /\ action'[l] = action[l]
    BY <1>2, <2>3 DEF LimitsHold, OneLivePerPayment
  <2> QED
    BY <2>1, <2>2, <2>3, WhatIsInserted
<1> QED
  BY <1>2 DEF OneLivePerPayment

(* A permitted recovery was ruled below the retry limit.                   *)
LEMMA PersistPlanKeepsRetries ==
  ASSUME LimitsHold, PersistPlan
  PROVE  RetriesAreBounded'
<1> SUFFICES ASSUME NEW p \in Payments
             PROVE  Cardinality({k \in RowsOf(p) : Permitted(k)}') <= policy.maxRetries
  BY DEF RetriesAreBounded, PersistPlan, worldVars
<1> DEFINE Before == {k \in RowsOf(p) : Permitted(k)}
           After == {k \in RowsOf(p) : Permitted(k)}'
           new == <<at, p>>
<1>1. After = {k \in Keys : k[2] = p /\ action'[k] # None /\ action'[k].decision # "BLOCKED"}
  BY DEF RowsOf, Permitted
<1>2. Before = {k \in Keys : k[2] = p /\ action[k] # None /\ action[k].decision # "BLOCKED"}
  BY DEF RowsOf, Permitted
<1>3. Before \subseteq RowsOf(p) /\ IsFiniteSet(RowsOf(p)) /\ PriorAttempts(p) \in Nat
  BY RowsAreFinite
<1>4. IsFiniteSet(Before) /\ Cardinality(Before) \in Nat /\ Cardinality(Before) <= PriorAttempts(p)
  <2> HIDE DEF Before
  <2> QED
    BY <1>3, FS_Subset, FS_CardinalityType DEF PriorAttempts
<1>5. policy.maxRetries \in Nat /\ Cardinality(Before) <= policy.maxRetries
  BY PlanningPolicies DEF LimitsHold, TypeOK, RetriesAreBounded
<1>6. After \subseteq Before \cup {new}
  <2>1. \A k \in Keys : action'[k] = action[k] \/ k = <<at, k[2]>>
    BY WhatIsInserted
  <2> QED
    BY <1>1, <1>2, <2>1
<1>7. IsFiniteSet(Before \cup {new}) /\ Cardinality(Before \cup {new}) <= Cardinality(Before) + 1
  <2> HIDE DEF Before, new
  <2>1. /\ IsFiniteSet(Before \cup {new})
        /\ Cardinality(Before \cup {new}) =
             IF new \in Before THEN Cardinality(Before) ELSE Cardinality(Before) + 1
    BY <1>4, FS_AddElement, Zenon
  <2> QED
    BY <1>4, <2>1
<1>8. CASE new \in After /\ new \notin Before
  <2>1. Inserted(p) /\ candidates[p] # "BLOCKED"
    <3>1. action'[new] # action[new]
      BY <1>1, <1>2, <1>8
    <3>2. Inserted(p)
      BY <1>1, <1>8, <3>1, WhatIsInserted
    <3>3. action'[<<at, p>>] =
            [type |-> strategy.type, decision |-> candidates[p],
             proposedAt |-> planNow, status |-> StatusFor[candidates[p]]]
      BY <3>2, WhatIsInserted
    <3> QED
      BY <1>1, <1>8, <3>2, <3>3
  <2>2. candidates[p] \in Decisions
    BY <2>1, WhatIsInserted
  <2>3. Recoverable(p)
    BY <2>1, <2>2 DEF Recoverable, Decisions
  <2>4. PriorAttempts(p) < policy.maxRetries
    BY <2>3 DEF LimitsHold, CandidatesFitTheHistory
  <2>5. Cardinality(After) <= Cardinality(Before \cup {new}) /\ Cardinality(After) \in Nat
    <3> HIDE DEF After, Before, new
    <3> QED
      BY <1>6, <1>7, FS_Subset, FS_CardinalityType
  <2>6. Cardinality(Before \cup {new}) \in Nat
    <3> HIDE DEF Before, new
    <3> QED
      BY <1>7, FS_CardinalityType
  <2> HIDE DEF After, Before, new
  <2>7. Cardinality(After) <= policy.maxRetries
    BY <1>3, <1>4, <1>5, <1>7, <2>4, <2>5, <2>6
  <2> QED
    BY <2>7 DEF After
<1>9. CASE ~(new \in After /\ new \notin Before)
  <2>1. After \subseteq Before
    BY <1>6, <1>9
  <2>2. Cardinality(After) <= Cardinality(Before) /\ Cardinality(After) \in Nat
    <3> HIDE DEF After, Before
    <3> QED
      BY <1>4, <2>1, FS_Subset, FS_CardinalityType
  <2> HIDE DEF After, Before
  <2>3. Cardinality(After) <= policy.maxRetries
    BY <1>4, <1>5, <2>2
  <2> QED
    BY <2>3 DEF After
<1> QED
  BY <1>8, <1>9

(* A permitted recovery was ruled out of the cooldown of every row.        *)
LEMMA PersistPlanKeepsCooldown ==
  ASSUME LimitsHold, PersistPlan
  PROVE  CooldownIsKept'
<1>1. ASSUME NEW k \in Keys, Inserted(k[2]), k = <<at, k[2]>>, Permitted(k)',
             NEW l \in Keys, k # l, k[2] = l[2], Permitted(l)'
      PROVE  action'[k].proposedAt - action'[l].proposedAt >= policy.cooldown
  <2>1. k[2] \in Payments
    BY DEF Keys
  <2>2. /\ candidates[k[2]] \in Decisions
        /\ action'[k] = [type |-> strategy.type, decision |-> candidates[k[2]],
                         proposedAt |-> planNow, status |-> StatusFor[candidates[k[2]]]]
    BY <1>1, <2>1, WhatIsInserted
  <2>3. Recoverable(k[2])
    BY <1>1, <2>2 DEF Permitted, Recoverable, Decisions
  <2>4. action'[l] = action[l]
    <3>1. l # <<at, l[2]>>
      BY <1>1
    <3> QED
      BY <3>1, WhatIsInserted
  <2>5. l \in RowsOf(k[2])
    BY <1>1, <2>4 DEF RowsOf, Permitted
  <2> QED
    BY <2>1, <2>2, <2>3, <2>4, <2>5 DEF LimitsHold, CandidatesFitTheHistory
<1>2. ASSUME NEW k \in Keys, NEW l \in Keys, k # l, k[2] = l[2],
             Permitted(k)', Permitted(l)'
      PROVE  \/ action'[k].proposedAt - action'[l].proposedAt >= policy.cooldown
             \/ action'[l].proposedAt - action'[k].proposedAt >= policy.cooldown
  <2>1. CASE k = <<at, k[2]>> /\ Inserted(k[2])
    BY <1>1, <1>2, <2>1
  <2>2. CASE l = <<at, l[2]>> /\ Inserted(l[2])
    BY <1>1, <1>2, <2>2
  <2>3. CASE action'[k] = action[k] /\ action'[l] = action[l]
    BY <1>2, <2>3 DEF LimitsHold, CooldownIsKept, Permitted
  <2> QED
    BY <2>1, <2>2, <2>3, WhatIsInserted
<1> QED
  BY <1>2 DEF CooldownIsKept, PersistPlan, worldVars

LEMMA PersistPlanKeepsLimits ==
  ASSUME LimitsHold, PersistPlan
  PROVE  LimitsHold'
BY PersistPlanKeepsTypes, PersistPlanKeepsOneLive, PersistPlanKeepsRetries,
   PersistPlanKeepsCooldown DEF LimitsHold

-----------------------------------------------------------------------------
(* What others do.                                                         *)

\* A status changes, and a live one only in a live row.
LEMMA MovedAction ==
  ASSUME LimitsHold, NEW k \in Keys, NEW from \in Live,
         NEW to \in Live \cup {"denied", "executed", "failed"}, MoveAction(k, from, to)
  PROVE  HistoryKept /\ action' \in [Keys -> Actions \cup {None}] /\ OneLivePerPayment'
<1>1. action[k] \in Actions /\ action[k].status = from /\ action \in [Keys -> Actions \cup {None}]
  BY PlanningNone DEF MoveAction, LimitsHold, TypeOK
<1>2. action' = [action EXCEPT ![k] = [action[k] EXCEPT !.status = to]]
  BY DEF MoveAction
<1>3. [action[k] EXCEPT !.status = to] \in Actions
  BY <1>1 DEF Actions
<1>4. action' \in [Keys -> Actions \cup {None}]
  BY <1>1, <1>2, <1>3
<1>5. \A l \in Keys : l # k => action'[l] = action[l]
  BY <1>1, <1>2
<1>6. action'[k] = [action[k] EXCEPT !.status = to]
  BY <1>1, <1>2
<1>7. /\ action'[k].proposedAt = action[k].proposedAt
      /\ action'[k].decision = action[k].decision
      /\ action'[k] # None /\ action[k] # None
  BY <1>1, <1>3, <1>6, PlanningNone DEF Actions
<1>8. HistoryKept
  BY <1>5, <1>7 DEF HistoryKept
<1>9. \A l \in Keys : action'[l] # None /\ action'[l].status \in Live =>
        action[l] # None /\ action[l].status \in Live
  BY <1>1, <1>5, <1>7
<1>10. OneLivePerPayment'
  BY <1>9 DEF LimitsHold, OneLivePerPayment
<1> QED
  BY <1>4, <1>8, <1>10

LEMMA DecideActionKeepsLimits ==
  ASSUME LimitsHold, NEW k \in Keys, NEW answer \in {"approved", "denied"},
         DecideAction(k, answer)
  PROVE  LimitsHold'
<1> USE DEF DecideAction, worldVars, planVars
<1>1. /\ HistoryKept /\ action' \in [Keys -> Actions \cup {None}]
      /\ OneLivePerPayment'
  BY MovedAction DEF Live
<1>2. TypeOK'
  BY <1>1 DEF LimitsHold, TypeOK
<1>3. now' \in Nat /\ now' >= now
  BY DEF LimitsHold, TypeOK
<1> QED
  BY <1>1, <1>2, <1>3, KeptPlan DEF LimitsHold

LEMMA ClaimActionKeepsLimits ==
  ASSUME LimitsHold, NEW k \in Keys, ClaimAction(k)
  PROVE  LimitsHold'
<1> USE DEF ClaimAction, worldVars, planVars
<1>1. /\ HistoryKept /\ action' \in [Keys -> Actions \cup {None}]
      /\ OneLivePerPayment'
  BY MovedAction DEF Live
<1>2. TypeOK'
  BY <1>1 DEF LimitsHold, TypeOK
<1>3. now' \in Nat /\ now' >= now
  BY DEF LimitsHold, TypeOK
<1> QED
  BY <1>1, <1>2, <1>3, KeptPlan DEF LimitsHold

LEMMA SettleSucceededKeepsLimits ==
  ASSUME LimitsHold, NEW k \in Keys, SettleSucceeded(k)
  PROVE  LimitsHold'
<1> USE DEF SettleSucceeded, worldVars, planVars
<1>1. /\ HistoryKept /\ action' \in [Keys -> Actions \cup {None}]
      /\ OneLivePerPayment'
  BY MovedAction DEF Live
<1>2. TypeOK'
  BY <1>1 DEF LimitsHold, TypeOK
<1>3. now' \in Nat /\ now' >= now
  BY DEF LimitsHold, TypeOK
<1> QED
  BY <1>1, <1>2, <1>3, KeptPlan DEF LimitsHold

LEMMA SettleFailedKeepsLimits ==
  ASSUME LimitsHold, NEW k \in Keys, SettleFailed(k)
  PROVE  LimitsHold'
<1> USE DEF SettleFailed, worldVars, planVars
<1>1. /\ HistoryKept /\ action' \in [Keys -> Actions \cup {None}]
      /\ OneLivePerPayment'
  BY MovedAction DEF Live
<1>2. TypeOK'
  BY <1>1 DEF LimitsHold, TypeOK
<1>3. now' \in Nat /\ now' >= now
  BY DEF LimitsHold, TypeOK
<1> QED
  BY <1>1, <1>2, <1>3, KeptPlan DEF LimitsHold

LEMMA RefuseActionKeepsLimits ==
  ASSUME LimitsHold, NEW k \in Keys, RefuseAction(k)
  PROVE  LimitsHold'
<1> USE DEF RefuseAction, worldVars, planVars
<1>1. /\ HistoryKept /\ action' \in [Keys -> Actions \cup {None}]
      /\ OneLivePerPayment'
  BY MovedAction DEF Live
<1>2. TypeOK'
  BY <1>1 DEF LimitsHold, TypeOK
<1>3. now' \in Nat /\ now' >= now
  BY DEF LimitsHold, TypeOK
<1> QED
  BY <1>1, <1>2, <1>3, KeptPlan DEF LimitsHold

(* Captures, opt-outs, resolved incidents and time leave actions alone.    *)
LEMMA SurroundingsKeepLimits ==
  ASSUME LimitsHold,
         \/ \E p \in Payments : CapturePayment(p) \/ CustomerOptsOut(p)
         \/ \E i \in Incidents : ResolveIncident(i)
         \/ Tick
  PROVE  LimitsHold'
<1> USE DEF CapturePayment, CustomerOptsOut, ResolveIncident, Tick,
            worldVars, tableVars, planVars
<1>1. HistoryKept
  BY DEF HistoryKept
<1>2. now' \in Nat /\ now' >= now
  BY DEF LimitsHold, TypeOK
<1>3. TypeOK'
  <2>1. ASSUME NEW p \in Payments, CapturePayment(p) \/ CustomerOptsOut(p)
        PROVE  TypeOK'
    BY <2>1 DEF LimitsHold, TypeOK
  <2>2. ASSUME NEW i \in Incidents, ResolveIncident(i)
        PROVE  TypeOK'
    BY <2>2 DEF LimitsHold, TypeOK
  <2>3. CASE Tick
    BY <2>3 DEF LimitsHold, TypeOK
  <2> QED
    BY <2>1, <2>2, <2>3
<1>4. OneLivePerPayment'
  BY DEF LimitsHold, OneLivePerPayment
<1>5. policy' = policy /\ UNCHANGED <<strategy, facts, left, candidates, planNow, pc>>
  OBVIOUS
<1> QED
  BY <1>1, <1>2, <1>3, <1>4, <1>5, KeptPlan DEF LimitsHold

-----------------------------------------------------------------------------
(* The theorems.                                                           *)

LEMMA InitHasLimits == Init => LimitsHold
<1> SUFFICES ASSUME Init
             PROVE  LimitsHold
  OBVIOUS
<1> USE DEF Init
<1>1. TypeOK
  BY DEF TypeOK, NoCandidates
<1>2. HistoryIsPast /\ FactsAreCurrent /\ OneLivePerPayment /\ CooldownIsKept
  BY DEF HistoryIsPast, FactsAreCurrent, OneLivePerPayment, CooldownIsKept, Permitted
<1>3. CandidatesFitTheHistory
  BY PlanningNone DEF CandidatesFitTheHistory, Recoverable, NoCandidates, Decisions
<1>4. RetriesAreBounded
  <2>1. \A p : {k \in RowsOf(p) : Permitted(k)} = {}
    BY DEF RowsOf
  <2>2. policy.maxRetries \in Nat
    BY PlanningPolicies
  <2> QED
    BY <2>1, <2>2, FS_EmptySet DEF RetriesAreBounded
<1> QED
  BY <1>1, <1>2, <1>3, <1>4 DEF LimitsHold

LEMMA NextKeepsLimits == LimitsHold /\ [Next]_vars => LimitsHold'
<1> SUFFICES ASSUME LimitsHold, [Next]_vars
             PROVE  LimitsHold'
  OBVIOUS
<1>1. ASSUME NEW i \in Incidents, StartRun(i)
      PROVE  LimitsHold'
  BY <1>1, StartRunKeepsLimits
<1>2. ASSUME NEW answer \in Answers, ProposeStrategy(answer)
      PROVE  LimitsHold'
  BY <1>2, ProposeStrategyKeepsLimits
<1>3. CASE ReuseStrategy \/ ReadRows \/ PlanDecline \/ ReadTotal
  BY <1>3, ReuseStrategyKeepsLimits, ReadRowsKeepsLimits,
     PlanDeclineKeepsLimits, ReadTotalKeepsLimits
<1>4. ASSUME NEW p \in Payments, RulePayment(p)
      PROVE  LimitsHold'
  BY <1>4, RulePaymentKeepsLimits
<1>5. CASE UnknownActionRaises \/ Crash
  BY <1>5, StoppedRun DEF UnknownActionRaises, Crash
<1>6. CASE PlanComplete \/ PersistPlan
  BY <1>6, PlanCompleteKeepsLimits, PersistPlanKeepsLimits
<1>7. ASSUME NEW k \in Keys,
             \/ \E answer \in {"approved", "denied"} : DecideAction(k, answer)
             \/ ClaimAction(k) \/ SettleSucceeded(k) \/ SettleFailed(k) \/ RefuseAction(k)
      PROVE  LimitsHold'
  BY <1>7, DecideActionKeepsLimits, ClaimActionKeepsLimits,
     SettleSucceededKeepsLimits, SettleFailedKeepsLimits, RefuseActionKeepsLimits
<1>8. CASE \/ \E p \in Payments : CapturePayment(p) \/ CustomerOptsOut(p)
           \/ \E i \in Incidents : ResolveIncident(i)
           \/ Tick
  BY <1>8, SurroundingsKeepLimits
<1>9. CASE UNCHANGED vars
  <2>1. HistoryKept /\ now' = now
    BY <1>9 DEF HistoryKept, vars, tableVars
  <2>2. TypeOK' /\ OneLivePerPayment'
    BY <1>9 DEF LimitsHold, TypeOK, OneLivePerPayment, vars, tableVars, planVars, worldVars
  <2>3. now' \in Nat /\ now' >= now
    BY <2>1 DEF LimitsHold, TypeOK
  <2>4. policy' = policy /\ UNCHANGED <<strategy, facts, left, candidates, planNow, pc>>
    BY <1>9 DEF vars, planVars, worldVars
  <2> QED
    BY <2>1, <2>2, <2>3, <2>4, KeptPlan DEF LimitsHold
<1> QED
  BY <1>1, <1>2, <1>3, <1>4, <1>5, <1>6, <1>7, <1>8, <1>9 DEF Next, Run, World

(* Between reading a payment's history and writing its actions nothing     *)
(* makes that history stale, whatever others do to the same tables.        *)
LEMMA LimitsInvariant == Spec => []LimitsHold
<1> QED
  BY InitHasLimits, NextKeepsLimits, PTL DEF Spec

(* However many incidents claim a payment, it has one live action.         *)
THEOREM OneLiveActionPerPayment == Spec => []OneLivePerPayment
<1>1. LimitsHold => OneLivePerPayment
  BY DEF LimitsHold
<1> QED
  BY <1>1, LimitsInvariant, PTL

(* A payment is permitted at most as many recoveries as the merchant's     *)
(* retry limit, counted over all incidents and runs.                       *)
THEOREM RetryLimitHolds == Spec => []RetriesAreBounded
<1>1. LimitsHold => RetriesAreBounded
  BY DEF LimitsHold
<1> QED
  BY <1>1, LimitsInvariant, PTL

(* Two permitted recoveries of one payment are a cooldown apart, counted   *)
(* over all incidents and runs.                                            *)
THEOREM CooldownHolds == Spec => []CooldownIsKept
<1>1. LimitsHold => CooldownIsKept
  BY DEF LimitsHold
<1> QED
  BY <1>1, LimitsInvariant, PTL

-----------------------------------------------------------------------------
(* The day's cap.                                                          *)

LEMMA SomePaymentsAreFinite ==
  ASSUME NEW S, S \subseteq Payments
  PROVE  IsFiniteSet(S) /\ (\A p \in S : AmountOf[p] \in Nat)
BY FiniteAssumption, PaymentsAssumption, FS_Subset

LEMMA ClaimsAreNat ==
  ASSUME NEW t
  PROVE  Committed(t) \in Nat
<1> DEFINE counted ==
      {k \in Keys : claimedAt[k] # None /\ claimedAt[k] >= DayStart(t, DayLength)}
<1>1. IsFiniteSet(Keys)
  BY FiniteAssumption, FS_Product DEF Keys
<1>2. IsFiniteSet(counted)
  BY <1>1, FS_Subset
<1>3. \A k \in counted : ClaimedAmount[k] \in Nat
  <2>1. \A k \in Keys : k[2] \in Payments
    BY DEF Keys
  <2> QED
    BY <2>1, PaymentsAssumption DEF ClaimedAmount
<1>4. Committed(t) = Total(ClaimedAmount, counted)
  BY DEF Committed
<1> HIDE DEF counted
<1> QED
  BY <1>2, <1>3, <1>4, TotalIsNat

(* Without a candidate a plan has used up nothing of the day.              *)
LEMMA NothingApprovedYet ==
  ASSUME \A p \in Payments : candidates[p] = None
  PROVE  Approved = {}
<1>1. None # "AUTO_APPROVED"
  BY PlanningNone DEF Decisions
<1> QED
  BY <1>1 DEF Approved

\* A plan before its first ruling.
Fresh ==
  /\ base \in Nat /\ running = base /\ left \subseteq Payments
  /\ \A p \in Payments : candidates[p] = None

LEMMA FreshIsTrue == Fresh => RunningTotalIsTrue
<1>1. Fresh => Approved = {}
  BY NothingApprovedYet DEF Fresh
<1>2. \A n \in Nat : n = n + 0
  OBVIOUS
<1> QED
  BY <1>1, <1>2, TotalOfNone DEF Fresh, RunningTotalIsTrue

(* Until the first ruling the total is the day's.                          *)
LEMMA TotalIsBase ==
  ASSUME LimitsHold, RunningTotalIsTrue, pc \notin {"rule", "persist"}
  PROVE  base \in Nat /\ running = base
<1>1. Approved = {}
  BY NoCandidatesYet, NothingApprovedYet
<1> QED
  BY <1>1, TotalOfNone DEF RunningTotalIsTrue

LEMMA RulePaymentKeepsTotal ==
  ASSUME LimitsHold, RunningTotalIsTrue, NEW p \in Payments, RulePayment(p)
  PROVE  RunningTotalIsTrue'
<1> USE DEF RulePayment, worldVars, tableVars
<1>1. /\ candidates \in [Payments -> Decisions \cup {None}]
      /\ candidates[p] = None /\ left \subseteq Payments
      /\ candidates' = [candidates EXCEPT ![p] = Ruling(p)]
      /\ left' = left \ {p} /\ base' = base /\ strategy' = strategy /\ policy' = policy
  BY DEF LimitsHold, TypeOK, RunningTotalIsTrue
<1>2. \A q \in left' : candidates'[q] = None
  BY <1>1 DEF RunningTotalIsTrue
<1>3. Approved \subseteq Payments
  BY DEF Approved
<1>4. Total(AmountOf, Approved) \in Nat /\ AmountOf[p] \in Nat /\ running \in Nat
  <2>1. IsFiniteSet(Approved) /\ \A q \in Approved : AmountOf[q] \in Nat
    BY <1>3, SomePaymentsAreFinite
  <2>2. Total(AmountOf, Approved) \in Nat
    BY <2>1, TotalIsNat
  <2> QED
    BY <2>2, PaymentsAssumption DEF RunningTotalIsTrue
<1>5. CASE Ruling(p) = "AUTO_APPROVED"
  <2>1. p \notin Approved /\ Approved' = Approved \cup {p}
    BY <1>1, <1>5, PlanningNone DEF Approved, Decisions
  <2>2. Total(AmountOf, Approved') = Total(AmountOf, Approved) + AmountOf[p]
    <3>1. IsFiniteSet(Approved) /\ \A q \in Approved \cup {p} : AmountOf[q] \in Int
      BY <1>3, <1>4, SomePaymentsAreFinite
    <3>2. Total(AmountOf, Approved \cup {p}) = Total(AmountOf, Approved) + AmountOf[p]
      BY <2>1, <3>1, TotalWith
    <3> QED
      BY <2>1, <3>2
  <2>3. running' = running + AmountOf[p]
    BY <1>5 DEF Spend
  <2>4. running' = base' + Total(AmountOf, Approved')
    BY <1>1, <1>4, <2>2, <2>3 DEF RunningTotalIsTrue
  <2>5. ASSUME strategy.type \in FinancialActions
        PROVE  running' <= policy.maxDaily
    <3> DEFINE act == [type |-> strategy.type, identified |-> TRUE,
                       amount |-> AmountOf[p], proposedAt |-> planNow]
               ctx == [paymentStatus |-> "failed", optedOut |-> facts[p].optedOut,
                       priorAttempts |-> facts[p].prior, lastAttempt |-> facts[p].last,
                       committed |-> running, now |-> planNow]
    <3>1. Evaluate(act, ctx, policy) = "AUTO_APPROVED"
      BY <1>5 DEF Ruling
    <3>2. IsFinancial(act) /\ act.amount = AmountOf[p] /\ ctx.committed = running
      BY <2>5 DEF IsFinancial
    <3> HIDE DEF act, ctx
    <3>3. ~(running + AmountOf[p] > policy.maxDaily)
      BY <3>1, <3>2, PermitIsWithinLimits DEF OverDailyCap
    <3>4. policy.maxDaily \in Nat
      BY PlanningPolicies DEF LimitsHold, TypeOK
    <3> QED
      BY <1>4, <2>3, <3>3, <3>4
  <2> QED
    BY <1>1, <1>2, <2>4, <2>5 DEF RunningTotalIsTrue
<1>6. CASE Ruling(p) # "AUTO_APPROVED"
  <2>1. Approved' = Approved
    BY <1>1, <1>6, PlanningNone DEF Approved, Decisions
  <2>2. running' = running
    BY <1>6 DEF Spend
  <2> QED
    BY <1>1, <1>2, <2>1, <2>2 DEF RunningTotalIsTrue
<1> QED
  BY <1>5, <1>6

LEMMA StoppedRunKeepsTotal ==
  ASSUME EndRun
  PROVE  RunningTotalIsTrue'
<1>1. Fresh'
  BY DEF EndRun, NoCandidates, Fresh
<1> QED
  BY <1>1, FreshIsTrue, PTL

LEMMA TotalStep == LimitsHold /\ RunningTotalIsTrue /\ [Next]_vars => RunningTotalIsTrue'
<1> SUFFICES ASSUME LimitsHold, RunningTotalIsTrue, [Next]_vars
             PROVE  RunningTotalIsTrue'
  OBVIOUS
<1> DEFINE Kept == UNCHANGED <<base, running, left, candidates, strategy, policy>>
<1>1. ASSUME Kept
      PROVE  RunningTotalIsTrue'
  BY <1>1 DEF RunningTotalIsTrue, Approved
<1>2. Fresh' => RunningTotalIsTrue'
  BY FreshIsTrue, PTL
<1>3. CASE \/ \E answer \in Answers : ProposeStrategy(answer)
           \/ ReuseStrategy \/ ReadRows \/ ReadTotal
  <2>1. base \in Nat /\ running = base /\ \A p \in Payments : candidates[p] = None
    BY <1>3, TotalIsBase, NoCandidatesYet
    DEF ProposeStrategy, ReuseStrategy, ReadRows, ReadTotal
  <2>2. left \subseteq Payments /\ (strategy # None => strategy.targets \subseteq Payments)
    BY PlanningNone DEF LimitsHold, TypeOK, Strategies
  <2>3. CASE (\E answer \in Answers : ProposeStrategy(answer)) \/ ReuseStrategy
    BY <1>2, <2>1, <2>2, <2>3 DEF ProposeStrategy, ReuseStrategy, Fresh
  <2>4. CASE ReadRows
    <3>1. left' \subseteq Payments
      BY <2>2, <2>4 DEF ReadRows, LimitsHold, TypeOK
    <3> QED
      BY <1>2, <2>1, <2>4, <3>1 DEF ReadRows, Fresh
  <2>5. CASE ReadTotal
    BY <1>2, <2>1, <2>2, <2>5, ClaimsAreNat DEF ReadTotal, Fresh
  <2> QED
    BY <1>3, <2>3, <2>4, <2>5
<1>4. ASSUME NEW p \in Payments, RulePayment(p)
      PROVE  RunningTotalIsTrue'
  BY <1>4, RulePaymentKeepsTotal
<1>5. CASE UnknownActionRaises \/ PersistPlan \/ Crash
  BY <1>5, StoppedRunKeepsTotal DEF UnknownActionRaises, PersistPlan, Crash
<1>6. CASE (\E i \in Incidents : StartRun(i)) \/ PlanDecline \/ PlanComplete
  BY <1>1, <1>6 DEF StartRun, PlanDecline, PlanComplete, planVars, worldVars
<1>7. CASE World
  <2>1. Kept
    BY <1>7
    DEF World, DecideAction, ClaimAction, SettleSucceeded, SettleFailed, RefuseAction,
        CapturePayment, CustomerOptsOut, ResolveIncident, Tick, planVars, worldVars
  <2> QED
    BY <1>1, <2>1
<1>8. CASE UNCHANGED vars
  BY <1>1, <1>8 DEF vars, planVars, worldVars
<1> QED
  BY <1>3, <1>4, <1>5, <1>6, <1>7, <1>8 DEF Next, Run

(* What a plan believes to be spent is what the day had committed and what *)
(* it has approved itself, each payment counted once, up to its last step. *)
LEMMA TotalInvariant == Spec => []RunningTotalIsTrue
<1>1. Init => RunningTotalIsTrue
  BY FreshIsTrue DEF Init, NoCandidates, Fresh
<1> QED
  BY <1>1, LimitsInvariant, TotalStep, PTL DEF Spec

(* While a plan is made, what it has read of the payments, and what it      *)
(* believes to be spent, stays true.                                       *)
THEOREM PlanningInvariant == Spec => []Inductive
BY LimitsInvariant, TotalInvariant, PTL DEF Inductive

(* The links one plan approves fit into the daily cap together with what   *)
(* the day had committed when it began, however many there are.            *)
THEOREM PlanStaysWithinDay == Spec => []PlanFitsTheDay
<1>1. RunningTotalIsTrue => PlanFitsTheDay
  BY DEF RunningTotalIsTrue, PlanFitsTheDay
<1> QED
  BY <1>1, TotalInvariant, PTL
=============================================================================
