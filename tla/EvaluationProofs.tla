-------------------------- MODULE EvaluationProofs --------------------------
(***************************************************************************)
(* One call of evaluate(), for every proposal, history and configuration   *)
(* of the right types: the rule list decides as the written policy, and    *)
(* more money, a worse history or a tighter configuration never frees an   *)
(* action.                                                                 *)
(***************************************************************************)
EXTENDS Evaluation, PolicyProofs

\* The decision the written policy asks for.
Written(a, c, g) ==
  IF ~MayBeAsked(a, c, g) THEN "BLOCKED"
  ELSE IF IsFinancial(a) /\ a.amount > g.maxAuto
       THEN "REQUIRES_APPROVAL" ELSE "AUTO_APPROVED"

\* No rule fires before the approval threshold.
NoHardBlock(a, c, g) == \A i \in 1..11 : ~Fires(RuleOrder[i], a, c, g)

(* The eleven hard blocks together are the written condition for asking.   *)
LEMMA HardBlocksAreWritten ==
  ASSUME NEW a \in ProposedActions, NEW c \in Contexts, NEW g \in Configs
  PROVE  NoHardBlock(a, c, g) <=> MayBeAsked(a, c, g)
<1>1. NoHardBlock(a, c, g) <=>
        /\ ~(a.type \notin ActionTypes)
        /\ a.identified /\ ~InvalidAmount(a)
        /\ ~(Age(a, c) > g.ttl) /\ ~(Age(a, c) < 0)
        /\ ~(g.enforceOptOut /\ c.optedOut)
        /\ ~AlreadyPaid(c, g) /\ ~NotRecoverable(c, g)
        /\ ~RetriesExhausted(c, g) /\ ~CoolingDown(c, g)
        /\ ~OverDailyCap(a, c, g)
  <2>1. NoHardBlock(a, c, g) <=>
          /\ ~Fires(RuleOrder[1], a, c, g) /\ ~Fires(RuleOrder[2], a, c, g)
          /\ ~Fires(RuleOrder[3], a, c, g) /\ ~Fires(RuleOrder[4], a, c, g)
          /\ ~Fires(RuleOrder[5], a, c, g) /\ ~Fires(RuleOrder[6], a, c, g)
          /\ ~Fires(RuleOrder[7], a, c, g) /\ ~Fires(RuleOrder[8], a, c, g)
          /\ ~Fires(RuleOrder[9], a, c, g) /\ ~Fires(RuleOrder[10], a, c, g)
          /\ ~Fires(RuleOrder[11], a, c, g)
    BY DEF NoHardBlock
  <2> QED
    BY <2>1 DEF RuleOrder, Fires
<1>2. (~(Age(a, c) > g.ttl) /\ ~(Age(a, c) < 0)) <=> Fresh(a, c, g)
  <2>1. a.proposedAt \in Int /\ c.now \in Int /\ g.ttl \in Int
    BY RequestsAssumption
  <2> QED
    BY <2>1 DEF Age, Fresh
<1>3. (~AlreadyPaid(c, g) /\ ~NotRecoverable(c, g))
        <=> (g.duplicateCheck => c.paymentStatus = "failed")
  BY DEF AlreadyPaid, NotRecoverable, RecoverableStatuses
<1>4. ~RetriesExhausted(c, g) <=> c.priorAttempts < g.maxRetries
  <2>1. c.priorAttempts \in Int /\ g.maxRetries \in Int
    BY RequestsAssumption
  <2> QED
    BY <2>1 DEF RetriesExhausted
<1>5. ~CoolingDown(c, g)
        <=> (c.lastAttempt = Never \/ c.lastAttempt + g.cooldown <= c.now)
  <2>1. c.lastAttempt \in Int \cup {Never} /\ c.now \in Int /\ g.cooldown \in Int
    BY RequestsAssumption
  <2> QED
    BY <2>1 DEF CoolingDown
<1>6. a.identified /\ ~InvalidAmount(a) =>
        (~OverDailyCap(a, c, g)
          <=> (IsFinancial(a) => a.amount <= g.maxDaily - c.committed))
  <2>1. a.amount \in Int \cup {NotAnInteger} /\ g.maxDaily \in Int /\ c.committed \in Int
    BY RequestsAssumption
  <2>2. CASE ~IsFinancial(a)
    BY <2>2 DEF OverDailyCap
  <2>3. CASE IsFinancial(a) /\ a.amount = NotAnInteger
    BY <2>3 DEF InvalidAmount
  <2>4. CASE IsFinancial(a) /\ a.amount \in Int
    BY <2>1, <2>4 DEF OverDailyCap
  <2> QED
    BY <2>1, <2>2, <2>3, <2>4
<1> QED
  BY <1>1, <1>2, <1>3, <1>4, <1>5, <1>6 DEF MayBeAsked, WellFormed

(* The first rule that fires decides as the written policy does.           *)
LEMMA EvaluatesAsWritten ==
  ASSUME NEW a \in ProposedActions, NEW c \in Contexts, NEW g \in Configs
  PROVE  Evaluate(a, c, g) = Written(a, c, g)
<1> DEFINE f == FirstMatch(a, c, g)
<1>1. /\ f \in 1..LastRule
      /\ Fires(RuleOrder[f], a, c, g)
      /\ \A j \in 1..(f - 1) : ~Fires(RuleOrder[j], a, c, g)
  BY FirstMatchWins
<1>2. Evaluate(a, c, g) = DecisionOf(RuleOrder[f])
  BY DEF Evaluate, DecidingRule
<1> HIDE DEF f
<1>3. CASE f \in 1..11
  <2>1. ~MayBeAsked(a, c, g)
    BY <1>1, <1>3, HardBlocksAreWritten DEF NoHardBlock
  <2>2. DecisionOf(RuleOrder[f]) = "BLOCKED"
    BY <1>3 DEF RuleOrder, DecisionOf
  <2> QED
    BY <1>2, <2>1, <2>2 DEF Written
<1>4. CASE f = 12
  <2>1. MayBeAsked(a, c, g)
    BY <1>1, <1>4, HardBlocksAreWritten DEF NoHardBlock
  <2>2. RuleOrder[f] = "above_auto_threshold"
    BY <1>4 DEF RuleOrder
  <2>3. OverAutoLimit(a, c, g)
    BY <1>1, <2>2 DEF Fires
  <2> QED
    BY <1>2, <2>1, <2>2, <2>3 DEF Written, DecisionOf, OverAutoLimit
<1>5. CASE f = 13
  <2>1. NoHardBlock(a, c, g) /\ ~Fires(RuleOrder[12], a, c, g)
    BY <1>1, <1>5 DEF NoHardBlock
  <2>2. MayBeAsked(a, c, g)
    BY <2>1, HardBlocksAreWritten
  <2>3. ~OverAutoLimit(a, c, g)
    BY <2>1 DEF RuleOrder, Fires
  <2>4. DecisionOf(RuleOrder[f]) = "AUTO_APPROVED"
    BY <1>5 DEF RuleOrder, DecisionOf
  <2> QED
    BY <1>2, <2>2, <2>3, <2>4 DEF Written, OverAutoLimit
<1> QED
  BY <1>1, <1>3, <1>4, <1>5 DEF LastRule

(* Whoever may be asked for more, later in a worse history or under a      *)
(* tighter configuration may be asked for less.                            *)
LEMMA AskingIsMonotone ==
  ASSUME NEW a \in ProposedActions, NEW b \in ProposedActions, AsksForMore(a, b),
         NEW c \in Contexts, NEW d \in Contexts, NoBetter(c, d),
         NEW g \in Configs, NEW h \in Configs, NoLooser(g, h),
         a.amount # NotAnInteger, a.amount > 0,
         MayBeAsked(b, d, h)
  PROVE  MayBeAsked(a, c, g)
<1>1. /\ a.type = b.type /\ a.identified = b.identified
      /\ a.proposedAt = b.proposedAt
      /\ a.amount \in Int /\ b.amount \in Int /\ a.amount <= b.amount
  BY RequestsAssumption DEF AsksForMore
<1>2. WellFormed(a) /\ (IsFinancial(a) <=> IsFinancial(b))
  BY <1>1, RequestsAssumption DEF MayBeAsked, WellFormed, InvalidAmount, IsFinancial
<1>3. Fresh(a, c, g)
  <2>1. /\ c.now \in Int /\ g.ttl \in Int /\ h.ttl \in Int /\ b.proposedAt \in Int
        /\ d.now = c.now /\ h.ttl <= g.ttl
    BY RequestsAssumption DEF NoBetter, NoLooser
  <2> QED
    BY <1>1, <2>1 DEF MayBeAsked, Fresh
<1>4. /\ g.enforceOptOut => ~c.optedOut
      /\ g.duplicateCheck => c.paymentStatus = "failed"
  BY DEF MayBeAsked, NoBetter, NoLooser
<1>5. c.priorAttempts < g.maxRetries
  BY RequestsAssumption DEF MayBeAsked, NoBetter, NoLooser
<1>6. c.lastAttempt = Never \/ c.lastAttempt + g.cooldown <= c.now
  <2> SUFFICES ASSUME c.lastAttempt # Never
               PROVE  c.lastAttempt + g.cooldown <= c.now
    OBVIOUS
  <2>1. /\ c.lastAttempt \in Int /\ d.lastAttempt \in Int
        /\ c.lastAttempt <= d.lastAttempt /\ d.now = c.now /\ c.now \in Int
        /\ g.cooldown \in Int /\ h.cooldown \in Int /\ g.cooldown <= h.cooldown
    BY RequestsAssumption DEF NoBetter, NoLooser
  <2>2. d.lastAttempt + h.cooldown <= d.now
    BY <2>1, RequestsAssumption DEF MayBeAsked, NoBetter
  <2> QED
    BY <2>1, <2>2
<1>7. IsFinancial(a) => a.amount <= g.maxDaily - c.committed
  <2>1. /\ c.committed \in Int /\ d.committed \in Int /\ c.committed <= d.committed
        /\ g.maxDaily \in Int /\ h.maxDaily \in Int /\ h.maxDaily <= g.maxDaily
    BY RequestsAssumption DEF NoBetter, NoLooser
  <2> QED
    BY <1>1, <1>2, <2>1 DEF MayBeAsked
<1> QED
  BY <1>2, <1>3, <1>4, <1>5, <1>6, <1>7 DEF MayBeAsked

LEMMA StricterStep ==
  ASSUME NEW a \in ProposedActions, NEW b \in ProposedActions, AsksForMore(a, b),
         NEW c \in Contexts, NEW d \in Contexts, NoBetter(c, d),
         NEW g \in Configs, NEW h \in Configs, NoLooser(g, h),
         a.amount # NotAnInteger, a.amount > 0
  PROVE  Freedom[Evaluate(b, d, h)] <= Freedom[Evaluate(a, c, g)]
<1>1. Evaluate(a, c, g) = Written(a, c, g) /\ Evaluate(b, d, h) = Written(b, d, h)
  BY EvaluatesAsWritten
<1>2. /\ Freedom["AUTO_APPROVED"] = 2 /\ Freedom["REQUIRES_APPROVAL"] = 1
      /\ Freedom["BLOCKED"] = 0
  BY DEF Freedom
<1>3. CASE ~MayBeAsked(b, d, h)
  BY <1>1, <1>2, <1>3 DEF Written
<1>4. CASE MayBeAsked(b, d, h)
  <2>1. MayBeAsked(a, c, g)
    BY <1>4, AskingIsMonotone
  <2>2. /\ IsFinancial(a) <=> IsFinancial(b)
        /\ a.amount \in Int /\ b.amount \in Int /\ a.amount <= b.amount
        /\ g.maxAuto \in Int /\ h.maxAuto \in Int /\ h.maxAuto <= g.maxAuto
    BY RequestsAssumption DEF AsksForMore, IsFinancial, NoLooser
  <2>3. IsFinancial(a) /\ a.amount > g.maxAuto => IsFinancial(b) /\ b.amount > h.maxAuto
    BY <2>2
  <2> QED
    BY <1>1, <1>2, <1>4, <2>1, <2>3 DEF Written
<1> QED
  BY <1>3, <1>4

-----------------------------------------------------------------------------
(* What every call of evaluate() satisfies.                                *)

\* A request keeps its inputs, and its decision is the rule list's.
Answered ==
  /\ act \in ProposedActions /\ ctx \in Contexts /\ cfg \in Configs
  /\ decision # "none" => decision = Evaluate(act, ctx, cfg)

LEMMA AnswersAreEvaluations == Spec => []Answered
<1>1. Init => Answered
  BY DEF Init, Answered
<1>2. Answered /\ [Next]_vars => Answered'
  <2> SUFFICES ASSUME Answered, [Next]_vars PROVE Answered'
    OBVIOUS
  <2>1. CASE Decide
    BY <2>1 DEF Decide, Answered
  <2>2. CASE UNCHANGED vars
    BY <2>2 DEF vars, Answered
  <2> QED
    BY <2>1, <2>2 DEF Next
<1> QED
  BY <1>1, <1>2, PTL DEF Spec

(* The ordered rules decide as the written policy: a hard condition that   *)
(* fails blocks, and only an action that passes them all and moves more    *)
(* than the autonomous limit goes to a human.                              *)
THEOREM RulesDecideAsWritten == Spec => []DecidesAsWritten
<1>1. Answered => DecidesAsWritten
  BY EvaluatesAsWritten DEF Answered, DecidesAsWritten, Written
<1> QED
  BY <1>1, AnswersAreEvaluations, PTL

(* More money, a worse history or a tighter configuration never turns a    *)
(* refusal into a permit.                                                  *)
THEOREM StricterInputsNeverFree == Spec => []StricterNeverFreer
<1>1. Answered => StricterNeverFreer
  BY StricterStep DEF Answered, StricterNeverFreer
<1> QED
  BY <1>1, AnswersAreEvaluations, PTL

(* A loaded configuration can spend its autonomous limit once: on a day    *)
(* with nothing committed the daily cap refuses no amount within it.       *)
THEOREM AutonomousLimitFitsTheDay == Spec => []AutonomousLimitIsUsable
<1>1. Answered => AutonomousLimitIsUsable
  <2> SUFFICES ASSUME Answered, ctx.committed = 0, act.amount # NotAnInteger,
                      act.amount <= cfg.maxAuto,
                      DecidingRule(act, ctx, cfg) = "daily_limit_exceeded"
               PROVE  FALSE
    BY DEF AutonomousLimitIsUsable
  <2>1. Fires("daily_limit_exceeded", act, ctx, cfg)
    BY FirstMatchWins DEF DecidingRule
  <2>2. OverDailyCap(act, ctx, cfg)
    BY <2>1 DEF Fires
  <2>3. /\ act.amount \in Int /\ cfg.maxAuto \in Int /\ cfg.maxDaily \in Int
        /\ cfg.maxAuto <= cfg.maxDaily
    BY RequestsAssumption DEF Answered, ValidConfig
  <2> QED
    BY <2>2, <2>3 DEF OverDailyCap
<1> QED
  BY <1>1, AnswersAreEvaluations, PTL
=============================================================================
