---------------------------- MODULE PolicyProofs ----------------------------
(***************************************************************************)
(* What a decision of the policy engine implies, for every action, context *)
(* and configuration.                                                      *)
(***************************************************************************)
EXTENDS Policy, TLAPS

(* A set of rule numbers that holds the last one has a first one.          *)
LEMMA SomeRuleIsFirst ==
  ASSUME NEW S, S \subseteq 1..LastRule, LastRule \in S
  PROVE  \E i \in S : \A j \in 1..(i - 1) : j \notin S
<1> SUFFICES ASSUME \A i \in S : \E j \in 1..(i - 1) : j \in S
             PROVE  FALSE
  OBVIOUS
<1>1. 1 \notin S /\ 2 \notin S /\ 3 \notin S /\ 4 \notin S
  <2>1. 1 \notin S  OBVIOUS
  <2>2. 2 \notin S  BY <2>1
  <2>3. 3 \notin S  BY <2>1, <2>2
  <2>4. 4 \notin S  BY <2>1, <2>2, <2>3
  <2> QED  BY <2>1, <2>2, <2>3, <2>4
<1>2. 5 \notin S /\ 6 \notin S /\ 7 \notin S /\ 8 \notin S
  <2>1. 5 \notin S  BY <1>1
  <2>2. 6 \notin S  BY <1>1, <2>1
  <2>3. 7 \notin S  BY <1>1, <2>1, <2>2
  <2>4. 8 \notin S  BY <1>1, <2>1, <2>2, <2>3
  <2> QED  BY <2>1, <2>2, <2>3, <2>4
<1>3. 9 \notin S /\ 10 \notin S /\ 11 \notin S /\ 12 \notin S
  <2>1. 9 \notin S   BY <1>1, <1>2
  <2>2. 10 \notin S  BY <1>1, <1>2, <2>1
  <2>3. 11 \notin S  BY <1>1, <1>2, <2>1, <2>2
  <2>4. 12 \notin S  BY <1>1, <1>2, <2>1, <2>2, <2>3
  <2> QED  BY <2>1, <2>2, <2>3, <2>4
<1> QED  BY <1>1, <1>2, <1>3 DEF LastRule

(* The deciding rule fires and no earlier rule does ("first match wins").  *)
LEMMA FirstMatchWins ==
  ASSUME NEW act, NEW ctx, NEW cfg
  PROVE  LET f == FirstMatch(act, ctx, cfg) IN
         /\ f \in 1..LastRule
         /\ Fires(RuleOrder[f], act, ctx, cfg)
         /\ \A j \in 1..(f - 1) : ~Fires(RuleOrder[j], act, ctx, cfg)
<1> DEFINE Fired == {i \in 1..LastRule : Fires(RuleOrder[i], act, ctx, cfg)}
           First(i) == /\ Fires(RuleOrder[i], act, ctx, cfg)
                       /\ \A j \in 1..(i - 1) : ~Fires(RuleOrder[j], act, ctx, cfg)
<1>1. LastRule \in Fired
  <2>1. RuleOrder[LastRule] = "within_policy"
    BY DEF RuleOrder, LastRule
  <2>2. Fires("within_policy", act, ctx, cfg)
    BY DEF Fires
  <2>3. LastRule \in 1..LastRule
    BY DEF LastRule
  <2> QED
    BY <2>1, <2>2, <2>3
<1>2. Fired \subseteq 1..LastRule
  OBVIOUS
<1>3. PICK i \in Fired : \A j \in 1..(i - 1) : j \notin Fired
  <2> HIDE DEF Fired
  <2> QED  BY <1>1, <1>2, SomeRuleIsFirst
<1>4. i \in 1..LastRule /\ First(i)
  <2>1. \A j \in 1..(i - 1) : j \in 1..LastRule
    BY <1>3 DEF LastRule
  <2> QED
    BY <1>3, <2>1
<1>5. FirstMatch(act, ctx, cfg) = CHOOSE n \in 1..LastRule : First(n)
  BY DEF FirstMatch
<1> HIDE DEF First
<1>6. /\ FirstMatch(act, ctx, cfg) \in 1..LastRule
      /\ First(FirstMatch(act, ctx, cfg))
  BY <1>4, <1>5
<1> QED
  BY <1>6 DEF First

(* An autonomous permit passed every rule of the engine: it is fresh,      *)
(* neither opted out nor paid, and within retries, cooldown, daily cap and *)
(* autonomous limit.                                                       *)
THEOREM PermitPassesEveryRule ==
  ASSUME NEW act, NEW ctx, NEW cfg, Evaluate(act, ctx, cfg) = "AUTO_APPROVED"
  PROVE  \A i \in 1..12 : ~Fires(RuleOrder[i], act, ctx, cfg)
<1> DEFINE f == FirstMatch(act, ctx, cfg)
<1>1. /\ f \in 1..LastRule
      /\ \A j \in 1..(f - 1) : ~Fires(RuleOrder[j], act, ctx, cfg)
  BY FirstMatchWins
<1>2. RuleOrder[f] = "within_policy"
  BY DEF Evaluate, DecidingRule, DecisionOf
<1> HIDE DEF f
<1>3. f = LastRule
  BY <1>1, <1>2 DEF RuleOrder, LastRule
<1> QED
  BY <1>1, <1>3 DEF LastRule

(* A human is asked only about an action that passed every hard block:     *)
(* nobody can approve an opted-out customer or a paid payment.             *)
THEOREM EscalationPassesHardBlocks ==
  ASSUME NEW act, NEW ctx, NEW cfg, Evaluate(act, ctx, cfg) = "REQUIRES_APPROVAL"
  PROVE  /\ \A i \in 1..11 : ~Fires(RuleOrder[i], act, ctx, cfg)
         /\ OverAutoLimit(act, ctx, cfg)
<1> DEFINE f == FirstMatch(act, ctx, cfg)
<1>1. /\ f \in 1..LastRule
      /\ Fires(RuleOrder[f], act, ctx, cfg)
      /\ \A j \in 1..(f - 1) : ~Fires(RuleOrder[j], act, ctx, cfg)
  BY FirstMatchWins
<1>2. RuleOrder[f] = "above_auto_threshold"
  BY DEF Evaluate, DecidingRule, DecisionOf
<1>3. OverAutoLimit(act, ctx, cfg)
  BY <1>1, <1>2 DEF Fires
<1> HIDE DEF f
<1>4. f = 12
  BY <1>1, <1>2 DEF RuleOrder, LastRule
<1> QED
  BY <1>1, <1>3, <1>4 DEF LastRule

(* No autonomous permit exceeds the autonomous limit or, with what the day *)
(* has already committed, the daily cap.                                   *)
THEOREM PermitIsWithinLimits ==
  ASSUME NEW act, NEW ctx, NEW cfg, Evaluate(act, ctx, cfg) = "AUTO_APPROVED"
  PROVE  ~OverAutoLimit(act, ctx, cfg) /\ ~OverDailyCap(act, ctx, cfg)
<1>1. RuleOrder[11] = "daily_limit_exceeded" /\ RuleOrder[12] = "above_auto_threshold"
  BY DEF RuleOrder
<1>2. /\ ~Fires("daily_limit_exceeded", act, ctx, cfg)
      /\ ~Fires("above_auto_threshold", act, ctx, cfg)
  BY <1>1, PermitPassesEveryRule
<1> QED
  BY <1>2 DEF Fires

(* Evaluation always returns one of the three decisions.                   *)
LEMMA EvaluateIsADecision ==
  ASSUME NEW act, NEW ctx, NEW cfg
  PROVE  Evaluate(act, ctx, cfg) \in Decisions
BY DEF Evaluate, DecisionOf, Decisions
=============================================================================
