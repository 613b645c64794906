------------------------------- MODULE Policy -------------------------------
(***************************************************************************)
(* The policy engine, backend/policy/engine.py: a pure function from a     *)
(* proposed action, the facts read from the database and the merchant's    *)
(* configuration to one of three decisions, with the rule that made it.    *)
(* The rules are tried in a fixed order and the first that fires wins.     *)
(*                                                                         *)
(* Amounts are integers in the currency's minor unit, instants and         *)
(* durations are integers in one time unit.                                *)
(*                                                                         *)
(* Operators named Mutant... are deliberately wrong variants that show     *)
(* which property notices the mistake; nothing else refers to them.        *)
(***************************************************************************)
EXTENDS Integers

CONSTANTS
  Never,          \* the missing timestamp (last_attempt_at is None)
  NotAnInteger    \* any amount that is not a Python int

Decisions == {"AUTO_APPROVED", "REQUIRES_APPROVAL", "BLOCKED"}

PaymentStatuses == {"created", "authorized", "captured", "failed", "refunded"}

RecoverableStatuses == {"failed"}

FinancialActions == {"CREATE_PAYMENT_LINK"}

ActionTypes == FinancialActions \cup {"SEND_RECOVERY_NOTIFICATION"}

IsFinancial(act) == act.type \in FinancialActions

-----------------------------------------------------------------------------
(* The conditions of the individual rules.                                 *)

InvalidAmount(act) ==
  IsFinancial(act) /\ (act.amount = NotAnInteger \/ act.amount <= 0)

Age(act, ctx) == ctx.now - act.proposedAt

AlreadyPaid(ctx, cfg) ==
  cfg.duplicateCheck /\ ctx.paymentStatus = "captured"

NotRecoverable(ctx, cfg) ==
  cfg.duplicateCheck /\ ctx.paymentStatus \notin RecoverableStatuses

\* Allows one attempt too many.
MutantRetriesExhausted(ctx, cfg) == ctx.priorAttempts > cfg.maxRetries

RetriesExhausted(ctx, cfg) == ctx.priorAttempts >= cfg.maxRetries

CoolingDown(ctx, cfg) ==
  ctx.lastAttempt # Never /\ ctx.now - ctx.lastAttempt < cfg.cooldown

OverDailyCap(act, ctx, cfg) ==
  IsFinancial(act) /\ ctx.committed + act.amount > cfg.maxDaily

OverAutoLimit(act, ctx, cfg) == IsFinancial(act) /\ act.amount > cfg.maxAuto

Fires(rule, act, ctx, cfg) ==
  \/ rule = "unknown_action"          /\ act.type \notin ActionTypes
  \/ rule = "missing_identifiers"     /\ ~act.identified
  \/ rule = "invalid_amount"          /\ InvalidAmount(act)
  \/ rule = "action_expired"          /\ Age(act, ctx) > cfg.ttl
  \/ rule = "action_from_future"      /\ Age(act, ctx) < 0
  \/ rule = "customer_opted_out"      /\ cfg.enforceOptOut /\ ctx.optedOut
  \/ rule = "already_paid"            /\ AlreadyPaid(ctx, cfg)
  \/ rule = "payment_not_recoverable" /\ NotRecoverable(ctx, cfg)
  \/ rule = "retry_limit_exceeded"    /\ RetriesExhausted(ctx, cfg)
  \/ rule = "cooldown_active"         /\ CoolingDown(ctx, cfg)
  \/ rule = "daily_limit_exceeded"    /\ OverDailyCap(act, ctx, cfg)
  \/ rule = "above_auto_threshold"    /\ OverAutoLimit(act, ctx, cfg)
  \/ rule = "within_policy"

-----------------------------------------------------------------------------
(* First match wins.                                                       *)

\* The approval threshold is asked before the hard blocks are finished.
MutantRuleOrder ==
  <<"unknown_action", "missing_identifiers", "invalid_amount",
    "action_expired", "action_from_future", "above_auto_threshold",
    "customer_opted_out", "already_paid", "payment_not_recoverable",
    "retry_limit_exceeded", "cooldown_active", "daily_limit_exceeded",
    "within_policy">>

RuleOrder ==
  <<"unknown_action", "missing_identifiers", "invalid_amount",
    "action_expired", "action_from_future", "customer_opted_out",
    "already_paid", "payment_not_recoverable", "retry_limit_exceeded",
    "cooldown_active", "daily_limit_exceeded", "above_auto_threshold",
    "within_policy">>

LastRule == 13

FirstMatch(act, ctx, cfg) ==
  CHOOSE i \in 1..LastRule :
    /\ Fires(RuleOrder[i], act, ctx, cfg)
    /\ \A j \in 1..(i - 1) : ~Fires(RuleOrder[j], act, ctx, cfg)

DecidingRule(act, ctx, cfg) == RuleOrder[FirstMatch(act, ctx, cfg)]

DecisionOf(rule) ==
  IF rule = "within_policy" THEN "AUTO_APPROVED"
  ELSE IF rule = "above_auto_threshold" THEN "REQUIRES_APPROVAL"
  ELSE "BLOCKED"

Evaluate(act, ctx, cfg) == DecisionOf(DecidingRule(act, ctx, cfg))

-----------------------------------------------------------------------------
(* Configuration (policy/merchant.py) and the merchant's business day.     *)

MutantValidConfig(cfg) == TRUE

\* build_policy refuses a configuration whose autonomous limit is above the
\* daily cap; it relates no other two numbers.
ValidConfig(cfg) == cfg.maxAuto <= cfg.maxDaily

DayStart(instant, dayLength) == instant - (instant % dayLength)
=============================================================================
