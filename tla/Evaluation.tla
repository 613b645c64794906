----------------------------- MODULE Evaluation -----------------------------
(***************************************************************************)
(* One call of the policy engine's evaluate(): an initial state is a       *)
(* request, the single step decides it.  Every property is a statement     *)
(* about one call, or about two calls whose inputs are related.            *)
(***************************************************************************)
EXTENDS Policy

CONSTANTS
  ProposedActions,  \* the actions an agent may propose
  Contexts,         \* the facts the database may hold
  Configs           \* the configurations a merchant may load

\* ProposedAction, RecoveryContext and PolicyConfig, and build_policy's check
\* of a loaded configuration.  An amount need not be an integer: evaluate()
\* asks for its type before it compares it.
ASSUME RequestsAssumption ==
  /\ NotAnInteger \notin Int
  /\ Never \notin Int
  /\ ProposedActions \subseteq
       [type : STRING, identified : BOOLEAN,
        amount : Int \cup {NotAnInteger}, proposedAt : Int]
  /\ Contexts \subseteq
       [paymentStatus : PaymentStatuses, optedOut : BOOLEAN,
        priorAttempts : Int, committed : Int, now : Int,
        lastAttempt : Int \cup {Never}]
  /\ Configs \subseteq
       [maxAuto : Int, maxDaily : Int, maxRetries : Int, cooldown : Int,
        ttl : Int, enforceOptOut : BOOLEAN, duplicateCheck : BOOLEAN]
  /\ \A g \in Configs : ValidConfig(g)

VARIABLES act, ctx, cfg, decision

vars == <<act, ctx, cfg, decision>>

Init ==
  /\ act \in ProposedActions
  /\ ctx \in Contexts
  /\ cfg \in Configs
  /\ decision = "none"

Decide ==
  /\ decision = "none"
  /\ decision' = Evaluate(act, ctx, cfg)
  /\ UNCHANGED <<act, ctx, cfg>>

Next == Decide

Spec == Init /\ [][Next]_vars

-----------------------------------------------------------------------------
\* How far a decision lets the action go.
Freedom == [AUTO_APPROVED |-> 2, REQUIRES_APPROVAL |-> 1, BLOCKED |-> 0]

WellFormed(a) == a.type \in ActionTypes /\ a.identified /\ ~InvalidAmount(a)

Fresh(a, c, g) == a.proposedAt <= c.now /\ c.now <= a.proposedAt + g.ttl

\* What has to be true before a human may be asked at all.
MayBeAsked(a, c, g) ==
  /\ WellFormed(a) /\ Fresh(a, c, g)
  /\ g.enforceOptOut => ~c.optedOut
  /\ g.duplicateCheck => c.paymentStatus = "failed"
  /\ c.priorAttempts < g.maxRetries
  /\ c.lastAttempt = Never \/ c.lastAttempt + g.cooldown <= c.now
  /\ IsFinancial(a) => a.amount <= g.maxDaily - c.committed

\* The same proposal for at least as much money.
AsksForMore(a, b) ==
  /\ b.type = a.type /\ b.identified = a.identified
  /\ b.proposedAt = a.proposedAt
  /\ b.amount # NotAnInteger /\ a.amount <= b.amount

\* The same moment and payment after at least as much has happened.
NoBetter(c, d) ==
  /\ d.now = c.now /\ d.paymentStatus = c.paymentStatus
  /\ c.optedOut => d.optedOut
  /\ c.priorAttempts <= d.priorAttempts
  /\ c.committed <= d.committed
  /\ c.lastAttempt # Never =>
       d.lastAttempt # Never /\ c.lastAttempt <= d.lastAttempt

\* A configuration none of whose limits or switches is more permissive.
NoLooser(g, h) ==
  /\ h.maxAuto <= g.maxAuto /\ h.maxDaily <= g.maxDaily
  /\ h.maxRetries <= g.maxRetries /\ h.ttl <= g.ttl
  /\ g.cooldown <= h.cooldown
  /\ g.enforceOptOut => h.enforceOptOut
  /\ g.duplicateCheck => h.duplicateCheck

\* The ordered rule list decides exactly as the written policy: an action
\* that fails any hard condition is blocked and never escalated to a human,
\* one that passes them all goes to a human exactly when it moves more than
\* the autonomous limit (engine.evaluate, "blocks before approvals").
DecidesAsWritten ==
  decision # "none" =>
    decision = IF ~MayBeAsked(act, ctx, cfg) THEN "BLOCKED"
               ELSE IF IsFinancial(act) /\ act.amount > cfg.maxAuto
                    THEN "REQUIRES_APPROVAL"
                    ELSE "AUTO_APPROVED"

\* No evaluation grants more freedom on a larger positive amount, a worse
\* history or a configuration that is nowhere looser than it grants now
\* (engine.evaluate): spending more, trying again, opting out, or tightening
\* a limit between planning and execution, never turns a refusal into a permit.
StricterNeverFreer ==
  decision # "none" /\ act.amount # NotAnInteger /\ act.amount > 0 =>
    \A b \in {a \in ProposedActions : AsksForMore(act, a)},
       d \in {c \in Contexts : NoBetter(ctx, c)},
       h \in {g \in Configs : NoLooser(cfg, g)} :
      Freedom[Evaluate(b, d, h)] <= Freedom[decision]

\* A loaded configuration can always spend its autonomous limit once: an
\* action within that limit is never refused for the daily cap on a day on
\* which nothing is committed (merchant.build_policy's last check).
AutonomousLimitIsUsable ==
  ctx.committed = 0 /\ act.amount # NotAnInteger /\ act.amount <= cfg.maxAuto
    => DecidingRule(act, ctx, cfg) # "daily_limit_exceeded"
=============================================================================
