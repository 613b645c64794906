------------------------------ MODULE MCPolicy ------------------------------
(***************************************************************************)
(* Every decision of the policy engine over small inputs.                  *)
(***************************************************************************)
EXTENDS Evaluation

SmallActions ==
  [type : ActionTypes \cup {"REFUND"}, identified : BOOLEAN,
   amount : {NotAnInteger, 0, 1, 2, 4}, proposedAt : {2}]

SmallContexts ==
  [paymentStatus : {"captured", "failed", "refunded"}, optedOut : BOOLEAN,
   priorAttempts : 0..2, committed : {0, 3}, now : {1, 2, 4},
   lastAttempt : {Never, 1}]

SmallConfigs ==
  {g \in [maxAuto : {1, 3, 6}, maxDaily : {3, 5}, maxRetries : {1, 2},
          cooldown : {2}, ttl : {1}, enforceOptOut : BOOLEAN,
          duplicateCheck : BOOLEAN] : ValidConfig(g)}
=============================================================================
