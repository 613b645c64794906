----------------------------- MODULE MCExecutor -----------------------------
(***************************************************************************)
(* Small instances of the executor.  Two actions compete for one daily cap *)
(* that holds either of them and not both; the second is above the         *)
(* autonomous limit, so a human has to approve it.                         *)
(***************************************************************************)
EXTENDS Executor, TLC

CONSTANTS a1, a2

WorkerSymmetry == Permutations(Workers)

AllLinks == [a \in Actions |-> "CREATE_PAYMENT_LINK"]

OneSmallOneLarge == a1 :> 2 @@ a2 :> 4

AllSmall == [a \in Actions |-> 2]

BasePolicy ==
  [maxAuto |-> 3, maxDaily |-> 5, maxRetries |-> 2, cooldown |-> 1, ttl |-> 1,
   enforceOptOut |-> TRUE, duplicateCheck |-> TRUE, settleable |-> TRUE]

OnePolicy == {BasePolicy}

\* A day has room for one small amount only.
TightPolicy == {[BasePolicy EXCEPT !.maxDaily = 3]}

\* The operator moves the merchant to a currency the integration cannot
\* settle and lowers the autonomous limit below the small amount.
ChangedPolicy ==
  {BasePolicy, [BasePolicy EXCEPT !.settleable = FALSE, !.maxAuto = 1]}
=============================================================================
