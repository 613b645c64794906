----------------------------- MODULE MCPlanning -----------------------------
(***************************************************************************)
(* A small merchant: two failed payments, two incidents that both select   *)
(* them, and a daily cap that holds one of the two only.                   *)
(***************************************************************************)
EXTENDS Planning, TLC

TwoPayments == 1 :> 2 @@ 2 :> 2

Limits(auto, retries, cooldown) ==
  [maxAuto |-> auto, maxDaily |-> 3, maxRetries |-> retries, cooldown |-> cooldown,
   ttl |-> 1, enforceOptOut |-> TRUE, duplicateCheck |-> TRUE]

\* Links go out at once but only one per payment, or every link needs a human
\* and a second one has to wait.
StrictAndPatient == {Limits(2, 1, 0), Limits(1, 2, 1)}

LinkToAll == [worth |-> TRUE, type |-> "CREATE_PAYMENT_LINK", targets |-> Payments]

\* Recover by links, decline, or name an unknown action.
AllAnswers ==
  {LinkToAll, [LinkToAll EXCEPT !.worth = FALSE], [LinkToAll EXCEPT !.type = "unknown"]}

\* Nothing tells the incidents apart.
IncidentSymmetry == Permutations(Incidents)
=============================================================================
