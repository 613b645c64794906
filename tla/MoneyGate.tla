----------------------------- MODULE MoneyGate ------------------------------
(***************************************************************************)
(* What the executor promises, with nothing of how it keeps the promise:   *)
(* consent to a recovery action is settled once and never changes, money   *)
(* is claimed for an action at most once, for the amount that was ruled on *)
(* and only with consent, and a payable link exists only for a claim.      *)
(***************************************************************************)
CONSTANTS Actions, RuledAmount

VARIABLES
  consent,    \* action -> "open", "given" or "withheld"
  claimed,    \* <<action, amount>> pairs budget was claimed for
  moved       \* <<action, amount>> pairs a payable link exists for

vars == <<consent, claimed, moved>>

Init ==
  /\ consent \in [Actions -> {"open", "given", "withheld"}]
  /\ claimed = {}
  /\ moved = {}

Settle(a) ==
  /\ consent[a] = "open"
  /\ \E answer \in {"given", "withheld"} :
       consent' = [consent EXCEPT ![a] = answer]
  /\ UNCHANGED <<claimed, moved>>

Claim(a) ==
  /\ consent[a] = "given"
  /\ \A k \in claimed : k[1] # a
  /\ claimed' = claimed \cup {<<a, RuledAmount[a]>>}
  /\ UNCHANGED <<consent, moved>>

Move(k) ==
  /\ k \in claimed
  /\ moved' = moved \cup {k}
  /\ UNCHANGED <<consent, claimed>>

Next ==
  \/ \E a \in Actions : Settle(a) \/ Claim(a)
  \/ \E k \in claimed : Move(k)

Spec == Init /\ [][Next]_vars
=============================================================================
