----------------------------- MODULE MCOutcome ------------------------------
(***************************************************************************)
(* Small instances of the outcome engine.                                  *)
(***************************************************************************)
EXTENDS Outcome

NoReplay == {}

Paid(e) == [type |-> "payment_link.paid", execution |-> e]

\* A payment that was recorded once, and an id that belongs to reconciliation.
PaidAndPulled == {Paid(1), PulledId(1)}
=============================================================================
