--------------------------- MODULE RevenueLedger ----------------------------
(***************************************************************************)
(* What the headline number promises: the ledger holds at most one entry   *)
(* per recovery, an entry is what the customer really paid or nothing, and *)
(* it is never rewritten.                                                  *)
(***************************************************************************)
CONSTANTS Executions, Amounts, Unrecorded

VARIABLES
  paid,      \* what the customer paid through the link, 0 if nothing
  ledger     \* the amount recorded as recovered, or Unrecorded

vars == <<paid, ledger>>

Init ==
  /\ paid = [e \in Executions |-> 0]
  /\ ledger = [e \in Executions |-> Unrecorded]

Pay(e) ==
  /\ paid[e] = 0
  /\ \E m \in Amounts : paid' = [paid EXCEPT ![e] = m]
  /\ UNCHANGED ledger

Record(e) ==
  /\ ledger[e] = Unrecorded
  /\ \E m \in {0, paid[e]} : ledger' = [ledger EXCEPT ![e] = m]
  /\ UNCHANGED paid

Next == \E e \in Executions : Pay(e) \/ Record(e)

Spec == Init /\ [][Next]_vars
=============================================================================
