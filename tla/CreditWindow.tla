---------------------------- MODULE CreditWindow ----------------------------
(***************************************************************************)
(* What every windowed benchmark loop promises: a request starts only while *)
(* fewer than Window are outstanding, and only an outstanding one finishes. *)
(***************************************************************************)
EXTENDS Naturals

CONSTANT Window

VARIABLE outstanding

Init == outstanding = 0

Start == outstanding < Window /\ outstanding' = outstanding + 1

Finish == outstanding > 0 /\ outstanding' = outstanding - 1

Spec == Init /\ [][Start \/ Finish]_outstanding
=============================================================================
