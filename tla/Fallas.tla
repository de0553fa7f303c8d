------------------------------- MODULE Fallas -------------------------------
(***************************************************************************)
(* What goes wrong in the services of the backend: a process that ends, or *)
(* Mongo or Redis that does not answer.  Only so often.                    *)
(***************************************************************************)
EXTENDS Naturals

CONSTANT MaxFallas  \* bound

ASSUME FallasAssumption == MaxFallas \in Nat

VARIABLE fallas

Falla == fallas < MaxFallas /\ fallas' = fallas + 1

=============================================================================
