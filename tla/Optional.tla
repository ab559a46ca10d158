------------------------------ MODULE Optional ------------------------------
(***************************************************************************)
(* What stands for the lack of a value: a null pointer, an empty           *)
(* std::optional, hardware that has not been set up.                       *)
(***************************************************************************)
EXTENDS Integers

CONSTANT None

ASSUME NoneAssumption == None \notin Int
=============================================================================
