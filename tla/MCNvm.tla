------------------------------- MODULE MCNvm -------------------------------
(* Nvm for TLC: tables of parameters. *)
EXTENDS Nvm, TLC

AllInts == [p \in Param |-> "int"]
Mixed == (0 :> "int") @@ (1 :> "int") @@ (2 :> "float")
=============================================================================
