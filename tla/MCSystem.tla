------------------------------ MODULE MCSystem ------------------------------
(* A small instance of System: what is typed after the commands.           *)
EXTENDS System

TypedNumbers == {-1, 1}

=============================================================================
