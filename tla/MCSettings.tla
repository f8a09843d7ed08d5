---------------------------- MODULE MCSettings ------------------------------
(* Settings by itself, on two preferences with two values.                 *)
EXTENDS Settings

DefaultPreferences == [f \in Fields |-> "a"]
=============================================================================
