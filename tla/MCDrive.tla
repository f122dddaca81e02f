-------------------------------- MODULE MCDrive --------------------------------
(* Drive with small constants: a motion that pushes and one that only turns, *)
(* and buttons named for the actions they are mapped to.                     *)
EXTENDS Drive

MCAction == [b \in Buttons |-> b]
=============================================================================
