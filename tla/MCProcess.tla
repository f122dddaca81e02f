------------------------------- MODULE MCProcess -------------------------------
(***************************************************************************)
(* Process with a device that reports one motion over and over.            *)
(***************************************************************************)
EXTENDS Process

MCMotions == {0}
=============================================================================
