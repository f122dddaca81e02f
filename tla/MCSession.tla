------------------------------ MODULE MCSession ------------------------------
(* WampSession with a drive loop (drive), its deferred stopMoving (stop) and *)
(* a page that may answer one call twice.                                    *)
EXTENDS WampSession

MCAnswers == {"result", "error"}
=============================================================================
