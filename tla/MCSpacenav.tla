------------------------------ MODULE MCSpacenav ------------------------------
(***************************************************************************)
(* Spacenav with a daemon that reports each of a few events at most once   *)
(* and a consumer that takes them at any moment.  The two histories record *)
(* what the daemon reported and what the consumer received.                *)
(***************************************************************************)
EXTENDS Spacenav, SequencesExt

VARIABLES reported, received

vars == <<deviceVars, reported, received>>

MCMotions == {0, 1, 2}

Init == DeviceInit /\ reported = <<>> /\ received = <<>>

Report(ev) ==
    /\ ~Contains(reported, ev)
    /\ Receive(ev)
    /\ reported' = Append(reported, ev)
    /\ UNCHANGED received

Take ==
    /\ TakeOldest
    /\ received' = Append(received, Head(events))
    /\ UNCHANGED reported

Next ==
    \/ \E ev \in Events : Report(ev)
    \/ Take
    \/ (ReaderStep \/ CloseDone \/ CloseSocket \/ DaemonGoes) /\ UNCHANGED <<reported, received>>

\* The read loop is scheduled; the daemon, Close and the consumer owe nothing.
Spec == Init /\ [][Next]_vars /\ WF_vars(ReaderStep /\ UNCHANGED <<reported, received>>)

----------------------------------------------------------------------------
TypeOK == DeviceTypeOK /\ reported \in Seq(Events) /\ received \in Seq(Events)

\* Where an event stands in the order the daemon reported it.
Place(ev) == CHOOSE i \in 1 .. Len(reported) : reported[i] = ev

\* The consumer sees a subsequence of what the daemon reported: discarding the
\* oldest event under a draining consumer neither reorders nor repeats any
\* (spacenav.go:264-275).
ServedInOrder ==
    LET served == received \o events \o (IF emitting = NoEvent THEN <<>> ELSE <<emitting>>)
    IN  \A i, j \in 1 .. Len(served) : i < j => Place(served[i]) < Place(served[j])

\* Once emit has returned, the newest event is in the channel or was received:
\* "a consumer watching for a state change (the puck re-centring, say)" always
\* gets the event it wants (spacenav.go:264-267).
NewestIsServed ==
    reported # <<>> /\ emitting = NoEvent => Contains(received \o events, Last(reported))

\* Err tells a deliberate Close from the loss of the daemon whichever of the
\* two the read loop notices first (spacenav.go:86-97, 202-214): a client closed
\* while the daemon is up is never reported lost, and a loss is never silent.
DeathIsClassified ==
    /\ readErr => Dead /\ daemon = "gone"
    /\ Dead /\ ~readErr => closing # "no"

\* Losing the daemon always ends in a closed events channel, however full it is.
LossIsNoticed == daemon = "gone" ~> EventsClosed
=============================================================================
