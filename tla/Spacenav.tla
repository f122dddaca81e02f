------------------------------- MODULE Spacenav -------------------------------
(***************************************************************************)
(* spacenav.Client (internal/spacenav/spacenav.go): the read loop that     *)
(* turns spacenavd's frames into a latch and a bounded channel of events,  *)
(* the consumer that drains the channel at any moment, Close, and the      *)
(* daemon going away.                                                      *)
(*                                                                         *)
(* emit is not atomic: each of its three selects is a step, and a consumer *)
(* may take an event between any two of them.  So is the end of the read   *)
(* loop: it fails, asks whether Close was called, marks the client dead    *)
(* and closes the channel, in that order.                                  *)
(***************************************************************************)
EXTENDS Naturals, Sequences

CONSTANTS
    Motions,    \* deflections the device reports
    Rest,       \* the zero Motion the latch starts with
    Buttons,    \* button ids
    QueueCap    \* capacity of the events channel; 128 in Dial

ASSUME SpacenavAssumption == QueueCap \in Nat \ {0} /\ Rest \in Motions

MotionEvent(m) == [kind |-> "motion", motion |-> m]
ButtonEvent(b, pressed) == [kind |-> "button", id |-> b, pressed |-> pressed]
Events ==
    [kind : {"motion"}, motion : Motions]
        \cup [kind : {"button"}, id : Buttons, pressed : BOOLEAN]
NoEvent == [kind |-> "none"]

VARIABLES
    latest,   \* Client.latest, the latch State returns
    events,   \* Client.events, oldest first
    reader,   \* the read loop: "read", "full", "room", "failed", "dying" or "stopped"
    emitting, \* the event emit holds while the channel is full
    daemon,   \* spacenavd: "up" or "gone"
    closing,  \* Close: "no", "done" (c.done closed) or "closed" (socket closed)
    readErr   \* Client.readErr # nil

deviceVars == <<latest, events, reader, emitting, daemon, closing, readErr>>

DeviceInit ==
    /\ latest = Rest /\ events = <<>>
    /\ reader = "read" /\ emitting = NoEvent
    /\ daemon = "up" /\ closing = "no" /\ readErr = FALSE

\* The dead channel is closed by markDead, the events channel when readLoop returns.
Dead == reader \in {"dying", "stopped"}
EventsClosed == reader = "stopped"

----------------------------------------------------------------------------
(* readLoop and emit, spacenav.go:190-286. *)

\* Every motion overwrites the latch, whatever becomes of the event.
Latch(ev) == latest' = IF ev.kind = "motion" THEN ev.motion ELSE latest

HasRoomAtCap == Len(events) <= QueueCap   \* variant: off by one
HasRoom == Len(events) < QueueCap

\* A frame is read and decoded; emit latches it and tries to send it.
Receive(ev) ==
    /\ reader = "read"
    /\ daemon = "up" /\ closing # "closed"
    /\ Latch(ev)
    /\ IF HasRoom
         THEN events' = Append(events, ev) /\ UNCHANGED <<reader, emitting>>
         ELSE reader' = "full" /\ emitting' = ev /\ UNCHANGED events
    /\ UNCHANGED <<daemon, closing, readErr>>

\* variants: keep the backlog and drop the event that does not fit; requeue the oldest
KeepBacklog == events
RequeueOldest == IF events = <<>> THEN events ELSE Append(Tail(events), Head(events))

\* The oldest event, be it a button, makes room; the consumer may have emptied
\* the channel meanwhile.
WithoutOldest == IF events = <<>> THEN events ELSE Tail(events)

DiscardOldest ==
    /\ reader = "full"
    /\ events' = WithoutOldest
    /\ reader' = "room"
    /\ UNCHANGED <<latest, emitting, daemon, closing, readErr>>

SendAgain ==
    /\ reader = "room"
    /\ events' = IF HasRoom THEN Append(events, emitting) ELSE events
    /\ reader' = "read"
    /\ emitting' = NoEvent
    /\ UNCHANGED <<latest, daemon, closing, readErr>>

\* The check at the top of the loop sees Close before the next read.
SeeClose ==
    /\ reader = "read"
    /\ closing # "no"
    /\ reader' = "dying"
    /\ UNCHANGED <<latest, events, emitting, daemon, closing, readErr>>

\* io.ReadFull fails: end of file, or the socket closed under it.
ReadError ==
    /\ reader = "read"
    /\ daemon = "gone" \/ closing = "closed"
    /\ reader' = "failed"
    /\ UNCHANGED <<latest, events, emitting, daemon, closing, readErr>>

\* variant: any failed read is reported as the loss of the daemon
BlamedAlways == TRUE

\* The select on c.done after a failed read; net.ErrClosed only follows Close.
Blamed == closing = "no"

MarkDead ==
    /\ reader = "failed"
    /\ readErr' = Blamed
    /\ reader' = "dying"
    /\ UNCHANGED <<latest, events, emitting, daemon, closing>>

\* variant: the channel is closed only once it is drained
CloseEventsDrained ==
    /\ reader = "dying"
    /\ events = <<>>
    /\ reader' = "stopped"
    /\ UNCHANGED <<latest, events, emitting, daemon, closing, readErr>>

\* defer close(c.events)
CloseEvents ==
    /\ reader = "dying"
    /\ reader' = "stopped"
    /\ UNCHANGED <<latest, events, emitting, daemon, closing, readErr>>

ReaderStep == DiscardOldest \/ SendAgain \/ SeeClose \/ ReadError \/ MarkDead \/ CloseEvents

----------------------------------------------------------------------------
(* Close, the daemon and the consumer. *)

CloseDone ==
    /\ closing = "no"
    /\ closing' = "done"
    /\ UNCHANGED <<latest, events, reader, emitting, daemon, readErr>>

CloseSocket ==
    /\ closing = "done"
    /\ closing' = "closed"
    /\ UNCHANGED <<latest, events, reader, emitting, daemon, readErr>>

\* spacenavd exits or drops the connection.
DaemonGoes ==
    /\ daemon = "up"
    /\ daemon' = "gone"
    /\ UNCHANGED <<latest, events, reader, emitting, closing, readErr>>

\* A receive from Events; a closed channel still yields what it holds.
TakeOldest ==
    /\ events # <<>>
    /\ events' = Tail(events)
    /\ UNCHANGED <<latest, reader, emitting, daemon, closing, readErr>>

DeviceTypeOK ==
    /\ latest \in Motions
    /\ events \in Seq(Events) /\ Len(events) <= QueueCap
    /\ reader \in {"read", "full", "room", "failed", "dying", "stopped"}
    /\ emitting \in Events \cup {NoEvent}
    /\ reader \in {"full", "room"} <=> emitting # NoEvent
    /\ daemon \in {"up", "gone"} /\ closing \in {"no", "done", "closed"}
    /\ readErr \in BOOLEAN
=============================================================================
