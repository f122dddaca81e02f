---------------------------- MODULE Spacenav_proofs ----------------------------
(***************************************************************************)
(* What the device client keeps by itself, whoever consumes its events and *)
(* whatever else the program does: lemmas about every step of Spacenav,    *)
(* for the proofs of the modules that extend it.                           *)
(***************************************************************************)
EXTENDS Spacenav, TLAPS

\* A step of the client, of spacenavd, of Close or of a consumer.
DeviceAction ==
    \/ \E ev \in Events : Receive(ev)
    \/ ReaderStep \/ CloseDone \/ CloseSocket \/ DaemonGoes \/ TakeOldest

LEMMA EventsTyped ==
    /\ NoEvent \notin Events
    /\ \A ev \in Events : ev.kind = "motion" => ev.motion \in Motions
    /\ \A m \in Motions : MotionEvent(m) \in Events
    /\ \A b \in Buttons, pressed \in BOOLEAN : ButtonEvent(b, pressed) \in Events
  BY DEF Events, NoEvent, MotionEvent, ButtonEvent

LEMMA DeviceTypedInit == DeviceInit => DeviceTypeOK
<1> SUFFICES ASSUME DeviceInit PROVE DeviceTypeOK
  OBVIOUS
<1>1. events \in Seq(Events) /\ Len(events) <= QueueCap
  BY SpacenavAssumption DEF DeviceInit
<1>2. emitting = NoEvent /\ reader = "read"
  BY DEF DeviceInit
<1>3. QED
  BY SpacenavAssumption, <1>1, <1>2 DEF DeviceInit, DeviceTypeOK

LEMMA DeviceTypedNext == DeviceTypeOK /\ DeviceAction => DeviceTypeOK'
<1> SUFFICES ASSUME DeviceTypeOK, DeviceAction PROVE DeviceTypeOK'
  OBVIOUS
<1> USE SpacenavAssumption, EventsTyped DEF DeviceTypeOK
<1>a. Len(events) \in Nat
  OBVIOUS
<1>1. ASSUME NEW ev \in Events, Receive(ev) PROVE DeviceTypeOK'
  <2>1. latest' \in Motions
    BY <1>1 DEF Receive, Latch
  <2>2. HasRoom => Append(events, ev) \in Seq(Events) /\ Len(Append(events, ev)) <= QueueCap
    BY <1>a DEF HasRoom
  <2>3. QED BY <1>1, <2>1, <2>2 DEF Receive
<1>2. CASE ReaderStep
  <2>1. CASE DiscardOldest
    <3>1. WithoutOldest \in Seq(Events) /\ Len(WithoutOldest) <= QueueCap
      BY <1>a DEF WithoutOldest
    <3>2. QED BY <2>1, <3>1 DEF DiscardOldest
  <2>2. CASE SendAgain
    <3>1. emitting \in Events
      BY <2>2 DEF SendAgain
    <3>2. HasRoom => /\ Append(events, emitting) \in Seq(Events)
                     /\ Len(Append(events, emitting)) <= QueueCap
      BY <1>a, <3>1 DEF HasRoom
    <3>3. QED BY <2>2, <3>2 DEF SendAgain
  <2>3. CASE SeeClose \/ ReadError \/ MarkDead \/ CloseEvents
    BY <2>3 DEF SeeClose, ReadError, MarkDead, CloseEvents, Blamed
  <2>4. QED BY <1>2, <2>1, <2>2, <2>3 DEF ReaderStep
<1>3. CASE CloseDone \/ CloseSocket \/ DaemonGoes
  BY <1>3 DEF CloseDone, CloseSocket, DaemonGoes
<1>4. CASE TakeOldest
  <2>1. Tail(events) \in Seq(Events) /\ Len(Tail(events)) <= QueueCap
    BY <1>4, <1>a DEF TakeOldest
  <2>2. QED BY <1>4, <2>1 DEF TakeOldest
<1>5. QED
  BY <1>1, <1>2, <1>3, <1>4 DEF DeviceAction

----------------------------------------------------------------------------
\* Why the read loop ended.  A read that failed had a cause, which readErr names
\* once the client is dead; the cause does not go away.
Explained ==
    /\ reader = "failed" => daemon = "gone" \/ closing = "closed"
    /\ readErr => Dead /\ daemon = "gone"
    /\ Dead /\ ~readErr => closing # "no"

LEMMA ExplainedInit == DeviceInit => Explained
  BY DEF DeviceInit, Explained, Dead

LEMMA ExplainedNext == DeviceTypeOK /\ Explained /\ DeviceAction => Explained'
<1> SUFFICES ASSUME DeviceTypeOK, Explained, DeviceAction PROVE Explained'
  OBVIOUS
<1> USE DEF DeviceTypeOK, Explained, Dead
<1>1. ASSUME NEW ev \in Events, Receive(ev) PROVE Explained'
  BY <1>1 DEF Receive
<1>2. CASE ReaderStep
  <2>1. CASE DiscardOldest BY <2>1 DEF DiscardOldest
  <2>2. CASE SendAgain     BY <2>2 DEF SendAgain
  <2>3. CASE SeeClose      BY <2>3 DEF SeeClose
  <2>4. CASE ReadError     BY <2>4 DEF ReadError
  <2>5. CASE MarkDead
    <3>1. reader' = "dying" /\ UNCHANGED <<daemon, closing>>
      BY <2>5 DEF MarkDead
    <3>2. readErr' => daemon = "gone"
      BY <2>5 DEF MarkDead, Blamed
    <3>3. ~readErr' => closing # "no"
      BY <2>5 DEF MarkDead, Blamed
    <3>4. QED BY <3>1, <3>2, <3>3
  <2>6. CASE CloseEvents   BY <2>6 DEF CloseEvents
  <2>7. QED BY <1>2, <2>1, <2>2, <2>3, <2>4, <2>5, <2>6 DEF ReaderStep
<1>3. CASE CloseDone \/ CloseSocket \/ DaemonGoes \/ TakeOldest
  BY <1>3 DEF CloseDone, CloseSocket, DaemonGoes, TakeOldest
<1>4. QED
  BY <1>1, <1>2, <1>3 DEF DeviceAction

\* The loss of the daemon, once reported, stays reported.
LEMMA LossIsFinal == Explained /\ readErr /\ DeviceAction => readErr'
  BY DEF Explained, Dead, DeviceAction, Receive, ReaderStep, DiscardOldest, SendAgain,
         SeeClose, ReadError, MarkDead, CloseEvents, CloseDone, CloseSocket, DaemonGoes,
         TakeOldest

----------------------------------------------------------------------------
\* The event that emit holds always finds room once the oldest is discarded: only the
\* read loop fills the channel.
Room == reader = "room" => HasRoom

LEMMA RoomInit == DeviceInit => Room
  BY DEF DeviceInit, Room

LEMMA RoomNext == DeviceTypeOK /\ Room /\ DeviceAction => Room'
<1> SUFFICES ASSUME DeviceTypeOK, Room, DeviceAction PROVE Room'
  OBVIOUS
<1> USE SpacenavAssumption DEF Room, HasRoom
<1>a. events \in Seq(Events) /\ Len(events) \in Nat /\ Len(events) <= QueueCap
  BY DEF DeviceTypeOK
<1>1. CASE DiscardOldest
  BY <1>1, <1>a DEF DiscardOldest, WithoutOldest
<1>2. CASE TakeOldest
  BY <1>2, <1>a DEF TakeOldest
<1>3. CASE \/ \E ev \in Events : Receive(ev)
           \/ SendAgain \/ SeeClose \/ ReadError \/ MarkDead \/ CloseEvents
  BY <1>3 DEF Receive, SendAgain, SeeClose, ReadError, MarkDead, CloseEvents
<1>4. CASE CloseDone \/ CloseSocket \/ DaemonGoes
  BY <1>4 DEF CloseDone, CloseSocket, DaemonGoes
<1>5. QED
  BY <1>1, <1>2, <1>3, <1>4 DEF DeviceAction, ReaderStep

\* An event on its way to the consumer.
UnderWay(x) == emitting = x \/ \E i \in 1 .. Len(events) : events[i] = x

\* The elements of a sequence that grows at one end and shrinks at the other.
LEMMA AppendIndexes ==
  ASSUME NEW S, NEW s \in Seq(S), NEW x
  PROVE  /\ Len(Append(s, x)) = Len(s) + 1 /\ Len(s) \in Nat
         /\ \A i \in 1 .. Len(s) : Append(s, x)[i] = s[i]
         /\ Append(s, x)[Len(s) + 1] = x
         /\ \A i \in 1 .. Len(Append(s, x)) :
              \/ i \in 1 .. Len(s) /\ Append(s, x)[i] = s[i]
              \/ i = Len(s) + 1 /\ Append(s, x)[i] = x
<1> DEFINE U == S \cup {x}
<1>1. s \in Seq(U) /\ x \in U /\ Len(s) \in Nat
  OBVIOUS
<1>2. QED
  BY <1>1

LEMMA TailIndexes ==
  ASSUME NEW S, NEW s \in Seq(S), s # <<>>
  PROVE  /\ 1 \in 1 .. Len(s) /\ Head(s) = s[1] /\ Len(Tail(s)) = Len(s) - 1
         /\ \A i \in 1 .. Len(Tail(s)) :
              Tail(s)[i] = s[i + 1] /\ i + 1 \in 1 .. Len(s) /\ 1 < i + 1
  OBVIOUS

LEMMA ReceiveUnderWay ==
  ASSUME DeviceTypeOK, NEW ev \in Events, Receive(ev), NEW x \in Events
  PROVE  UnderWay(x)' <=> UnderWay(x) \/ x = ev
<1>1. emitting = NoEvent /\ x # NoEvent /\ events \in Seq(Events) /\ Len(events) \in Nat
  BY EventsTyped DEF DeviceTypeOK, Receive
<1>2. CASE HasRoom
  <2>1. events' = Append(events, ev) /\ emitting' = emitting
    BY <1>2 DEF Receive
  <2>2. /\ Len(events') = Len(events) + 1 /\ events'[Len(events) + 1] = ev
        /\ \A i \in 1 .. Len(events) : events'[i] = events[i]
    BY <1>1, <2>1, AppendIndexes
  <2>3. QED BY <1>1, <2>1, <2>2 DEF UnderWay
<1>3. CASE ~HasRoom
  BY <1>1, <1>3 DEF Receive, UnderWay
<1>4. QED
  BY <1>2, <1>3

LEMMA SendAgainUnderWay ==
  ASSUME DeviceTypeOK, Room, SendAgain, NEW x \in Events
  PROVE  UnderWay(x)' <=> UnderWay(x)
<1>1. /\ events' = Append(events, emitting) /\ emitting' = NoEvent /\ x # NoEvent
      /\ events \in Seq(Events) /\ Len(events) \in Nat
  BY EventsTyped DEF DeviceTypeOK, SendAgain, Room
<1>2. /\ Len(events') = Len(events) + 1 /\ events'[Len(events) + 1] = emitting
      /\ \A i \in 1 .. Len(events) : events'[i] = events[i]
  BY <1>1, AppendIndexes
<1>3. QED
  BY <1>1, <1>2 DEF UnderWay

LEMMA TakeUnderWay ==
  ASSUME DeviceTypeOK, TakeOldest, NEW x
  PROVE  UnderWay(x) <=> UnderWay(x)' \/ x = Head(events)
<1>1. /\ events # <<>> /\ events' = Tail(events) /\ emitting' = emitting
      /\ events \in Seq(Events) /\ Len(events) \in Nat
  BY DEF DeviceTypeOK, TakeOldest
<1>2. /\ 1 \in 1 .. Len(events) /\ Head(events) = events[1] /\ Len(events') = Len(events) - 1
      /\ \A i \in 1 .. Len(events') : events'[i] = events[i + 1] /\ i + 1 \in 1 .. Len(events)
  BY <1>1, TailIndexes
<1>3. \A i \in 1 .. Len(events) : i = 1 \/ (i - 1 \in 1 .. Len(events') /\ events'[i - 1] = events[i])
  <2>1. \A i \in 1 .. Len(events) : i # 1 => i - 1 \in 1 .. Len(events') /\ (i - 1) + 1 = i
    BY <1>1, <1>2
  <2>2. QED BY <1>2, <2>1
<1>4. QED
  BY <1>1, <1>2, <1>3 DEF UnderWay
=============================================================================
