--------------------------- MODULE MCSpacenav_proofs ---------------------------
(***************************************************************************)
(* Proofs about the device client and the histories MCSpacenav keeps of    *)
(* it, for any events, any capacity of the channel and any consumer.       *)
(*                                                                         *)
(*   Recorded  types, and the daemon reports no event twice;               *)
(*   Ordered   received, queued and emitting events are reported ones, in  *)
(*             the order of the report, within each and across them;       *)
(*   Fresh     the newest report is never the one that is thrown away.     *)
(***************************************************************************)
EXTENDS MCSpacenav, Spacenav_proofs

NoRepeats == \A i, j \in 1 .. Len(reported) : reported[i] = reported[j] => i = j
Recorded == TypeOK /\ NoRepeats

LEMMA RecordedInit == Init => Recorded
  BY DeviceTypedInit DEF Init, Recorded, TypeOK, NoRepeats

\* Next in terms of the client alone.
LEMMA NextCases ==
  ASSUME [Next]_vars
  PROVE  \/ \E ev \in Events : Report(ev)
         \/ Take
         \/ /\ ReaderStep \/ CloseDone \/ CloseSocket \/ DaemonGoes
            /\ UNCHANGED <<reported, received>>
         \/ UNCHANGED vars
  BY DEF Next

LEMMA StepIsDeviceAction == Next => DeviceAction
  BY DEF Next, Report, Take, DeviceAction

LEMMA RecordedNext == Recorded /\ [Next]_vars => Recorded'
<1> SUFFICES ASSUME Recorded, [Next]_vars PROVE Recorded'
  OBVIOUS
<1> USE DEF Recorded, TypeOK
<1>1. DeviceTypeOK'
  <2>1. CASE Next
    BY <2>1, StepIsDeviceAction, DeviceTypedNext
  <2>2. CASE UNCHANGED vars
    BY <2>2 DEF vars, deviceVars, DeviceTypeOK
  <2>3. QED BY <2>1, <2>2
<1>2. ASSUME NEW ev \in Events, Report(ev)
      PROVE  reported' \in Seq(Events) /\ received' \in Seq(Events) /\ NoRepeats'
  <2>1. reported' = Append(reported, ev) /\ received' = received
    BY <1>2 DEF Report
  <2>2. \A i \in 1 .. Len(reported) : reported[i] # ev
    BY <1>2 DEF Report, Contains
  <2>3. /\ Len(reported') = Len(reported) + 1
        /\ \A i \in 1 .. Len(reported) : reported'[i] = reported[i]
        /\ reported'[Len(reported) + 1] = ev
    BY <2>1
  <2>4. NoRepeats'
    BY <2>2, <2>3 DEF NoRepeats
  <2>5. QED BY <2>1, <2>4
<1>3. ASSUME Take PROVE reported' \in Seq(Events) /\ received' \in Seq(Events) /\ NoRepeats'
  <2>1. events # <<>> /\ events \in Seq(Events)
    BY <1>3 DEF Take, TakeOldest, DeviceTypeOK
  <2>2. Head(events) \in Events
    BY <2>1
  <2>3. QED BY <1>3, <2>2 DEF Take, NoRepeats
<1>4. ASSUME UNCHANGED <<reported, received>>
      PROVE  reported' \in Seq(Events) /\ received' \in Seq(Events) /\ NoRepeats'
  BY <1>4 DEF NoRepeats
<1>5. QED
  BY <1>1, <1>2, <1>3, <1>4, NextCases DEF vars

\* The histories and the client keep their types, for any events and capacity.
THEOREM HistoriesTyped == Spec => []TypeOK
<1>1. Recorded => TypeOK
  BY DEF Recorded
<1>2. QED
  BY <1>1, RecordedInit, RecordedNext, PTL DEF Spec

LEMMA ExplainedAlways == Spec => [](Recorded /\ Explained)
<1>1. Init => Explained
  BY ExplainedInit DEF Init
<1>2. Recorded /\ Explained /\ [Next]_vars => Explained'
  <2>1. UNCHANGED vars /\ Explained => Explained'
    BY DEF vars, deviceVars, Explained, Dead
  <2>2. QED BY <2>1, StepIsDeviceAction, ExplainedNext DEF Recorded, TypeOK
<1>3. QED
  BY <1>1, <1>2, RecordedInit, RecordedNext, PTL DEF Spec

\* Err never blames a deliberate Close, and a loss is never silent, whichever of the
\* two the read loop meets first.
THEOREM LossIsToldFromClose == Spec => []DeathIsClassified
<1>1. Explained => DeathIsClassified
  BY DEF Explained, DeathIsClassified
<1>2. QED
  BY <1>1, ExplainedAlways, PTL

----------------------------------------------------------------------------
(* Order *)

Reports(ev) == \E i \in 1 .. Len(reported) : reported[i] = ev
Before(ev, other) == Place(ev) < Place(other)

LEMMA ChosenIndex ==
  ASSUME NEW s, \A i, j \in 1 .. Len(s) : s[i] = s[j] => i = j, NEW n \in 1 .. Len(s)
  PROVE  (CHOOSE i \in 1 .. Len(s) : s[i] = s[n]) = n
  OBVIOUS

LEMMA PlaceOf ==
  ASSUME Recorded, NEW n \in 1 .. Len(reported)
  PROVE  Place(reported[n]) = n
<1>1. (CHOOSE i \in 1 .. Len(reported) : reported[i] = reported[n]) = n
  BY ChosenIndex DEF Recorded, NoRepeats
<1>2. QED
  BY <1>1, Zenon DEF Place

\* A new report has its place after all others, which keep theirs.
LEMMA PlacesGrow ==
  ASSUME Recorded, Recorded', NEW ev \in Events, reported' = Append(reported, ev),
         NEW x, Reports(x)
  PROVE  /\ Reports(x)' /\ Place(x)' = Place(x)
         /\ Place(x) < Place(ev)'
<1>1. PICK i \in 1 .. Len(reported) : reported[i] = x
  BY DEF Reports
<1>2. reported \in Seq(Events) /\ Len(reported) \in Nat
  BY DEF Recorded, TypeOK
<1>3. /\ i \in 1 .. Len(reported') /\ reported'[i] = x
      /\ Len(reported) + 1 \in 1 .. Len(reported') /\ reported'[Len(reported) + 1] = ev
  BY <1>1, <1>2
<1>4. Place(x) = i
  BY <1>1, PlaceOf
<1>5. ASSUME NEW k \in 1 .. Len(reported'), NEW y, y = reported'[k]
      PROVE  Place(y)' = k
  <2>1. (CHOOSE j \in 1 .. Len(reported') : reported'[j] = reported'[k]) = k
    BY ChosenIndex DEF Recorded, NoRepeats
  <2>2. QED
    BY <1>5, <2>1, Zenon DEF Place
<1>6. Place(x)' = i /\ Place(ev)' = Len(reported) + 1
  BY <1>3, <1>5
<1>7. QED
  BY <1>2, <1>3, <1>4, <1>6 DEF Reports

Emits == emitting # NoEvent

Ordered ==
    /\ \A i \in 1 .. Len(received) : Reports(received[i])
    /\ \A i \in 1 .. Len(events) : Reports(events[i])
    /\ \A i, j \in 1 .. Len(received) : i < j => Before(received[i], received[j])
    /\ \A i, j \in 1 .. Len(events) : i < j => Before(events[i], events[j])
    /\ \A i \in 1 .. Len(received), j \in 1 .. Len(events) : Before(received[i], events[j])
    /\ Emits =>
         /\ Reports(emitting)
         /\ \A i \in 1 .. Len(received) : Before(received[i], emitting)
         /\ \A i \in 1 .. Len(events) : Before(events[i], emitting)

LEMMA OrderedInit == Init => Ordered
  BY DEF Init, DeviceInit, Ordered, Emits

LEMMA OrderedNext == Recorded /\ Recorded' /\ Ordered /\ [Next]_vars => Ordered'
<1> SUFFICES ASSUME Recorded, Recorded', Ordered, [Next]_vars PROVE Ordered'
  OBVIOUS
<1>a. /\ events \in Seq(Events) /\ received \in Seq(Events) /\ Len(events) \in Nat
      /\ Len(received) \in Nat /\ (reader \in {"full", "room"} <=> Emits)
      /\ NoEvent \notin Events /\ \A x \in Events : x # NoEvent
  BY EventsTyped DEF Recorded, TypeOK, DeviceTypeOK, Emits
<1>b. ASSUME reported' = reported, NEW x, NEW y
      PROVE  /\ Reports(x)' <=> Reports(x)
             /\ Before(x, y)' <=> Before(x, y)
  BY <1>b DEF Reports, Before, Place
<1>1. ASSUME NEW ev \in Events, Report(ev) PROVE Ordered'
  <2>1. reported' = Append(reported, ev) /\ received' = received /\ Receive(ev)
    BY <1>1 DEF Report
  <2>2. ASSUME NEW x, Reports(x), NEW y, Reports(y)
        PROVE  Reports(x)' /\ Before(x, ev)' /\ (Before(x, y) => Before(x, y)')
    BY <2>1, <2>2, PlacesGrow DEF Before
  <2>3. Reports(ev)'
    <3>1. reported \in Seq(Events) /\ Len(reported) \in Nat
      BY DEF Recorded, TypeOK
    <3>2. reported'[Len(reported) + 1] = ev /\ Len(reported) + 1 \in 1 .. Len(reported')
      BY <2>1, <3>1
    <3>3. QED BY <3>2 DEF Reports
  <2>4. ~Emits
    BY <1>a, <2>1 DEF Receive
  <2>5. CASE HasRoom
    <3>1. events' = Append(events, ev) /\ emitting' = emitting
      BY <2>1, <2>5 DEF Receive
    <3>2. \A i \in 1 .. Len(events') :
             \/ i \in 1 .. Len(events) /\ events'[i] = events[i]
             \/ i = Len(events) + 1 /\ events'[i] = ev
      BY <1>a, <3>1, AppendIndexes
    <3>3. \A i, j \in 1 .. Len(events') :
             i < j => i \in 1 .. Len(events) /\ events'[i] = events[i]
      BY <1>a, <3>1, <3>2
    <3>4. (\A i \in 1 .. Len(events) : Reports(events[i]))'
      BY <2>2, <2>3, <3>2 DEF Ordered
    <3>5. (\A i, j \in 1 .. Len(events) : i < j => Before(events[i], events[j]))'
      BY <2>2, <3>2, <3>3 DEF Ordered
    <3>6. (\A i \in 1 .. Len(received), j \in 1 .. Len(events) :
             Before(received[i], events[j]))'
      BY <2>1, <2>2, <3>2 DEF Ordered
    <3>7. /\ (\A i \in 1 .. Len(received) : Reports(received[i]))'
          /\ (\A i, j \in 1 .. Len(received) : i < j => Before(received[i], received[j]))'
      BY <2>1, <2>2 DEF Ordered
    <3>8. QED BY <2>1, <2>4, <3>1, <3>4, <3>5, <3>6, <3>7 DEF Ordered, Emits
  <2>6. CASE ~HasRoom
    <3>1. events' = events /\ emitting' = ev
      BY <2>1, <2>6 DEF Receive
    <3>2. /\ (\A i \in 1 .. Len(received) : Reports(received[i]) /\ Before(received[i], ev))'
          /\ (\A i \in 1 .. Len(events) : Reports(events[i]) /\ Before(events[i], ev))'
      BY <2>1, <2>2, <3>1 DEF Ordered
    <3>3. /\ (\A i, j \in 1 .. Len(received) : i < j => Before(received[i], received[j]))'
          /\ (\A i, j \in 1 .. Len(events) : i < j => Before(events[i], events[j]))'
          /\ (\A i \in 1 .. Len(received), j \in 1 .. Len(events) :
               Before(received[i], events[j]))'
      BY <2>1, <2>2, <3>1 DEF Ordered
    <3>4. QED BY <2>3, <3>1, <3>2, <3>3 DEF Ordered
  <2>7. QED BY <2>5, <2>6
\* The head of the queue goes to the consumer.
<1>2. CASE Take
  <2>1. /\ events # <<>> /\ events' = Tail(events) /\ received' = Append(received, Head(events))
        /\ reported' = reported /\ emitting' = emitting
    BY <1>2 DEF Take, TakeOldest
  <2>2. /\ 1 \in 1 .. Len(events) /\ Head(events) = events[1]
        /\ \A i \in 1 .. Len(events') :
             events'[i] = events[i + 1] /\ i + 1 \in 1 .. Len(events) /\ 1 < i + 1
    BY <1>a, <2>1, TailIndexes
  <2>3. \A i \in 1 .. Len(received') :
           \/ i \in 1 .. Len(received) /\ received'[i] = received[i]
           \/ i = Len(received) + 1 /\ received'[i] = events[1]
    BY <1>a, <2>1, <2>2, AppendIndexes
  <2>4. \A i, j \in 1 .. Len(received') :
           i < j => i \in 1 .. Len(received) /\ received'[i] = received[i]
    BY <1>a, <2>3
  <2>5. \A i, j \in 1 .. Len(events') : i < j => i + 1 < j + 1
    BY <1>a, <2>1
  <2>6. \A i \in 1 .. Len(received') : Reports(received'[i])
    BY <2>2, <2>3 DEF Ordered
  <2>7. \A i, j \in 1 .. Len(received') : i < j => Before(received'[i], received'[j])
    BY <2>2, <2>3, <2>4 DEF Ordered
  <2>8. \A i \in 1 .. Len(received'), j \in 1 .. Len(events') : Before(received'[i], events'[j])
    BY <2>2, <2>3 DEF Ordered
  <2>9. \A i \in 1 .. Len(events') : Reports(events'[i])
    BY <2>2 DEF Ordered
  <2>10. \A i, j \in 1 .. Len(events') : i < j => Before(events'[i], events'[j])
    BY <2>2, <2>5 DEF Ordered
  <2>11. Emits => /\ Reports(emitting)
                  /\ \A i \in 1 .. Len(received') : Before(received'[i], emitting)
                  /\ \A i \in 1 .. Len(events') : Before(events'[i], emitting)
    BY <2>2, <2>3 DEF Ordered
  <2>12. QED
    BY <1>b, <2>1, <2>6, <2>7, <2>8, <2>9, <2>10, <2>11 DEF Ordered, Emits
<1>3. CASE DiscardOldest /\ UNCHANGED <<reported, received>>
  <2>1. CASE events = <<>>
    <3>1. events' = events /\ emitting' = emitting
      BY <1>3, <2>1 DEF DiscardOldest, WithoutOldest
    <3>2. QED BY <1>3, <1>b, <3>1 DEF Ordered, Emits
  <2>2. CASE events # <<>>
    <3>1. events' = Tail(events) /\ emitting' = emitting
      BY <1>3, <2>2 DEF DiscardOldest, WithoutOldest
    <3>2. \A i \in 1 .. Len(events') : events'[i] = events[i + 1] /\ i + 1 \in 1 .. Len(events)
      BY <1>a, <2>2, <3>1, TailIndexes
    <3>3. \A i, j \in 1 .. Len(events') : i < j => i + 1 < j + 1
      BY <1>a, <3>1
    <3>4. /\ \A i \in 1 .. Len(events') : Reports(events'[i])
          /\ \A i, j \in 1 .. Len(events') : i < j => Before(events'[i], events'[j])
          /\ \A i \in 1 .. Len(received), j \in 1 .. Len(events') :
               Before(received[i], events'[j])
          /\ Emits => \A i \in 1 .. Len(events') : Before(events'[i], emitting)
      BY <3>2, <3>3 DEF Ordered
    <3>5. QED BY <1>3, <1>b, <3>1, <3>4 DEF Ordered, Emits
  <2>3. QED BY <2>1, <2>2
<1>4. CASE SendAgain /\ UNCHANGED <<reported, received>>
  <2>1. Emits /\ emitting' = NoEvent
    BY <1>4, <1>a DEF SendAgain
  <2>2. CASE HasRoom
    <3>1. events' = Append(events, emitting)
      BY <1>4, <2>2 DEF SendAgain
    <3>2. \A i \in 1 .. Len(events') :
             \/ i \in 1 .. Len(events) /\ events'[i] = events[i]
             \/ i = Len(events) + 1 /\ events'[i] = emitting
      BY <1>a, <3>1, AppendIndexes
    <3>3. \A i, j \in 1 .. Len(events') :
             i < j => i \in 1 .. Len(events) /\ events'[i] = events[i]
      BY <1>a, <3>1, <3>2
    <3>4. /\ \A i \in 1 .. Len(events') : Reports(events'[i])
          /\ \A i \in 1 .. Len(received), j \in 1 .. Len(events') :
               Before(received[i], events'[j])
      BY <2>1, <3>2 DEF Ordered
    <3>5. \A i, j \in 1 .. Len(events') : i < j => Before(events'[i], events'[j])
      BY <2>1, <3>2, <3>3 DEF Ordered
    <3>6. QED BY <1>4, <1>b, <2>1, <3>4, <3>5 DEF Ordered, Emits
  <2>3. CASE ~HasRoom
    <3>1. events' = events
      BY <1>4, <2>3 DEF SendAgain
    <3>2. QED BY <1>4, <1>b, <2>1, <3>1 DEF Ordered, Emits
  <2>4. QED BY <2>2, <2>3
<1>5. ASSUME UNCHANGED <<reported, received, events, emitting>> PROVE Ordered'
  BY <1>5, <1>b DEF Ordered, Emits
<1>6. CASE /\ UNCHANGED <<reported, received>>
           /\ SeeClose \/ ReadError \/ MarkDead \/ CloseEvents \/ CloseDone \/ CloseSocket
                 \/ DaemonGoes
  BY <1>5, <1>6 DEF SeeClose, ReadError, MarkDead, CloseEvents, CloseDone, CloseSocket, DaemonGoes
<1>7. CASE UNCHANGED vars
  BY <1>5, <1>7 DEF vars, deviceVars
<1>8. QED
  BY <1>1, <1>2, <1>3, <1>4, <1>6, <1>7, NextCases DEF ReaderStep

\* Where an element of the served sequence comes from.
LEMMA ServedParts ==
  ASSUME NEW S, NEW r \in Seq(S), NEW q \in Seq(S), NEW e \in Seq(S),
         NEW i \in 1 .. Len(r \o q \o e)
  PROVE  /\ Len(r) \in Nat /\ Len(q) \in Nat /\ Len(e) \in Nat
         /\ \/ i \in 1 .. Len(r) /\ (r \o q \o e)[i] = r[i]
            \/ /\ i - Len(r) \in 1 .. Len(q) /\ i > Len(r)
               /\ (r \o q \o e)[i] = q[i - Len(r)]
            \/ /\ i - Len(r) - Len(q) \in 1 .. Len(e) /\ i > Len(r) + Len(q)
               /\ (r \o q \o e)[i] = e[i - Len(r) - Len(q)]
<1>1. /\ r \o q \in Seq(S) /\ Len(r \o q) = Len(r) + Len(q)
      /\ Len(r) \in Nat /\ Len(q) \in Nat /\ Len(e) \in Nat
  OBVIOUS
<1>2. Len(r \o q \o e) = Len(r) + Len(q) + Len(e)
  BY <1>1
<1>3. \A k \in 1 .. Len(r) + Len(q) :
         (r \o q)[k] = IF k <= Len(r) THEN r[k] ELSE q[k - Len(r)]
  BY <1>1
<1>4. (r \o q \o e)[i] = IF i <= Len(r) + Len(q) THEN (r \o q)[i] ELSE e[i - Len(r) - Len(q)]
  BY <1>1, <1>2
<1>5. QED
  BY <1>1, <1>2, <1>3, <1>4, SMTT(30)

LEMMA OrderedServes == Recorded /\ Ordered => ServedInOrder
<1> SUFFICES ASSUME Recorded, Ordered PROVE ServedInOrder
  OBVIOUS
<1> DEFINE last == IF emitting = NoEvent THEN <<>> ELSE <<emitting>>
<1> DEFINE served == received \o events \o last
<1>1. /\ events \in Seq(Events) /\ received \in Seq(Events)
      /\ emitting # NoEvent => emitting \in Events
  BY DEF Recorded, TypeOK, DeviceTypeOK
<1>2. last \in Seq(Events) /\ \A k \in 1 .. Len(last) : k = 1 /\ last[k] = emitting /\ Emits
  BY <1>1 DEF Emits
<1> HIDE DEF last
<1> SUFFICES ASSUME NEW i \in 1 .. Len(served), NEW j \in 1 .. Len(served), i < j
             PROVE  Before(served[i], served[j])
  BY DEF ServedInOrder, Before, last
<1>3. /\ Len(received) \in Nat /\ Len(events) \in Nat /\ Len(last) \in Nat
      /\ \/ i \in 1 .. Len(received) /\ served[i] = received[i]
         \/ /\ i - Len(received) \in 1 .. Len(events) /\ i > Len(received)
            /\ served[i] = events[i - Len(received)]
         \/ /\ i - Len(received) - Len(events) \in 1 .. Len(last)
            /\ i > Len(received) + Len(events)
            /\ served[i] = last[i - Len(received) - Len(events)]
  BY <1>1, <1>2, ServedParts
<1>4. \/ j \in 1 .. Len(received) /\ served[j] = received[j]
      \/ /\ j - Len(received) \in 1 .. Len(events) /\ j > Len(received)
         /\ served[j] = events[j - Len(received)]
      \/ /\ j - Len(received) - Len(events) \in 1 .. Len(last)
         /\ j > Len(received) + Len(events)
         /\ served[j] = last[j - Len(received) - Len(events)]
  BY <1>1, <1>2, ServedParts
<1> HIDE DEF served
<1>5. QED
  BY <1>2, <1>3, <1>4, SMTT(30) DEF Ordered

LEMMA OrderedAlways == Spec => [](Recorded /\ Ordered)
  BY RecordedInit, RecordedNext, OrderedInit, OrderedNext, PTL DEF Spec

\* The consumer sees a subsequence of what the daemon reported, in its order,
\* whatever the capacity and however the two threads meet in emit.
THEOREM EventsInOrder == Spec => []ServedInOrder
  BY OrderedAlways, OrderedServes, PTL

----------------------------------------------------------------------------
(* The newest event *)

Newest == reported[Len(reported)]
Arrived(ev) == Contains(received, ev) \/ Contains(events, ev)

Fresh ==
    /\ reader = "room" => HasRoom
    /\ Emits => reported # <<>> /\ emitting = Newest
    /\ reported # <<>> /\ ~Emits => Arrived(Newest)

LEMMA FreshInit == Init => Fresh
  BY DEF Init, DeviceInit, Fresh, Emits

LEMMA FreshNext == Recorded /\ Fresh /\ [Next]_vars => Fresh'
<1> SUFFICES ASSUME Recorded, Fresh, [Next]_vars PROVE Fresh'
  OBVIOUS
<1> USE SpacenavAssumption
<1>a. /\ events \in Seq(Events) /\ received \in Seq(Events) /\ reported \in Seq(Events)
      /\ Len(events) \in Nat /\ Len(received) \in Nat /\ Len(reported) \in Nat
      /\ Len(events) <= QueueCap /\ (reader \in {"full", "room"} <=> Emits)
      /\ \A x \in Events : x # NoEvent
  BY EventsTyped DEF Recorded, TypeOK, DeviceTypeOK, Emits
<1>1. ASSUME NEW ev \in Events, Report(ev) PROVE Fresh'
  <2>1. /\ reported' = Append(reported, ev) /\ received' = received /\ Receive(ev)
        /\ ~Emits /\ reader = "read"
    BY <1>1, <1>a DEF Report, Receive
  <2>2. reported' # <<>> /\ Newest' = ev
    <3>1. Len(reported') = Len(reported) + 1 /\ reported'[Len(reported) + 1] = ev
      BY <1>a, <2>1
    <3>2. QED BY <1>a, <3>1 DEF Newest
  <2>3. CASE HasRoom
    <3>1. events' = Append(events, ev) /\ UNCHANGED <<emitting, reader>>
      BY <2>1, <2>3 DEF Receive
    <3>2. Len(events) + 1 \in 1 .. Len(events') /\ events'[Len(events) + 1] = ev
      BY <1>a, <3>1
    <3>3. QED BY <2>1, <2>2, <3>1, <3>2 DEF Fresh, Emits, Arrived, Contains
  <2>4. CASE ~HasRoom
    BY <1>a, <2>1, <2>2, <2>4 DEF Receive, Fresh, Emits
  <2>5. QED BY <2>3, <2>4
<1>2. CASE Take
  <2>1. /\ events # <<>> /\ events' = Tail(events) /\ received' = Append(received, Head(events))
        /\ UNCHANGED <<reported, emitting, reader>>
    BY <1>2 DEF Take, TakeOldest
  <2>2. Len(events') = Len(events) - 1 /\ events[1] = Head(events)
    BY <1>a, <2>1
  <2>3. \A i \in 2 .. Len(events) : i - 1 \in 1 .. Len(events') /\ events'[i - 1] = events[i]
    BY <1>a, <2>1, <2>2
  <2>4. /\ \A i \in 1 .. Len(received) : i \in 1 .. Len(received') /\ received'[i] = received[i]
        /\ Len(received) + 1 \in 1 .. Len(received')
        /\ received'[Len(received) + 1] = events[1]
    <3>1. Head(events) \in Events
      BY <1>a, <2>1
    <3>2. QED BY <1>a, <2>1, <2>2, <3>1
  <2>5. ASSUME NEW x, Arrived(x) PROVE Arrived(x)'
    <3>1. CASE Contains(received, x)
      BY <2>4, <3>1 DEF Arrived, Contains
    <3>2. CASE Contains(events, x)
      <4>1. PICK i \in 1 .. Len(events) : events[i] = x
        BY <3>2 DEF Contains
      <4>2. CASE i = 1
        BY <2>4, <4>1, <4>2 DEF Arrived, Contains
      <4>3. CASE i # 1
        <5>1. i \in 2 .. Len(events)
          BY <4>3
        <5>2. QED BY <2>3, <4>1, <5>1 DEF Arrived, Contains
      <4>4. QED BY <4>2, <4>3
    <3>3. QED BY <2>5, <3>1, <3>2 DEF Arrived
  <2>6. reader' = "room" => HasRoom'
    BY <1>a, <2>1, <2>2 DEF Fresh, HasRoom
  <2>7. QED BY <2>1, <2>5, <2>6 DEF Fresh, Emits, Newest
<1>3. CASE DiscardOldest /\ UNCHANGED <<reported, received>>
  <2>1. Emits /\ UNCHANGED <<emitting, reported>> /\ events' = WithoutOldest
    BY <1>3, <1>a DEF DiscardOldest
  <2>2. HasRoom'
    BY <1>a, <2>1 DEF WithoutOldest, HasRoom
  <2>3. QED BY <2>1, <2>2 DEF Fresh, Emits, Newest
<1>4. CASE SendAgain /\ UNCHANGED <<reported, received>>
  <2>1. /\ Emits /\ emitting' = NoEvent /\ HasRoom /\ events' = Append(events, emitting)
        /\ reader' = "read" /\ emitting = Newest
    BY <1>4, <1>a DEF SendAgain, Fresh
  <2>2. Len(events) + 1 \in 1 .. Len(events') /\ events'[Len(events) + 1] = emitting
    <3>1. emitting \in Events
      BY <2>1 DEF Recorded, TypeOK, DeviceTypeOK, Emits
    <3>2. QED BY <1>a, <2>1, <3>1
  <2>3. QED BY <1>4, <2>1, <2>2 DEF Fresh, Emits, Arrived, Contains, Newest
<1>5. ASSUME UNCHANGED <<reported, received, events, emitting>>, reader' = "room" => reader = "room"
      PROVE  Fresh'
  BY <1>5 DEF Fresh, Emits, HasRoom, Newest, Arrived, Contains
<1>6. CASE /\ UNCHANGED <<reported, received>>
           /\ SeeClose \/ ReadError \/ MarkDead \/ CloseEvents \/ CloseDone \/ CloseSocket
                 \/ DaemonGoes
  BY <1>5, <1>6 DEF SeeClose, ReadError, MarkDead, CloseEvents, CloseDone, CloseSocket, DaemonGoes
<1>7. CASE UNCHANGED vars
  BY <1>5, <1>7 DEF vars, deviceVars
<1>8. QED
  BY <1>1, <1>2, <1>3, <1>4, <1>6, <1>7, NextCases DEF ReaderStep

LEMMA FreshServes == Recorded /\ Fresh => NewestIsServed
<1> SUFFICES ASSUME Recorded, Fresh, reported # <<>>, emitting = NoEvent
             PROVE  Contains(received \o events, Last(reported))
  BY DEF NewestIsServed
<1>1. /\ received \in Seq(Events) /\ events \in Seq(Events)
      /\ Len(received) \in Nat /\ Len(events) \in Nat
  BY DEF Recorded, TypeOK, DeviceTypeOK
<1>2. Arrived(Newest) /\ Newest = Last(reported)
  BY DEF Fresh, Emits, Newest, Last
<1>3. Len(received \o events) = Len(received) + Len(events)
  BY <1>1
<1>4. CASE Contains(received, Newest)
  <2>1. PICK i \in 1 .. Len(received) : received[i] = Newest
    BY <1>4 DEF Contains
  <2>2. i \in 1 .. Len(received \o events) /\ (received \o events)[i] = received[i]
    BY <1>1, <1>3
  <2>3. QED BY <1>2, <2>1, <2>2 DEF Contains
<1>5. CASE Contains(events, Newest)
  <2>1. PICK i \in 1 .. Len(events) : events[i] = Newest
    BY <1>5 DEF Contains
  <2>2. /\ Len(received) + i \in 1 .. Len(received \o events)
        /\ (received \o events)[Len(received) + i] = events[i]
    BY <1>1, <1>3
  <2>3. QED BY <1>2, <2>1, <2>2 DEF Contains
<1>6. QED BY <1>2, <1>4, <1>5 DEF Arrived

\* The consumer always gets the newest event, however far it has fallen behind.
THEOREM NewestGetsThrough == Spec => []NewestIsServed
  BY RecordedInit, RecordedNext, FreshInit, FreshNext, FreshServes, PTL DEF Spec
==============================================================================
