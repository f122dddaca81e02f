---------------------------- MODULE Process_proofs ----------------------------
(***************************************************************************)
(* Proofs about the life of the service, for any clients, any device and   *)
(* any capacity of its channel.                                            *)
(*                                                                         *)
(*   Typed  TypeOK, that the client explains why its read loop ended, and  *)
(*          that the listener is there from "listen" on (TypeOK alone is   *)
(*          not inductive: Serve closes the listener it was given);        *)
(*   Told   whoever stops the service leaves the reason behind: a watcher  *)
(*          that shuts down was told to or saw a loss, main returns only   *)
(*          after a shutdown, and closes the device only without a loss.   *)
(***************************************************************************)
EXTENDS Process, Spacenav_proofs

----------------------------------------------------------------------------
(* The phases of the start *)

BeforeWatch == {"settings", "credentials", "device", "options", "watch"}
AfterWatch == {"listen", "pair", "serve"}

NoListenerYet == listener = "none" <=> main \in BeforeWatch \cup {"listen"}
Typed == TypeOK /\ Explained /\ NoListenerYet

LEMMA PhaseNames ==
    /\ Phases[1] = "settings" /\ Phases[2] = "credentials" /\ Phases[3] = "device"
    /\ Phases[4] = "options" /\ Phases[5] = "watch" /\ Phases[6] = "listen"
    /\ Phases[7] = "pair" /\ Phases[8] = "serve"
  BY DEF Phases

LEMMA PhaseSets ==
    /\ {Phases[i] : i \in 1 .. 5} = BeforeWatch
    /\ {Phases[i] : i \in 1 .. 8} = BeforeWatch \cup AfterWatch
    /\ Starting = BeforeWatch \cup {"listen", "pair"}
<1>1. /\ \A i \in 1 .. 5 : i = 1 \/ i = 2 \/ i = 3 \/ i = 4 \/ i = 5
      /\ \A i \in 1 .. 7 : i \in 1 .. 5 \/ i = 6 \/ i = 7
      /\ \A i \in 1 .. 8 : i \in 1 .. 7 \/ i = 8
      /\ 1 \in 1 .. 5 /\ 2 \in 1 .. 5 /\ 3 \in 1 .. 5 /\ 4 \in 1 .. 5 /\ 5 \in 1 .. 5
      /\ 6 \in 1 .. 7 /\ 7 \in 1 .. 7 /\ 8 \in 1 .. 8
      /\ 1 .. 5 \subseteq 1 .. 7 /\ 1 .. 7 \subseteq 1 .. 8
  OBVIOUS
<1>2. {Phases[i] : i \in 1 .. 5} = BeforeWatch
  BY <1>1, PhaseNames, ZenonT(40) DEF BeforeWatch
<1>3. {Phases[i] : i \in 1 .. 7} = {Phases[i] : i \in 1 .. 5} \cup {"listen", "pair"}
  BY <1>1, PhaseNames, Zenon
<1>4. {Phases[i] : i \in 1 .. 8} = {Phases[i] : i \in 1 .. 7} \cup {"serve"}
  BY <1>1, PhaseNames, Zenon
<1>5. QED
  BY <1>2, <1>3, <1>4 DEF Starting, AfterWatch

\* No phase has the name of another, so each has one successor.
LEMMA Successor ==
  ASSUME NEW i \in 1 .. 7
  PROVE  After(Phases[i]) = Phases[i + 1]
<1>1. \A j \in 1 .. 7 : Phases[j] = Phases[i] => j = i
  BY PhaseNames
<1>2. (CHOOSE j \in 1 .. 7 : Phases[j] = Phases[i]) = i
  BY <1>1
<1>3. QED
  BY <1>2, Zenon DEF After

LEMMA PhaseOrder ==
  ASSUME main \in Starting
  PROVE  /\ main \in BeforeWatch \ {"watch"} => After(main) \in BeforeWatch
         /\ main = "watch" => After(main) = "listen"
         /\ main \in {"listen", "pair"} => After(main) \in AfterWatch \ {"listen"}
<1>1. PICK i \in 1 .. 7 : main = Phases[i]
  BY DEF Starting
<1>2. After(main) = Phases[i + 1]
  BY <1>1, Successor
<1>3. QED
  BY <1>1, <1>2, PhaseNames DEF BeforeWatch, AfterWatch

----------------------------------------------------------------------------
(* Types *)

\* A step of the service moves the device client or nothing of it.
LEMMA DeviceSteps ==
  ASSUME CloseDevice \/ DeviceReads \/ DeviceSends \/ DriveTakes
  PROVE  DeviceAction /\ UNCHANGED <<processVars, listenVars>>
  BY DEF CloseDevice, DeviceReads, DeviceSends, DriveTakes, DeviceAction

LEMMA OtherSteps ==
  ASSUME Next
  PROVE  \/ CloseDevice \/ DeviceReads \/ DeviceSends \/ DriveTakes
         \/ UNCHANGED deviceVars
<1>1. ASSUME NEW c \in Clients,
             Connect(c) \/ ConnStep(c) \/ PeekTimeout(c) \/ Upgrade(c) \/ Leave(c)
      PROVE  UNCHANGED deviceVars
  BY <1>1 DEF Connect, ConnStep, PeekTimeout, Upgrade, Leave, Accept, FirstByte, Redirect,
              HandOver, Refuse, Move
<1>2. ASSUME Proceed \/ Fail \/ Serve \/ AcceptError \/ ServerFails \/ Returned \/ Return
               \/ Signal \/ WatcherStep \/ AcceptEnds \/ AcceptFails
      PROVE  UNCHANGED deviceVars
  BY <1>2 DEF Proceed, Fail, Serve, AcceptError, ServerFails, Returned, Return, Signal,
              WatcherStep, WatchSignal, WatchDeath, Shutdown, AcceptEnds, AcceptFails
<1>3. QED
  BY <1>1, <1>2 DEF Next, MainStep

LEMMA TypedInit == Init => Typed
<1> SUFFICES ASSUME Init PROVE Typed
  OBVIOUS
<1>1. DeviceTypeOK /\ Explained
  BY DeviceTypedInit, ExplainedInit DEF Init
<1>2. conn \in [Clients -> ConnStates]
  BY DEF Init, ConnStates
<1>3. QED
  BY <1>1, <1>2, PhaseSets DEF Init, Typed, TypeOK, DeviceInit, BeforeWatch, NoListenerYet

\* What TypeOK says of the service itself.
ServiceTypeOK ==
    /\ mode \in Modes
    /\ main \in BeforeWatch \cup AfterWatch \cup {"accepting", "returned", "closing"}
    /\ exit \in {Running, 0, 1, 2, Killed}
    /\ watcher \in {"none", "waiting", "shutdown", "done"}
    /\ watcher = "none" <=> main \in BeforeWatch
    /\ dialed => mode = "drive"
    /\ deviceLost => readErr /\ watcher \in {"shutdown", "done"}
    /\ listener \in {"none", "open", "closed"}
    /\ acceptor \in {"off", "on", "ended", "broken"}
    /\ listener = "none" <=> acceptor = "off"
    /\ conn \in [Clients -> ConnStates]

LEMMA TypeParts == TypeOK <=> DeviceTypeOK /\ ServiceTypeOK
  BY PhaseSets, Zenon DEF TypeOK, ServiceTypeOK

LEMMA TypePartsNext == TypeOK' <=> DeviceTypeOK' /\ ServiceTypeOK'
  BY PhaseSets, Zenon DEF TypeOK, ServiceTypeOK

LEMMA ServiceTypedNext ==
  ASSUME Typed, Next, UNCHANGED deviceVars
  PROVE  ServiceTypeOK'
<1>a. ServiceTypeOK /\ NoListenerYet /\ readErr' = readErr
  BY TypeParts DEF Typed, deviceVars
<1> USE <1>a DEF ServiceTypeOK, processVars, listenVars
<1>1. CASE Proceed
  <2>1. main \in Starting /\ main' = After(main)
    BY <1>1 DEF Proceed
  <2>2. /\ main \in BeforeWatch \ {"watch"} => main' \in BeforeWatch
        /\ main = "watch" => main' = "listen"
        /\ main \in {"listen", "pair"} => main' \in AfterWatch
        /\ main \in BeforeWatch \cup {"listen", "pair"}
    BY <2>1, PhaseOrder, PhaseSets
  <2>3. /\ main' \in BeforeWatch \cup AfterWatch
        /\ watcher' \in {"none", "waiting", "shutdown", "done"}
        /\ watcher' = "none" <=> main' \in BeforeWatch
    BY <1>1, <2>2 DEF Proceed, BeforeWatch, AfterWatch
  <2>4. /\ listener' \in {"none", "open", "closed"} /\ acceptor' \in {"off", "on", "ended", "broken"}
        /\ listener' = "none" <=> acceptor' = "off"
    BY <1>1 DEF Proceed
  <2>5. UNCHANGED <<mode, exit, deviceLost, conn>>
    BY <1>1 DEF Proceed
  <2>6. dialed' => mode' = "drive"
    BY <1>1 DEF Proceed
  <2>7. deviceLost' => watcher' \in {"shutdown", "done"}
    BY <1>1, <2>2 DEF Proceed, BeforeWatch
  <2>8. QED
    BY <2>3, <2>4, <2>5, <2>6, <2>7
<1>2. CASE Fail
  <2>1. exit' \in {1, 2}
    BY <1>2 DEF Fail
  <2>2. QED BY <1>2, <2>1 DEF Fail
<1>3. CASE Serve
  <2>1. main = "serve" /\ main' \in {"returned", "accepting"} /\ watcher # "none"
    BY <1>3 DEF Serve, BeforeWatch
  <2>2. listener' \in {listener, "closed"} /\ listener # "none"
    BY <1>3 DEF Serve, BeforeWatch, NoListenerYet
  <2>3. QED BY <1>3, <2>1, <2>2 DEF Serve, BeforeWatch
<1>4. CASE AcceptError
  BY <1>4 DEF AcceptError, BeforeWatch
<1>5. CASE ServerFails \/ Returned
  BY <1>5 DEF ServerFails, Returned, BeforeWatch
<1>6. CASE Return
  BY <1>6 DEF Return
<1>7. CASE Signal
  BY <1>7 DEF Signal
<1>8. CASE WatchSignal \/ WatchDeath
  <2>1. CASE WatchSignal
    BY <2>1 DEF WatchSignal
  <2>2. CASE WatchDeath
    <3>1. deviceLost' => readErr' /\ watcher' \in {"shutdown", "done"}
      BY <2>2 DEF WatchDeath
    <3>2. QED BY <2>2, <3>1 DEF WatchDeath
  <2>3. QED BY <1>8, <2>1, <2>2
<1>9. CASE Shutdown
  BY <1>9 DEF Shutdown, NoListenerYet, BeforeWatch
<1>10. CASE AcceptEnds \/ AcceptFails
  BY <1>10 DEF AcceptEnds, AcceptFails
<1>11. ASSUME NEW c \in Clients,
              Connect(c) \/ ConnStep(c) \/ PeekTimeout(c) \/ Upgrade(c) \/ Leave(c)
       PROVE  ServiceTypeOK'
  <2>1. PICK from \in ConnStates, to \in ConnStates : Move(c, from, to)
    BY <1>11 DEF Connect, ConnStep, PeekTimeout, Upgrade, Leave, Accept, FirstByte, Redirect,
                 HandOver, Refuse, ConnStates
  <2>2. conn' \in [Clients -> ConnStates]
    BY <2>1 DEF Move
  <2>3. QED BY <2>1, <2>2 DEF Move
<1>12. CASE CloseDevice \/ DeviceReads \/ DeviceSends \/ DriveTakes
  BY <1>12, DeviceSteps
<1>13. QED
  BY <1>1, <1>2, <1>3, <1>4, <1>5, <1>6, <1>7, <1>8, <1>9, <1>10, <1>11, <1>12
     DEF Next, MainStep, WatcherStep

LEMMA ListenerNext ==
  ASSUME Typed, Next, UNCHANGED deviceVars
  PROVE  NoListenerYet'
<1>a. ServiceTypeOK /\ NoListenerYet
  BY TypeParts DEF Typed
<1> USE <1>a DEF NoListenerYet
<1>1. CASE Proceed
  <2>1. /\ main \in BeforeWatch \ {"watch"} => main' \in BeforeWatch
        /\ main = "watch" => main' = "listen"
        /\ main \in {"listen", "pair"} => main' \in AfterWatch \ {"listen"}
        /\ main \in BeforeWatch \cup {"listen", "pair"}
    BY <1>1, PhaseOrder, PhaseSets DEF Proceed
  <2>2. QED BY <1>1, <1>a, <2>1 DEF Proceed, BeforeWatch, AfterWatch
<1>2. CASE Serve \/ AcceptError \/ Returned \/ Shutdown
  <2>1. CASE Serve       BY <2>1 DEF Serve, BeforeWatch
  <2>2. CASE AcceptError BY <2>2 DEF AcceptError, BeforeWatch, listenVars
  <2>3. CASE Returned    BY <2>3 DEF Returned, BeforeWatch, listenVars
  <2>4. CASE Shutdown    BY <2>4 DEF Shutdown, BeforeWatch
  <2>5. QED BY <1>2, <2>1, <2>2, <2>3, <2>4
<1>3. ASSUME NEW c \in Clients,
             Connect(c) \/ ConnStep(c) \/ PeekTimeout(c) \/ Upgrade(c) \/ Leave(c)
      PROVE  UNCHANGED <<main, listener>>
  BY <1>3 DEF Connect, ConnStep, PeekTimeout, Upgrade, Leave, Accept, FirstByte, Redirect,
              HandOver, Refuse, Move, processVars
<1>4. CASE Fail \/ ServerFails \/ Return \/ Signal \/ WatchSignal \/ WatchDeath \/ AcceptEnds \/ AcceptFails
             \/ CloseDevice \/ DeviceReads \/ DeviceSends \/ DriveTakes
  BY <1>4 DEF Fail, ServerFails, Return, Signal, WatchSignal, WatchDeath, AcceptEnds, AcceptFails,
              CloseDevice, DeviceReads, DeviceSends, DriveTakes, processVars, listenVars
<1>5. QED
  BY <1>1, <1>2, <1>3, <1>4 DEF Next, MainStep, WatcherStep

LEMMA TypedNext == Typed /\ [Next]_vars => Typed'
<1> SUFFICES ASSUME Typed, [Next]_vars PROVE Typed'
  OBVIOUS
<1>a. DeviceTypeOK /\ ServiceTypeOK /\ Explained /\ NoListenerYet
  BY TypeParts DEF Typed
<1>1. CASE CloseDevice \/ DeviceReads \/ DeviceSends \/ DriveTakes
  <2>1. DeviceAction /\ UNCHANGED <<processVars, listenVars>>
    BY <1>1, DeviceSteps
  <2>2. DeviceTypeOK' /\ Explained'
    BY <1>a, <2>1, DeviceTypedNext, ExplainedNext
  <2>3. readErr => readErr'
    BY <1>a, <2>1, LossIsFinal
  <2>4. ServiceTypeOK'
    BY <1>a, <2>1, <2>3 DEF ServiceTypeOK, processVars, listenVars
  <2>5. NoListenerYet'
    BY <1>a, <2>1 DEF NoListenerYet, processVars, listenVars
  <2>6. QED BY <2>2, <2>4, <2>5, TypePartsNext DEF Typed
<1>2. CASE Next /\ UNCHANGED deviceVars
  <2>1. DeviceTypeOK' /\ Explained'
    BY <1>a, <1>2 DEF deviceVars, DeviceTypeOK, Explained, Dead
  <2>2. QED BY <1>2, <2>1, ServiceTypedNext, ListenerNext, TypePartsNext DEF Typed
<1>3. CASE UNCHANGED vars
  <2>1. DeviceTypeOK' /\ Explained'
    BY <1>a, <1>3 DEF vars, deviceVars, DeviceTypeOK, Explained, Dead
  <2>2. ServiceTypeOK'
    BY <1>a, <1>3 DEF vars, deviceVars, processVars, listenVars, ServiceTypeOK
  <2>3. NoListenerYet'
    BY <1>a, <1>3 DEF vars, processVars, listenVars, NoListenerYet
  <2>4. QED BY <2>1, <2>2, <2>3, TypePartsNext DEF Typed
<1>4. QED
  BY <1>1, <1>2, <1>3, OtherSteps

\* The service, its listener and the device client keep their types.
THEOREM ServiceTyped == Spec => []TypeOK
<1>1. Typed => TypeOK
  BY DEF Typed
<1>2. QED
  BY <1>1, TypedInit, TypedNext, PTL DEF Spec

----------------------------------------------------------------------------
(* Why the service stopped *)

Told ==
    /\ watcher = "shutdown" => signalled \/ deviceLost
    /\ inShutdown => watcher = "done" /\ (signalled \/ deviceLost)
    /\ main \in {"returned", "closing"} => inShutdown
    /\ main = "closing" => ~deviceLost
    /\ ExitTellsWhy

LEMMA ToldInit == Init => Told
  BY DEF Init, Told, ExitTellsWhy, Up, Running

\* Only the watcher's own wait ends with a loss, before it shuts anything down.
LEMMA ToldNext == Typed /\ Told /\ [Next]_vars => Told'
<1> SUFFICES ASSUME Typed, Told, [Next]_vars PROVE Told'
  OBVIOUS
<1>a. ServiceTypeOK
  BY TypeParts DEF Typed
<1> USE DEF Told, ExitTellsWhy, Up, Running, processVars, listenVars
<1>1. CASE Proceed
  <2>1. main' \notin {"returned", "closing"}
    <3>1. main' \in BeforeWatch \cup AfterWatch
      BY <1>1, PhaseOrder, PhaseSets DEF Proceed, AfterWatch
    <3>2. QED BY <3>1 DEF BeforeWatch, AfterWatch
  <2>2. main = "watch" => watcher = "none"
    BY <1>a DEF ServiceTypeOK, BeforeWatch
  <2>3. QED BY <1>1, <2>1, <2>2 DEF Proceed
<1>2. CASE Fail
  <2>1. deviceLost => main \in {"listen", "pair"}
    BY <1>a, <1>2, PhaseSets DEF Fail, ServiceTypeOK
  <2>2. exit' \in {1, 2} /\ (deviceLost => exit' = 1)
    BY <1>2, <2>1 DEF Fail
  <2>3. QED BY <1>2, <2>2 DEF Fail
<1>3. CASE Serve
  BY <1>3 DEF Serve
<1>4. CASE AcceptError
  BY <1>4 DEF AcceptError
<1>5. CASE ServerFails \/ Returned
  BY <1>5 DEF ServerFails, Returned
<1>6. CASE Return
  BY <1>6 DEF Return
<1>7. CASE Signal
  BY <1>7, <1>a DEF Signal, ServiceTypeOK, Killed
<1>8. CASE WatchSignal
  BY <1>8 DEF WatchSignal
<1>9. CASE WatchDeath
  BY <1>9 DEF WatchDeath
<1>10. CASE Shutdown
  BY <1>10 DEF Shutdown
<1>11. CASE AcceptEnds \/ AcceptFails
  BY <1>11 DEF AcceptEnds, AcceptFails
<1>12. ASSUME NEW c \in Clients,
              Connect(c) \/ ConnStep(c) \/ PeekTimeout(c) \/ Upgrade(c) \/ Leave(c)
       PROVE  UNCHANGED processVars
  BY <1>12 DEF Connect, ConnStep, PeekTimeout, Upgrade, Leave, Accept, FirstByte, Redirect,
              HandOver, Refuse, Move
<1>13. CASE CloseDevice \/ DeviceReads \/ DeviceSends \/ DriveTakes
  BY <1>13, DeviceSteps
<1>14. CASE UNCHANGED processVars
  BY <1>14
<1>15. CASE UNCHANGED vars
  BY <1>15 DEF vars
<1>16. QED
  BY <1>1, <1>2, <1>3, <1>4, <1>5, <1>6, <1>7, <1>8, <1>9, <1>10, <1>11, <1>12, <1>13, <1>14,
     <1>15
     DEF Next, MainStep, WatcherStep

\* Exit 0 means the service was told to stop; once the watcher has seen the daemon
\* lost, no signal, no failure of the start and no second death hides the 1 the unit
\* restarts on.
THEOREM ExitCodeIsHonest == Spec => []ExitTellsWhy
<1>1. Told => ExitTellsWhy
  BY DEF Told
<1>2. QED
  BY <1>1, TypedInit, TypedNext, ToldInit, ToldNext, PTL DEF Spec
=============================================================================
