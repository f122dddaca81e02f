-------------------------------- MODULE Process --------------------------------
(***************************************************************************)
(* The life of the service (cmd/spacemouse-bridge/main.go) around the      *)
(* spacenavd client: the start, which gives up at the first thing that is  *)
(* missing, the goroutine that watches for a signal or the loss of the     *)
(* daemon, the TLS server behind the plaintext redirect                    *)
(* (internal/server/plaintext.go), and the exit code.                      *)
(*                                                                         *)
(* main, the watcher, the read loop of Spacenav, the accept loop and one   *)
(* goroutine per connection interleave freely; the daemon goes, signals    *)
(* and connections come at any moment.  http.Server is modelled by what    *)
(* main relies on: Shutdown closes a listener it tracks and refuses a      *)
(* later one, and Serve retries an Accept that failed for a moment and     *)
(* returns any other failure.                                              *)
(***************************************************************************)
EXTENDS Spacenav, Integers

CONSTANTS
    TLSClients,      \* connections that start with a handshake
    PlainClients,    \* those that speak plain HTTP
    SilentClients,   \* those that say nothing
    Modes            \* "drive" opens the device, "none" stands for the others

Clients == TLSClients \cup PlainClients \cup SilentClients

ASSUME ProcessAssumption ==
    /\ TLSClients \cap (PlainClients \cup SilentClients) = {}
    /\ Modes \subseteq {"drive", "none"}

VARIABLES
    mode,
    main,        \* what main does next, see Phases
    exit,        \* the exit code, Running before it
    signalled,   \* ctx of signal.NotifyContext is done
    dialed,      \* the device is open
    watcher,     \* "none", "waiting", "shutdown" or "done"
    deviceLost,
    inShutdown,  \* Shutdown was called
    listener,    \* the TCP listener: "none", "open" or "closed"
    acceptor,    \* peekListener.accept: "off", "on", or, with done closed, "ended" on an
                 \* error that Serve retries and "broken" on another
    conn         \* per connection, see ConnStates

processVars == <<mode, main, exit, signalled, dialed, watcher, deviceLost, inShutdown>>
listenVars == <<listener, acceptor, conn>>
vars == <<deviceVars, processVars, listenVars>>

Running == -1
Killed == 143
Phases == <<"settings", "credentials", "device", "options", "watch", "listen", "pair", "serve">>
ConnStates == {"none", "backlog", "classify", "ready", "redirect", "served", "session", "closed"}

Init ==
    /\ DeviceInit
    /\ mode \in Modes /\ main = "settings" /\ exit = Running
    /\ signalled = FALSE /\ dialed = FALSE
    /\ watcher = "none" /\ deviceLost = FALSE /\ inShutdown = FALSE
    /\ listener = "none" /\ acceptor = "off"
    /\ conn = [c \in Clients |-> "none"]

Up == exit = Running
AcceptStopped == acceptor \in {"ended", "broken"}

----------------------------------------------------------------------------
(* main *)

Starting == {Phases[i] : i \in 1 .. 7}
After(phase) ==
    LET i == CHOOSE j \in 1 .. 7 : Phases[j] = phase IN Phases[i + 1]

\* A phase succeeds.  The watcher starts before the listener, and the accept loop
\* before the key pair is loaded.
Proceed ==
    /\ Up /\ main \in Starting
    /\ main' = After(main)
    /\ dialed' = (dialed \/ (main = "device" /\ mode = "drive"))
    /\ watcher' = IF main = "watch" THEN "waiting" ELSE watcher
    /\ listener' = IF main = "listen" THEN "open" ELSE listener
    /\ acceptor' = IF main = "listen" THEN "on" ELSE acceptor
    /\ UNCHANGED <<deviceVars, mode, exit, signalled, deviceLost, inShutdown, conn>>

\* Every failure of the start is os.Exit: 2 for flags and settings it cannot use.
Fail ==
    /\ Up /\ main \in Starting \ {"watch"}
    /\ main = "device" => mode = "drive"
    /\ exit' \in CASE main = "options" -> {2} [] main = "credentials" -> {1, 2} [] OTHER -> {1}
    /\ UNCHANGED <<deviceVars, mode, main, signalled, dialed, watcher, deviceLost, inShutdown,
                   listenVars>>

\* Serve refuses a listener once Shutdown was called.
Serve ==
    /\ Up /\ main = "serve"
    /\ IF inShutdown
         THEN main' = "returned" /\ listener' = "closed"
         ELSE main' = "accepting" /\ UNCHANGED listener
    /\ UNCHANGED <<deviceVars, mode, exit, signalled, dialed, watcher, deviceLost, inShutdown,
                   acceptor, conn>>

\* Accept fails.  After a Shutdown Serve returns ErrServerClosed; before it the error of
\* a moment is retried, for ever, since the accept loop that met it has ended.
AcceptError ==
    /\ Up /\ main = "accepting" /\ AcceptStopped /\ inShutdown
    /\ main' = "returned"
    /\ UNCHANGED <<deviceVars, mode, exit, signalled, dialed, watcher, deviceLost, inShutdown,
                   listenVars>>

\* Any other error is returned as it is, and main exits without Close.
ServerFails ==
    /\ Up /\ main = "accepting" /\ acceptor = "broken" /\ ~inShutdown
    /\ exit' = 1
    /\ UNCHANGED <<deviceVars, mode, main, signalled, dialed, watcher, deviceLost, inShutdown,
                   listenVars>>

\* os.Exit(1), or the deferred Close and a return.
Returned ==
    /\ Up /\ main = "returned"
    /\ IF deviceLost THEN exit' = 1 /\ UNCHANGED main
       ELSE main' = "closing" /\ UNCHANGED exit
    /\ UNCHANGED <<deviceVars, mode, signalled, dialed, watcher, deviceLost, inShutdown, listenVars>>

CloseDevice ==
    /\ Up /\ main = "closing" /\ dialed
    /\ CloseDone \/ CloseSocket
    /\ UNCHANGED <<processVars, listenVars>>

Return ==
    /\ Up /\ main = "closing" /\ (dialed => closing = "closed")
    /\ exit' = 0
    /\ UNCHANGED <<deviceVars, mode, main, signalled, dialed, watcher, deviceLost, inShutdown,
                   listenVars>>

MainStep == Serve \/ AcceptError \/ ServerFails \/ Returned \/ CloseDevice \/ Return

----------------------------------------------------------------------------
(* the watcher *)

\* Before signal.NotifyContext a signal kills.
Signal ==
    /\ Up /\ ~signalled
    /\ IF watcher = "none" THEN exit' = Killed /\ UNCHANGED signalled
                           ELSE signalled' = TRUE /\ UNCHANGED exit
    /\ UNCHANGED <<deviceVars, mode, main, dialed, watcher, deviceLost, inShutdown, listenVars>>

WatchSignal ==
    /\ Up /\ watcher = "waiting" /\ signalled
    /\ watcher' = "shutdown"
    /\ UNCHANGED <<deviceVars, mode, main, exit, signalled, dialed, deviceLost, inShutdown, listenVars>>

\* variant: the loss is an ordinary reason to stop
WatchDeathUnasked ==
    /\ Up /\ watcher = "waiting" /\ dialed /\ Dead
    /\ watcher' = "shutdown"
    /\ UNCHANGED <<deviceVars, mode, main, exit, signalled, dialed, deviceLost, inShutdown, listenVars>>

\* Err tells a loss from a Close.
WatchDeath ==
    /\ Up /\ watcher = "waiting" /\ dialed /\ Dead
    /\ deviceLost' = readErr
    /\ watcher' = IF readErr THEN "shutdown" ELSE "done"
    /\ UNCHANGED <<deviceVars, mode, main, exit, signalled, dialed, inShutdown, listenVars>>

\* Only a listener that Serve has is closed.
Shutdown ==
    /\ Up /\ watcher = "shutdown"
    /\ watcher' = "done"
    /\ inShutdown' = TRUE
    /\ listener' = IF main = "accepting" THEN "closed" ELSE listener
    /\ UNCHANGED <<deviceVars, mode, main, exit, signalled, dialed, deviceLost, acceptor, conn>>

WatcherStep == WatchSignal \/ WatchDeath \/ Shutdown

----------------------------------------------------------------------------
(* the listener *)

Move(c, from, to) ==
    /\ Up /\ conn[c] = from
    /\ conn' = [conn EXCEPT ![c] = to]
    /\ UNCHANGED <<deviceVars, processVars, listener, acceptor>>

Connect(c) == listener = "open" /\ Move(c, "none", "backlog")

\* variant: the first byte is awaited in the accept loop itself
AcceptInline(c) ==
    /\ acceptor = "on" /\ listener = "open"
    /\ \A d \in Clients : conn[d] \notin {"classify", "ready", "redirect"}
    /\ Move(c, "backlog", "classify")

\* Each connection gets a goroutine of its own.
Accept(c) == acceptor = "on" /\ listener = "open" /\ Move(c, "backlog", "classify")

\* variant: the loop ends without closing done
AcceptEndsSilently ==
    /\ Up /\ acceptor = "on" /\ listener = "closed"
    /\ acceptor' = "off"
    /\ UNCHANGED <<deviceVars, processVars, listener, conn>>

\* Any error of the inner Accept ends the loop.
AcceptEnds ==
    /\ Up /\ acceptor = "on" /\ listener = "closed"
    /\ acceptor' = "ended"
    /\ UNCHANGED <<deviceVars, processVars, listener, conn>>

\* Among them one that would have passed: out of file descriptors, say.
AcceptFails ==
    /\ Up /\ acceptor = "on" /\ listener = "open"
    /\ acceptor' \in {"ended", "broken"}
    /\ UNCHANGED <<deviceVars, processVars, listener, conn>>

FirstByte(c) ==
    \/ c \in TLSClients /\ Move(c, "classify", "ready")
    \/ c \in PlainClients /\ Move(c, "classify", "redirect")

PeekTimeout(c) == Move(c, "classify", "closed")

\* Answered with a redirect, or not within redirectTimeout.
Redirect(c) == Move(c, "redirect", "closed")

\* The rendezvous on ready with Serve's Accept, or the end of the listener.
HandOver(c) == main = "accepting" /\ Move(c, "ready", "served")
Refuse(c) == AcceptStopped /\ Move(c, "ready", "closed")

\* serveWAMP enters the page in the registry and takes it out when it leaves.
Upgrade(c) == Move(c, "served", "session")
Leave(c) == Move(c, "session", "closed")

\* Drive loops, which only sessions have, take the events.
DriveTakes ==
    /\ Up /\ dialed /\ \E c \in Clients : conn[c] = "session"
    /\ TakeOldest
    /\ UNCHANGED <<processVars, listenVars>>

DeviceReads ==
    /\ Up /\ dialed
    /\ ReaderStep
    /\ UNCHANGED <<processVars, listenVars>>

DeviceSends ==
    /\ Up /\ dialed
    /\ DaemonGoes \/ \E ev \in Events : Receive(ev)
    /\ UNCHANGED <<processVars, listenVars>>

ConnStep(c) == Accept(c) \/ FirstByte(c) \/ Redirect(c) \/ HandOver(c) \/ Refuse(c)

Next ==
    \/ Proceed \/ Fail \/ MainStep
    \/ Signal \/ WatcherStep
    \/ AcceptEnds \/ AcceptFails
    \/ \E c \in Clients : Connect(c) \/ ConnStep(c) \/ PeekTimeout(c) \/ Upgrade(c) \/ Leave(c)
    \/ DeviceReads \/ DeviceSends \/ DriveTakes

\* Goroutines are scheduled and a start phase ends one way or the other.  No
\* deadline has to expire, nobody has to connect, speak late, leave or signal.
Fairness ==
    /\ WF_vars(Proceed \/ Fail) /\ WF_vars(MainStep)
    /\ WF_vars(WatcherStep) /\ WF_vars(AcceptEnds) /\ WF_vars(DeviceReads)
    /\ \A c \in Clients : WF_vars(ConnStep(c))

Spec == Init /\ [][Next]_vars /\ Fairness

----------------------------------------------------------------------------
TypeOK ==
    /\ DeviceTypeOK
    /\ mode \in Modes
    /\ main \in {Phases[i] : i \in 1 .. 8} \cup {"accepting", "returned", "closing"}
    /\ exit \in {Running, 0, 1, 2, Killed}
    /\ watcher \in {"none", "waiting", "shutdown", "done"}
    /\ watcher = "none" <=> main \in {Phases[i] : i \in 1 .. 5}
    /\ dialed => mode = "drive"
    /\ deviceLost => readErr /\ watcher \in {"shutdown", "done"}
    /\ listener \in {"none", "open", "closed"}
    /\ acceptor \in {"off", "on", "ended", "broken"}
    /\ listener = "none" <=> acceptor = "off"
    /\ conn \in [Clients -> ConnStates]

\* The exit code says why the service stopped, whatever came together: 0 only if it
\* was told to stop, 1 whenever the watcher had seen the daemon lost (main.go:274-303,
\* 315-323).
ExitTellsWhy ==
    /\ exit = 0 => signalled
    /\ ~Up /\ deviceLost => exit = 1

\* "Exit instead, and let the unit's Restart=always reconnect" (main.go:278-282): a
\* service that lost the daemon, or was told to stop, at any moment of its start or
\* its work, ends; no connection and no session holds it up.
StopsWhenItMust == (dialed /\ daemon = "gone") \/ signalled ~> ~Up

\* A connection that speaks is served without any deadline having to expire first,
\* whoever else is connected and says nothing (plaintext.go:25-28), for as long as
\* the accept loop runs.
SpeakersAreServed ==
    \A c \in TLSClients :
        conn[c] \in {"backlog", "classify", "ready"}
          ~> conn[c] \in {"served", "session", "closed"} \/ AcceptStopped \/ ~Up
=============================================================================
