--------------------------------- MODULE Drive ---------------------------------
(***************************************************************************)
(* Navigation: one spacenav.Client shared by every page, and per page the  *)
(* navlib.Bridge that answers its handshake and updates, the Controllers   *)
(* it makes and the runDrive goroutine each Controller gets                *)
(* (internal/server/drive.go, internal/navlib/bridge.go, controller.go).   *)
(*                                                                         *)
(* A loop is a pair <<page, n>>: the goroutine of the n-th Controller of   *)
(* that connection.  pc is its place in runDrive: a step ends where the    *)
(* goroutine next waits for the page or reads state another goroutine      *)
(* writes.  One reverse call is one step, taken when the page answers; the *)
(* page's own messages are one step each, because the WAMP read loop       *)
(* handles them inline and one at a time.                                  *)
(*                                                                         *)
(* Left out: the camera itself, the clocks behind dt, the reads whose      *)
(* errors are ignored (extents, pivot, perspective, rotatable's value is   *)
(* any), logging.  A motion stands for the deflections that shape alike:   *)
(* Rest for those inside the dead zone, Turning for those that rotate      *)
(* only; EnableTranslation stays on, and the dominant-axis toggle, which   *)
(* moves a deflection from one class to another, is a button mapped to     *)
(* "none".  stopMoving's one-second timeout is the page answering late:    *)
(* calls reach a page in the order they are made.                          *)
(***************************************************************************)
EXTENDS Spacenav, FiniteSets

CONSTANTS
    Pages,           \* connected pages
    MaxFingers,      \* buttons held down at the same time
    MaxControllers,  \* Controllers one connection may make (subscriptions after a delete)
    Turning,         \* motions that only rotate
    Action,          \* Action[b]: what button b is mapped to
    ClientTimed      \* pages that can drive frames from requestAnimationFrame

Actions == {"fit", "menu", "rotation", "none"}

ASSUME DriveAssumption ==
    /\ MaxControllers \in Nat /\ MaxFingers \in Nat
    /\ Turning \subseteq Motions \ {Rest}
    /\ Action \in [Buttons -> Actions]
    /\ ClientTimed \subseteq Pages

Loops == Pages \X (1 .. MaxControllers)
PageOf(l) == l[1]

VARIABLES
    fingers,      \* buttons held down on the device
    session,      \* per page: "open", "closed" (conn.Close ran), "over" (context cancelled)
    instance,     \* Bridge.instanceID # ""
    current,      \* Bridge.controller: its number, or 0 for nil
    made,         \* Controllers made so far
    focus,        \* Controller.focus
    clientFrames, \* Controller.clientFrames
    frameTimes,   \* a timestamp waits in Controller.frameTimes
    pc,           \* where the loop is; "none" before it starts
    moving,       \* runDrive's moving
    rotation,     \* the loop's own cfg.EnableRotation
    input,        \* the Motion of this iteration, until the camera is computed
    held,         \* the button event being applied
    announced,    \* the page's focus as it last announced it
    motion,       \* the page was told it is being navigated
    transaction,  \* a frame is open at the page
    animating,    \* the page's animation loop runs
    lateFrames,   \* frames written since the page announced blur, counted to 2
    keysDown      \* menu buttons the page saw pressed and not released

bridgeVars == <<instance, current, made>>
controllerVars == <<focus, clientFrames, frameTimes>>
loopVars == <<pc, moving, rotation, input, held>>
pageVars == <<announced, motion, transaction, animating, lateFrames, keysDown>>
userVars == <<deviceVars, fingers>>
vars == <<userVars, session, bridgeVars, controllerVars, loopVars, pageVars>>

Init ==
    /\ DeviceInit
    /\ fingers = {}
    /\ session = [p \in Pages |-> "open"]
    /\ instance = [p \in Pages |-> FALSE]
    /\ current = [p \in Pages |-> 0]
    /\ made = [p \in Pages |-> 0]
    /\ focus = [l \in Loops |-> FALSE]
    /\ clientFrames = [l \in Loops |-> FALSE]
    /\ frameTimes = [l \in Loops |-> FALSE]
    /\ pc = [l \in Loops |-> "none"]
    /\ moving = [l \in Loops |-> FALSE]
    /\ rotation = [l \in Loops |-> TRUE]
    /\ input = [l \in Loops |-> Rest]
    /\ held = [l \in Loops |-> NoEvent]
    /\ announced = [p \in Pages |-> FALSE]
    /\ motion = [p \in Pages |-> FALSE]
    /\ transaction = [p \in Pages |-> FALSE]
    /\ animating = [p \in Pages |-> FALSE]
    /\ lateFrames = [p \in Pages |-> 0]
    /\ keysDown = [p \in Pages |-> {}]

Open(p) == session[p] = "open"
Over(p) == session[p] = "over"
Goto(l, place) == pc' = [pc EXCEPT ![l] = place]
Set(f, x, v) == [f EXCEPT ![x] = v]

----------------------------------------------------------------------------
(* What a page sends, as the WAMP read loop handles it (bridge.go).         *)

\* create 3dcontroller, after create 3dmouse.
CreateController(p) ==
    /\ Open(p)
    /\ ~instance[p]
    /\ instance' = Set(instance, p, TRUE)
    /\ UNCHANGED <<userVars, session, current, made, controllerVars, loopVars, pageVars>>

\* SUBSCRIBE: a fresh Controller, and OnReady starts its drive loop.
Subscribe(p) ==
    LET n == made[p] + 1
        l == <<p, n>>
    IN  /\ Open(p)
        /\ instance[p]
        /\ current[p] = 0
        /\ n <= MaxControllers
        /\ made' = Set(made, p, n)
        /\ current' = Set(current, p, n)
        /\ Goto(l, "select")
        /\ UNCHANGED <<userVars, session, instance, controllerVars, moving, rotation,
                       input, held, pageVars>>

\* delete: the Bridge forgets the Controller; its drive loop is not told.
Delete(p) ==
    /\ Open(p)
    /\ current[p] # 0
    /\ current' = Set(current, p, 0)
    /\ UNCHANGED <<userVars, session, instance, made, controllerVars, loopVars, pageVars>>

\* update {focus}: it reaches the current Controller, if there is one.
AnnounceFocus(p, on) ==
    /\ Open(p)
    /\ announced[p] # on
    /\ announced' = Set(announced, p, on)
    /\ focus' = IF current[p] = 0 THEN focus ELSE Set(focus, <<p, current[p]>>, on)
    /\ lateFrames' = Set(lateFrames, p, 0)
    /\ UNCHANGED <<userVars, session, bridgeVars, clientFrames, frameTimes, loopVars,
                   motion, transaction, animating, keysDown>>

\* update {frame: {timingSource}}
TakeFrameTiming(p, on) ==
    /\ Open(p)
    /\ p \in ClientTimed
    /\ current[p] # 0
    /\ clientFrames[<<p, current[p]>>] # on
    /\ clientFrames' = Set(clientFrames, <<p, current[p]>>, on)
    /\ UNCHANGED <<userVars, session, bridgeVars, focus, frameTimes, loopVars, pageVars>>

\* update {frame: {time}}: notifyFrameTime keeps the newest and never blocks.
FrameTime(p) ==
    /\ Open(p)
    /\ animating[p]
    /\ current[p] # 0
    /\ frameTimes' = Set(frameTimes, <<p, current[p]>>, TRUE)
    /\ UNCHANGED <<userVars, session, bridgeVars, focus, clientFrames, loopVars, pageVars>>

\* The page gives its animation up: an update took more than 60 ms, or the tab
\* went to the background.  The {motion: false} it then sends is only acknowledged.
AbandonFrames(p) ==
    /\ Open(p)
    /\ animating[p]
    /\ animating' = Set(animating, p, FALSE)
    /\ UNCHANGED <<userVars, session, bridgeVars, controllerVars, loopVars,
                   announced, motion, transaction, lateFrames, keysDown>>

\* The socket closes; serveWAMP closes its end and the context is cancelled after.
Disconnect(p) ==
    /\ Open(p)
    /\ session' = Set(session, p, "closed")
    /\ UNCHANGED <<userVars, bridgeVars, controllerVars, loopVars, pageVars>>

EndSession(p) ==
    /\ session[p] = "closed"
    /\ session' = Set(session, p, "over")
    /\ UNCHANGED <<userVars, bridgeVars, controllerVars, loopVars, pageVars>>

PageStep(p) ==
    \/ CreateController(p) \/ Subscribe(p) \/ Delete(p)
    \/ \E on \in BOOLEAN : AnnounceFocus(p, on) \/ TakeFrameTiming(p, on)
    \/ FrameTime(p) \/ AbandonFrames(p)
    \/ Disconnect(p)

----------------------------------------------------------------------------
(* runDrive, drive.go:111-285. *)

\* variant: continue without stopMoving
JustContinue(l) == UNCHANGED moving /\ Goto(l, "select")

\* stopMoving before continue, and as the deferred call of a return.
Halt(l) ==
    /\ moving' = Set(moving, l, FALSE)
    /\ Goto(l, IF moving[l] THEN "stop" ELSE "select")

\* variant: the deferred stopMoving is missing
JustReturn(l) == UNCHANGED moving /\ Goto(l, "dead")

Leave(l) ==
    /\ moving' = Set(moving, l, FALSE)
    /\ Goto(l, IF moving[l] THEN "lastStop" ELSE "dead")

\* variant: the context is only looked at in a burst
SessionOverInBurst(l) == Over(PageOf(l)) /\ moving[l]
SessionOver(l) == Over(PageOf(l))

ContextDone(l) ==
    /\ pc[l] = "select"
    /\ SessionOver(l)
    /\ Leave(l)
    /\ UNCHANGED <<userVars, session, bridgeVars, controllerVars, rotation, input, held,
                   pageVars>>

FrameArrives(l) ==
    /\ pc[l] = "select"
    /\ frameTimes[l]
    /\ frameTimes' = Set(frameTimes, l, FALSE)
    /\ Goto(l, "buttons")
    /\ UNCHANGED <<userVars, session, bridgeVars, focus, clientFrames, moving, rotation,
                   input, held, pageVars>>

\* variant: a client-timed page is never stepped by the ticker
TickYieldsAlways(l) == clientFrames[l]

\* While the client supplies frames the ticker stands back, but only in a burst.
TickYields(l) == clientFrames[l] /\ moving[l]

Tick(l) ==
    /\ pc[l] = "select"
    /\ ~TickYields(l)
    /\ Goto(l, "buttons")
    /\ UNCHANGED <<userVars, session, bridgeVars, controllerVars, moving, rotation, input,
                   held, pageVars>>

\* variant: a menu button is applied, like the others, on its press alone
IsKeyOnPress(act, ev) == act = "menu" /\ ev.pressed
IsKey(act, ev) == act = "menu"

\* handleButtons and applyButton: every loop drains the one channel there is.
TakeEvent(l) ==
    /\ pc[l] = "buttons"
    /\ TakeOldest
    /\ LET ev == Head(events)
           act == IF ev.kind = "button" THEN Action[ev.id] ELSE "none"
       IN  CASE act = "fit" /\ ev.pressed ->
                  Goto(l, "fit") /\ UNCHANGED <<rotation, held>>
             [] IsKey(act, ev) ->
                  Goto(l, "key") /\ held' = Set(held, l, ev) /\ UNCHANGED rotation
             [] act = "rotation" /\ ev.pressed ->
                  rotation' = Set(rotation, l, ~rotation[l]) /\ UNCHANGED <<pc, held>>
             [] OTHER -> UNCHANGED <<pc, rotation, held>>
    /\ UNCHANGED <<fingers, session, bridgeVars, controllerVars, moving, input, pageVars>>

\* The channel is empty, or closed: handleButtons returns, and only it.
NoEventLeft(l) ==
    /\ pc[l] = "buttons"
    /\ events = <<>>
    /\ Goto(l, "focus")
    /\ UNCHANGED <<userVars, session, bridgeVars, controllerVars, moving, rotation, input,
                   held, pageVars>>

\* doFit: reads and writes of its own; whatever fails, the drain goes on.
Fit(l) ==
    /\ pc[l] = "fit"
    /\ Goto(l, "buttons")
    /\ UNCHANGED <<userVars, session, bridgeVars, controllerVars, moving, rotation, input,
                   held, pageVars>>

\* events.keyPress or events.keyRelease
SendKey(l) ==
    LET p == PageOf(l)
        down == IF held[l].pressed THEN keysDown[p] \cup {held[l].id}
                                   ELSE keysDown[p] \ {held[l].id}
    IN  /\ pc[l] = "key"
        /\ keysDown' = IF Open(p) THEN Set(keysDown, p, down) ELSE keysDown
        /\ held' = Set(held, l, NoEvent)
        /\ Goto(l, "buttons")
        /\ UNCHANGED <<userVars, session, bridgeVars, controllerVars, moving, rotation,
                       input, announced, motion, transaction, animating, lateFrames>>

\* variant: the focus of the page is not asked for
FocusIgnored(l) == TRUE
HasFocus(l) == focus[l]

CheckFocus(l) ==
    /\ pc[l] = "focus"
    /\ IF HasFocus(l) THEN Goto(l, "input") /\ UNCHANGED moving ELSE Halt(l)
    /\ UNCHANGED <<userVars, session, bridgeVars, controllerVars, rotation, input, held,
                   pageVars>>

\* State and ShapeIsZero
CheckInput(l) ==
    /\ pc[l] = "input"
    /\ input' = Set(input, l, latest)
    /\ IF latest = Rest THEN Halt(l) ELSE Goto(l, "read") /\ UNCHANGED moving
    /\ UNCHANGED <<userVars, session, bridgeVars, controllerVars, rotation, held, pageVars>>

\* Step moves the camera unless the motion only rotates and rotation is off or
\* the view is not rotatable.
Moved(l, rotatable) == input[l] \in Turning => rotation[l] /\ rotatable

\* The reads succeed; the scene goes through Step.
ReadScene(l) ==
    /\ pc[l] = "read"
    /\ Open(PageOf(l))
    /\ \E rotatable \in BOOLEAN :
         IF ~Moved(l, rotatable) THEN Halt(l)
         ELSE /\ moving' = Set(moving, l, TRUE)
              /\ Goto(l, IF moving[l] THEN "begin" ELSE "motion")
    /\ input' = Set(input, l, Rest)
    /\ UNCHANGED <<userVars, session, bridgeVars, controllerVars, rotation, held, pageVars>>

\* view.affine cannot be read: null, CALLERROR, or the session ended.
ReadFails(l) ==
    /\ pc[l] = "read"
    /\ Leave(l)
    /\ input' = Set(input, l, Rest)
    /\ UNCHANGED <<userVars, session, bridgeVars, controllerVars, rotation, held, pageVars>>

\* SetMotion(ctx, true); its errors are ignored.
StartMotion(l) ==
    LET p == PageOf(l)
    IN  /\ pc[l] = "motion"
        /\ motion' = IF Open(p) THEN Set(motion, p, TRUE) ELSE motion
        /\ animating' = IF Open(p) THEN Set(animating, p, p \in ClientTimed) ELSE animating
        /\ Goto(l, "begin")
        /\ UNCHANGED <<userVars, session, bridgeVars, controllerVars, moving, rotation,
                       input, held, announced, transaction, lateFrames, keysDown>>

\* BeginTransaction; only a cancelled context stops the loop.
BeginTransaction(l) ==
    LET p == PageOf(l)
    IN  /\ pc[l] = "begin"
        /\ IF Over(p) THEN Leave(l) ELSE Goto(l, "write") /\ UNCHANGED moving
        /\ transaction' = IF Open(p) THEN Set(transaction, p, TRUE) ELSE transaction
        /\ UNCHANGED <<userVars, session, bridgeVars, controllerVars, rotation, input, held,
                       announced, motion, animating, lateFrames, keysDown>>

\* WriteBox and WriteMatrix4.
WriteView(l) ==
    LET p == PageOf(l)
        late == IF announced[p] \/ lateFrames[p] = 2 THEN lateFrames[p] ELSE lateFrames[p] + 1
    IN  /\ pc[l] = "write"
        /\ Open(p)
        /\ lateFrames' = Set(lateFrames, p, late)
        /\ Goto(l, "end")
        /\ UNCHANGED <<userVars, session, bridgeVars, controllerVars, moving, rotation,
                       input, held, announced, motion, transaction, animating, keysDown>>

\* The page answers CALLERROR, or the session ended: return, the frame left open.
WriteFails(l) ==
    /\ pc[l] = "write"
    /\ Leave(l)
    /\ UNCHANGED <<userVars, session, bridgeVars, controllerVars, rotation, input, held,
                   pageVars>>

\* variant: the frame is closed only while the page has focus
EndTransactionSometimes(l) ==
    LET p == PageOf(l)
    IN  /\ pc[l] = "end"
        /\ IF Over(p) THEN Leave(l) ELSE Goto(l, "select") /\ UNCHANGED moving
        /\ transaction' = IF Open(p) /\ focus[l]
                            THEN Set(transaction, p, FALSE) ELSE transaction
        /\ UNCHANGED <<userVars, session, bridgeVars, controllerVars, rotation, input, held,
                       announced, motion, animating, lateFrames, keysDown>>

EndTransaction(l) ==
    LET p == PageOf(l)
    IN  /\ pc[l] = "end"
        /\ IF Over(p) THEN Leave(l) ELSE Goto(l, "select") /\ UNCHANGED moving
        /\ transaction' = IF Open(p) THEN Set(transaction, p, FALSE) ELSE transaction
        /\ UNCHANGED <<userVars, session, bridgeVars, controllerVars, rotation, input, held,
                       announced, motion, animating, lateFrames, keysDown>>

\* The SetMotion(false) of stopMoving, on its own context.
StopMotion(l) ==
    LET p == PageOf(l)
    IN  /\ pc[l] \in {"stop", "lastStop"}
        /\ motion' = IF Open(p) THEN Set(motion, p, FALSE) ELSE motion
        /\ animating' = IF Open(p) THEN Set(animating, p, FALSE) ELSE animating
        /\ Goto(l, IF pc[l] = "stop" THEN "select" ELSE "dead")
        /\ UNCHANGED <<userVars, session, bridgeVars, controllerVars, moving, rotation,
                       input, held, announced, transaction, lateFrames, keysDown>>

LoopStep(l) ==
    \/ ContextDone(l) \/ FrameArrives(l) \/ Tick(l)
    \/ TakeEvent(l) \/ NoEventLeft(l) \/ Fit(l) \/ SendKey(l)
    \/ CheckFocus(l) \/ CheckInput(l) \/ ReadScene(l) \/ ReadFails(l)
    \/ StartMotion(l) \/ BeginTransaction(l) \/ WriteView(l) \/ WriteFails(l)
    \/ EndTransaction(l) \/ StopMotion(l)

----------------------------------------------------------------------------
(* The device.  spacenavd reports a motion, or a button, when it changes. *)

Deflect(m) ==
    /\ m # latest
    /\ Receive(MotionEvent(m))
    /\ UNCHANGED fingers

Press(b, down) ==
    /\ (b \in fingers) # down
    /\ down => Cardinality(fingers) < MaxFingers
    /\ Receive(ButtonEvent(b, down))
    /\ fingers' = IF down THEN fingers \cup {b} ELSE fingers \ {b}

ReaderGoes == ReaderStep /\ UNCHANGED <<fingers, session, bridgeVars, controllerVars, loopVars, pageVars>>

DeviceStep ==
    /\ \/ \E m \in Motions : Deflect(m)
       \/ \E b \in Buttons, down \in BOOLEAN : Press(b, down)
       \/ DaemonGoes /\ UNCHANGED fingers
    /\ UNCHANGED <<session, bridgeVars, controllerVars, loopVars, pageVars>>

Next ==
    \/ \E p \in Pages : PageStep(p) \/ EndSession(p)
    \/ \E l \in Loops : LoopStep(l)
    \/ DeviceStep
    \/ ReaderGoes

\* The ticker fires, goroutines are scheduled, a page answers the calls it gets
\* and reports frames while it animates.  SF on the empty channel: draining takes
\* microseconds, so motion alone does not refill it for ever.  SF on ctx.Done: the
\* ticker fires 60 times a second, and select picks among the ready cases at random.
Fairness ==
    /\ \A l \in Loops : WF_vars(LoopStep(l)) /\ SF_vars(NoEventLeft(l)) /\ SF_vars(ContextDone(l))
    /\ \A p \in Pages : WF_vars(EndSession(p)) /\ WF_vars(FrameTime(p))
    /\ WF_vars(ReaderGoes)

Spec == Init /\ [][Next]_vars /\ Fairness

----------------------------------------------------------------------------
TypeOK ==
    /\ DeviceTypeOK
    /\ fingers \subseteq Buttons
    /\ session \in [Pages -> {"open", "closed", "over"}]
    /\ instance \in [Pages -> BOOLEAN]
    /\ made \in [Pages -> 0 .. MaxControllers]
    /\ current \in [Pages -> 0 .. MaxControllers]
    /\ \A p \in Pages : current[p] \in {0, made[p]}
    /\ focus \in [Loops -> BOOLEAN]
    /\ clientFrames \in [Loops -> BOOLEAN] /\ frameTimes \in [Loops -> BOOLEAN]
    /\ pc \in [Loops -> {"none", "select", "buttons", "fit", "key", "focus", "input", "read",
                         "motion", "begin", "write", "end", "stop", "lastStop", "dead"}]
    /\ moving \in [Loops -> BOOLEAN] /\ rotation \in [Loops -> BOOLEAN]
    /\ input \in [Loops -> Motions]
    /\ held \in [Loops -> Events \cup {NoEvent}]
    /\ announced \in [Pages -> BOOLEAN]
    /\ motion \in [Pages -> BOOLEAN] /\ transaction \in [Pages -> BOOLEAN]
    /\ animating \in [Pages -> BOOLEAN]
    /\ lateFrames \in [Pages -> 0 .. 2]
    /\ keysDown \in [Pages -> SUBSET Buttons]

\* The pages that one loop at most has ever driven.
DrivenByOne(p) == Open(p) /\ made[p] = 1
LoopOf(p) == <<p, made[p]>>
Alive(l) == pc[l] \notin {"none", "lastStop", "dead"}

\* The page's idea of being navigated is the loop's, except while the call that
\* changes it is under way; a loop that returned, on whichever path, left no page
\* in motion (stopMoving and its defer, drive.go:135-146, 251-256).
MotionMirrorsLoop ==
    \A p \in Pages :
        LET l == LoopOf(p)
        IN  DrivenByOne(p) /\ pc[l] \notin {"motion", "stop", "lastStop"}
              => motion[p] = (moving[l] /\ pc[l] # "dead")

\* "Pass a monotonically increasing counter; EndTransaction closes it and cues
\* the page to redraw" (controller.go:219-228): while its loop lives, a frame is open
\* at the page exactly when the loop is between the two calls (drive.go:258-283).  A loop
\* that dies between them leaves its frame open, of which nothing is said here.
FramesAreBracketed ==
    \A p \in Pages :
        DrivenByOne(p) /\ Alive(LoopOf(p))
          => transaction[p] = (pc[LoopOf(p)] \in {"write", "end"})

\* A page that announced blur is navigated by at most the one frame that was already
\* past the focus check (drive.go:184-189, bridge.go:170-175).  Fits are another
\* matter: handleButtons runs before the check.
OneFrameAfterBlur ==
    \A p \in Pages : DrivenByOne(p) /\ current[p] # 0 => lateFrames[p] <= 1

\* An edge of button b that no page has been told of yet.
EdgeUnderWay(l, b, down) ==
    ButtonEvent(b, down) \in {events[i] : i \in 1 .. Len(events)} \cup {emitting, held[l]}

\* A key that is down at the page, or on its way down, will come up: the finger
\* still holds the button or its release is on its way.
WillComeUp(l, b) ==
    b \in keysDown[PageOf(l)] \/ EdgeUnderWay(l, b, TRUE)
      => b \in fingers \/ EdgeUnderWay(l, b, FALSE)

\* The one loop of the one page connected tells its page of both edges of a menu
\* button, whatever it is busy with when they come and whatever fits and frames it
\* does between (drive.go:287-325).  No step strands a key at the page, except the
\* discarding of the oldest event (spacenav.go:264-271).
KeysFollowFingers ==
    [][\A l \in Loops : \A b \in Buttons :
         LET p == PageOf(l)
         IN  /\ Pages = {p} /\ Action[b] = "menu"
             /\ DrivenByOne(p) /\ Alive(l) /\ WillComeUp(l, b)
             /\ reader # "full"
             => WillComeUp(l, b)']_vars

\* What must end a burst at p, a page that still has its Controller.
Ends(p, reason) == Open(p) /\ current[p] # 0 /\ reason
Centred(p) == Ends(p, latest = Rest)
Blurred(p) == Ends(p, ~focus[LoopOf(p)])

\* The page still reports the frames it promised.
Animated(p) == clientFrames[LoopOf(p)] => animating[p]

\* A burst ends once the puck is centred or the page loses focus, even at a page
\* whose animation frames are all that steps the loop (drive.go:170-176, 186-195).
BurstEnds ==
    \A p \in Pages :
        /\ motion[p] /\ Centred(p) /\ Animated(p)
             ~> ~motion[p] \/ ~Centred(p) \/ ~Animated(p)
        /\ motion[p] /\ Blurred(p) /\ Animated(p)
             ~> ~motion[p] \/ ~Blurred(p) \/ ~Animated(p)

Deflected(p) ==
    /\ Open(p)
    /\ current[p] # 0 /\ Alive(LoopOf(p)) /\ focus[LoopOf(p)]
    /\ latest \notin Turning \cup {Rest}

\* "It still runs while stopped, to notice fresh input" (drive.go:171-174): a
\* deflection at a focused page starts a burst, also at a page that times its own
\* frames and sends none until it is told of motion.  Like BurstEnds it is stated for
\* a device without buttons: a drain whose fits take longer than the next press
\* comes never ends (drive.go:287-304).
BurstStarts ==
    \A p \in Pages : Deflected(p) ~> motion[p] \/ ~Deflected(p)

\* Whatever a loop is waiting for when its session ends, also one whose Controller
\* was deleted long before, it returns: no session leaves a goroutine behind that
\* takes the button events of the pages still connected (drive.go:151-153, 209-216,
\* 258-283).
LoopsEndWithTheSession ==
    \A l \in Loops : Over(PageOf(l)) /\ pc[l] # "none" ~> pc[l] = "dead"

----------------------------------------------------------------------------
(* What comments and documents say, and the code does not do. *)

\* "brackets a motion burst" (docs/01-architecture-and-data-model.md:80), whatever
\* became of the page's animation.
BurstEndsUnconditionally ==
    \A p \in Pages :
        LET timed == Centred(p) /\ clientFrames[LoopOf(p)]
        IN  motion[p] /\ timed ~> ~motion[p] \/ ~timed
=============================================================================
