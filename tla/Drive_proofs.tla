------------------------------ MODULE Drive_proofs ------------------------------
(***************************************************************************)
(* Proofs about navigation, for any pages, loops, buttons and motions.     *)
(*                                                                         *)
(*   Typed  TypeOK; a loop exists once its Controller was made, and holds  *)
(*          an event exactly while it tells the page of a menu button.     *)
(*   Tracks what a page was told of motion, frames and late frames follows *)
(*          from where its one loop is, and what it announced from focus.  *)
(*   InPairs  a press on its way has its finger down or its release behind *)
(*          it, so that the page is not left with the press alone.         *)
(***************************************************************************)
EXTENDS Drive, Spacenav_proofs

HoldsKeys ==
    \A l \in Loops :
        /\ pc[l] = "key" <=> held[l] # NoEvent
        /\ held[l] # NoEvent => held[l].kind = "button"

Starts ==
    \A l \in Loops :
        /\ pc[l] = "none" <=> made[PageOf(l)] < l[2]
        /\ pc[l] = "none" => ~moving[l] /\ ~focus[l]

Typed == TypeOK /\ HoldsKeys /\ Starts

Places == {"none", "select", "buttons", "fit", "key", "focus", "input", "read", "motion",
           "begin", "write", "end", "stop", "lastStop", "dead"}

\* TypeOK in parts: the device, the sessions and Bridges, the pages, the loops.
UserTypeOK == DeviceTypeOK /\ fingers \subseteq Buttons
BridgeTypeOK ==
    /\ session \in [Pages -> {"open", "closed", "over"}]
    /\ instance \in [Pages -> BOOLEAN]
    /\ made \in [Pages -> 0 .. MaxControllers]
    /\ current \in [Pages -> 0 .. MaxControllers]
    /\ \A p \in Pages : current[p] \in {0, made[p]}
ControllerTypeOK ==
    /\ focus \in [Loops -> BOOLEAN]
    /\ clientFrames \in [Loops -> BOOLEAN] /\ frameTimes \in [Loops -> BOOLEAN]
LoopTypeOK ==
    /\ pc \in [Loops -> Places]
    /\ moving \in [Loops -> BOOLEAN] /\ rotation \in [Loops -> BOOLEAN]
    /\ input \in [Loops -> Motions]
    /\ held \in [Loops -> Events \cup {NoEvent}]
PageTypeOK ==
    /\ announced \in [Pages -> BOOLEAN]
    /\ motion \in [Pages -> BOOLEAN] /\ transaction \in [Pages -> BOOLEAN]
    /\ animating \in [Pages -> BOOLEAN]
    /\ lateFrames \in [Pages -> 0 .. 2]
    /\ keysDown \in [Pages -> SUBSET Buttons]

LEMMA TypeParts ==
  TypeOK <=> UserTypeOK /\ BridgeTypeOK /\ ControllerTypeOK /\ LoopTypeOK /\ PageTypeOK
  BY Zenon DEF TypeOK, UserTypeOK, BridgeTypeOK, ControllerTypeOK, LoopTypeOK, PageTypeOK, Places

LEMMA TypePartsNext ==
  TypeOK' <=> UserTypeOK' /\ BridgeTypeOK' /\ ControllerTypeOK' /\ LoopTypeOK' /\ PageTypeOK'
  BY Zenon DEF TypeOK, UserTypeOK, BridgeTypeOK, ControllerTypeOK, LoopTypeOK, PageTypeOK, Places

LEMMA LoopPages == \A l \in Loops : PageOf(l) \in Pages /\ l = <<PageOf(l), l[2]>>
                                    /\ l[2] \in 1 .. MaxControllers
  BY DEF Loops, PageOf

LEMMA TypedInit == Init => Typed
<1> SUFFICES ASSUME Init PROVE Typed
  OBVIOUS
<1> USE DEF Init
<1>1. UserTypeOK
  BY DeviceTypedInit DEF UserTypeOK
<1>2. BridgeTypeOK
  BY DriveAssumption DEF BridgeTypeOK
<1>3. ControllerTypeOK
  BY DEF ControllerTypeOK
<1>4. LoopTypeOK
  BY SpacenavAssumption DEF LoopTypeOK, Places
<1>5. PageTypeOK
  BY DEF PageTypeOK
<1>6. HoldsKeys
  BY DEF HoldsKeys
<1>7. Starts
  BY LoopPages DEF Starts
<1>8. QED
  BY <1>1, <1>2, <1>3, <1>4, <1>5, <1>6, <1>7, TypeParts DEF Typed

----------------------------------------------------------------------------
(* What each kind of step leaves alone *)

LEMMA PageStepFrame ==
  ASSUME NEW p \in Pages, PageStep(p) \/ EndSession(p)
  PROVE  UNCHANGED <<deviceVars, fingers, moving, rotation, input, held>>
  BY DEF PageStep, EndSession, CreateController, Subscribe, Delete, AnnounceFocus,
         TakeFrameTiming, FrameTime, AbandonFrames, Disconnect, userVars, loopVars

LEMMA LoopStepFrame ==
  ASSUME NEW l \in Loops, LoopStep(l)
  PROVE  /\ UNCHANGED <<fingers, session, bridgeVars, focus, clientFrames, announced>>
         /\ TakeOldest \/ UNCHANGED deviceVars
  BY DEF LoopStep, ContextDone, FrameArrives, Tick, TakeEvent, NoEventLeft, Fit, SendKey,
         CheckFocus, CheckInput, ReadScene, ReadFails, StartMotion, BeginTransaction, WriteView,
         WriteFails, EndTransaction, StopMotion, userVars, controllerVars, pageVars

LEMMA UserStepFrame ==
  ASSUME DeviceStep \/ ReaderGoes
  PROVE  UNCHANGED <<session, bridgeVars, controllerVars, loopVars, pageVars>>
  BY DEF DeviceStep, ReaderGoes

LEMMA UserTypedNext ==
  ASSUME UserTypeOK, Next
  PROVE  UserTypeOK'
<1>1. CASE DeviceStep
  <2>1. DeviceAction
    BY <1>1, EventsTyped DEF DeviceStep, Deflect, Press, DeviceAction
  <2>2. fingers' \subseteq Buttons
    BY <1>1 DEF DeviceStep, Deflect, Press, UserTypeOK
  <2>3. QED BY <2>1, <2>2, DeviceTypedNext DEF UserTypeOK
<1>2. CASE ReaderGoes
  BY <1>2, DeviceTypedNext DEF ReaderGoes, UserTypeOK, DeviceAction
<1>3. ASSUME UNCHANGED fingers, TakeOldest \/ UNCHANGED deviceVars
      PROVE  UserTypeOK'
  <2>1. CASE TakeOldest
    BY <1>3, <2>1, DeviceTypedNext DEF UserTypeOK, DeviceAction
  <2>2. CASE UNCHANGED deviceVars
    BY <1>3, <2>2 DEF UserTypeOK, deviceVars, DeviceTypeOK
  <2>3. QED BY <1>3, <2>1, <2>2
<1>4. QED
  BY <1>1, <1>2, <1>3, PageStepFrame, LoopStepFrame DEF Next

LEMMA PageStepTyped ==
  ASSUME Typed, NEW p \in Pages, PageStep(p) \/ EndSession(p)
  PROVE  BridgeTypeOK' /\ ControllerTypeOK' /\ LoopTypeOK' /\ PageTypeOK' /\ HoldsKeys' /\ Starts'
<1> DEFINE Goal == BridgeTypeOK /\ ControllerTypeOK /\ LoopTypeOK /\ PageTypeOK /\ HoldsKeys
                     /\ Starts
<1>a. /\ BridgeTypeOK /\ ControllerTypeOK /\ LoopTypeOK /\ PageTypeOK /\ HoldsKeys /\ Starts
      /\ \A n \in 1 .. MaxControllers : <<p, n>> \in Loops /\ PageOf(<<p, n>>) = p
      /\ MaxControllers \in Nat
  BY TypeParts, DriveAssumption DEF Typed, Loops, PageOf
<1>b. current[p] # 0 => /\ <<p, current[p]>> \in Loops /\ pc[<<p, current[p]>>] # "none"
                        /\ PageOf(<<p, current[p]>>) = p
  BY <1>a DEF BridgeTypeOK, Starts
<1> USE <1>a DEF BridgeTypeOK, ControllerTypeOK, LoopTypeOK, PageTypeOK, HoldsKeys, Set,
                 bridgeVars, controllerVars, loopVars, pageVars, Starts
<1>1. CASE CreateController(p)
  BY <1>1 DEF CreateController
<1>2. CASE Subscribe(p)
  <2> DEFINE k == <<p, made[p] + 1>>
  <2>1. /\ made[p] + 1 \in 1 .. MaxControllers /\ k \in Loops /\ pc[k] = "none"
        /\ made' = Set(made, p, made[p] + 1) /\ current' = Set(current, p, made[p] + 1)
        /\ pc' = [pc EXCEPT ![k] = "select"]
        /\ UNCHANGED <<session, instance, focus, clientFrames, frameTimes, moving, rotation, input,
                       held, pageVars>>
    BY <1>2 DEF Subscribe, Goto
  <2>2. BridgeTypeOK'
    BY <2>1
  <2>3. ControllerTypeOK' /\ PageTypeOK'
    BY <2>1
  <2>4. pc' \in [Loops -> Places] /\ pc'[k] = "select" /\ \A l \in Loops \ {k} : pc'[l] = pc[l]
    BY <2>1 DEF Places
  <2>5. LoopTypeOK' /\ HoldsKeys'
    BY <2>1, <2>4
  <2>6. Starts'
    <3>1. \A l \in Loops \ {k} : (made[PageOf(l)] < l[2])' <=> made[PageOf(l)] < l[2]
      <4> SUFFICES ASSUME NEW l \in Loops \ {k}
                   PROVE  (made[PageOf(l)] < l[2])' <=> made[PageOf(l)] < l[2]
        OBVIOUS
      <4>1. PageOf(l) \in Pages /\ l = <<PageOf(l), l[2]>> /\ l[2] \in Nat
        BY LoopPages
      <4>2. CASE PageOf(l) = p
        <5>1. l[2] # made[p] + 1
          BY <4>1, <4>2
        <5>2. made'[p] = made[p] + 1 /\ made[p] \in Nat
          BY <2>1
        <5>3. QED BY <4>1, <4>2, <5>1, <5>2
      <4>3. CASE PageOf(l) # p
        <5>1. made'[PageOf(l)] = made[PageOf(l)]
          BY <2>1, <4>1, <4>3
        <5>2. QED BY <5>1
      <4>4. QED BY <4>2, <4>3
    <3>2. made'[p] = made[p] + 1 /\ k[2] = made[p] + 1 /\ PageOf(k) = p
      BY <2>1
    <3>3. QED BY <2>1, <2>4, <3>1, <3>2
  <2>7. QED BY <2>2, <2>3, <2>5, <2>6
<1>3. CASE Delete(p)
  BY <1>3 DEF Delete
<1>4. ASSUME NEW on \in BOOLEAN, AnnounceFocus(p, on)
      PROVE  Goal'
  BY <1>4, <1>b DEF AnnounceFocus
<1>5. ASSUME NEW on \in BOOLEAN, TakeFrameTiming(p, on)
      PROVE  Goal'
  BY <1>5, <1>b DEF TakeFrameTiming
<1>6. CASE FrameTime(p)
  BY <1>6, <1>b DEF FrameTime
<1>7. CASE AbandonFrames(p)
  BY <1>7 DEF AbandonFrames
<1>8. CASE Disconnect(p) \/ EndSession(p)
  BY <1>8, SMTT(30) DEF Disconnect, EndSession
<1>9. QED
  BY <1>1, <1>2, <1>3, <1>4, <1>5, <1>6, <1>7, <1>8 DEF PageStep

\* Where a loop that goes on may find itself.
LEMMA LoopStepPlaces ==
  ASSUME Typed, NEW l \in Loops, LoopStep(l)
  PROVE  /\ pc[l] # "none" /\ \E place \in Places \ {"none"} : Goto(l, place)
         /\ UNCHANGED moving \/ \E v \in BOOLEAN : moving' = Set(moving, l, v)
         /\ UNCHANGED rotation \/ \E v \in BOOLEAN : rotation' = Set(rotation, l, v)
         /\ UNCHANGED input \/ \E v \in Motions : input' = Set(input, l, v)
         /\ UNCHANGED frameTimes \/ \E v \in BOOLEAN : frameTimes' = Set(frameTimes, l, v)
<1>a. /\ LoopTypeOK /\ latest \in Motions /\ Rest \in Motions
  BY TypeParts, SpacenavAssumption DEF Typed, UserTypeOK, DeviceTypeOK
<1>b. UNCHANGED pc /\ pc[l] = "buttons" => Goto(l, "buttons")
  BY <1>a DEF Goto, LoopTypeOK
<1> USE <1>a, <1>b DEF LoopTypeOK, Places, controllerVars, loopVars
<1>1. CASE ContextDone(l)
  BY <1>1 DEF ContextDone, Leave
<1>2. CASE FrameArrives(l)
  BY <1>2 DEF FrameArrives
<1>3. CASE Tick(l)
  BY <1>3 DEF Tick
<1>4. CASE TakeEvent(l)
  BY <1>4 DEF TakeEvent
<1>5. CASE NoEventLeft(l)
  BY <1>5 DEF NoEventLeft
<1>6. CASE Fit(l)
  BY <1>6 DEF Fit
<1>7. CASE SendKey(l)
  BY <1>7 DEF SendKey
<1>8. CASE CheckFocus(l)
  BY <1>8 DEF CheckFocus, Halt
<1>9. CASE CheckInput(l)
  BY <1>9 DEF CheckInput, Halt
<1>10. CASE ReadScene(l)
  BY <1>10 DEF ReadScene, Halt
<1>11. CASE ReadFails(l)
  BY <1>11 DEF ReadFails, Leave
<1>12. CASE StartMotion(l)
  BY <1>12 DEF StartMotion
<1>13. CASE BeginTransaction(l)
  BY <1>13 DEF BeginTransaction, Leave
<1>14. CASE WriteView(l)
  BY <1>14 DEF WriteView
<1>15. CASE WriteFails(l)
  BY <1>15 DEF WriteFails, Leave
<1>16. CASE EndTransaction(l)
  BY <1>16 DEF EndTransaction, Leave
<1>17. CASE StopMotion(l)
  BY <1>17 DEF StopMotion
<1>18. QED
  BY <1>1, <1>2, <1>3, <1>4, <1>5, <1>6, <1>7, <1>8, <1>9, <1>10, <1>11, <1>12, <1>13, <1>14,
     <1>15, <1>16, <1>17 DEF LoopStep

\* The one event a loop may hold is the button event it took for its page.
LEMMA LoopStepHolds ==
  ASSUME Typed, NEW l \in Loops, LoopStep(l)
  PROVE  /\ \/ UNCHANGED held /\ (pc[l] = "key" <=> pc'[l] = "key")
            \/ /\ pc[l] = "key" /\ pc'[l] # "key" /\ held' = Set(held, l, NoEvent)
            \/ /\ pc'[l] = "key" /\ events # <<>> /\ Head(events) \in Events
               /\ Head(events).kind = "button" /\ held' = Set(held, l, Head(events))
         /\ PageTypeOK'
<1>a. /\ LoopTypeOK /\ PageTypeOK /\ HoldsKeys /\ events \in Seq(Events)
      /\ pc \in [Loops -> Places] /\ PageOf(l) \in Pages
      /\ \A place : Goto(l, place) => pc'[l] = place
  BY TypeParts, LoopPages DEF Typed, UserTypeOK, DeviceTypeOK, LoopTypeOK, Goto
<1> USE <1>a DEF PageTypeOK, pageVars, loopVars, Set
<1>1. CASE \/ ContextDone(l) \/ FrameArrives(l) \/ Tick(l) \/ NoEventLeft(l) \/ Fit(l)
           \/ CheckFocus(l) \/ CheckInput(l) \/ ReadScene(l) \/ ReadFails(l) \/ WriteFails(l)
  BY <1>1 DEF ContextDone, FrameArrives, Tick, NoEventLeft, Fit, CheckFocus, CheckInput,
              ReadScene, ReadFails, WriteFails, Leave, Halt
<1>2. CASE TakeEvent(l)
  <2>1. pc[l] = "buttons" /\ events # <<>> /\ Head(events) \in Events /\ PageTypeOK'
    BY <1>2 DEF TakeEvent, TakeOldest
  <2>2. QED BY <1>2, <2>1 DEF TakeEvent, IsKey
<1>3. CASE SendKey(l)
  <2>1. held[l] \in Events /\ held[l].kind = "button"
    BY <1>3, EventsTyped DEF SendKey, HoldsKeys, LoopTypeOK
  <2>2. held[l].id \in Buttons
    BY <2>1 DEF Events
  <2>3. keysDown' \in [Pages -> SUBSET Buttons]
    BY <1>3, <2>2 DEF SendKey
  <2>4. QED BY <1>3, <2>3 DEF SendKey
<1>4. CASE StartMotion(l)
  <2>1. motion' \in [Pages -> BOOLEAN] /\ animating' \in [Pages -> BOOLEAN]
    BY <1>4 DEF StartMotion
  <2>2. QED BY <1>4, <2>1 DEF StartMotion
<1>5. CASE BeginTransaction(l)
  BY <1>5 DEF BeginTransaction, Leave
<1>6. CASE WriteView(l)
  BY <1>6 DEF WriteView
<1>7. CASE EndTransaction(l)
  BY <1>7 DEF EndTransaction, Leave
<1>8. CASE StopMotion(l)
  BY <1>8 DEF StopMotion
<1>9. QED
  BY <1>1, <1>2, <1>3, <1>4, <1>5, <1>6, <1>7, <1>8 DEF LoopStep

LEMMA LoopStepTyped ==
  ASSUME Typed, NEW l \in Loops, LoopStep(l)
  PROVE  BridgeTypeOK' /\ ControllerTypeOK' /\ LoopTypeOK' /\ PageTypeOK' /\ HoldsKeys' /\ Starts'
<1>a. BridgeTypeOK /\ ControllerTypeOK /\ LoopTypeOK /\ HoldsKeys /\ Starts
  BY TypeParts DEF Typed
<1>b. PICK place \in Places \ {"none"} : pc' = [pc EXCEPT ![l] = place]
  BY LoopStepPlaces DEF Goto
<1>c. UNCHANGED <<session, instance, current, made, focus, clientFrames>>
  BY LoopStepFrame DEF bridgeVars
<1>d. /\ pc[l] # "none"
      /\ UNCHANGED moving \/ \E v \in BOOLEAN : moving' = Set(moving, l, v)
      /\ UNCHANGED rotation \/ \E v \in BOOLEAN : rotation' = Set(rotation, l, v)
      /\ UNCHANGED input \/ \E v \in Motions : input' = Set(input, l, v)
      /\ UNCHANGED frameTimes \/ \E v \in BOOLEAN : frameTimes' = Set(frameTimes, l, v)
  BY LoopStepPlaces
<1>e. /\ \/ UNCHANGED held /\ (pc[l] = "key" <=> pc'[l] = "key")
         \/ /\ pc[l] = "key" /\ pc'[l] # "key" /\ held' = Set(held, l, NoEvent)
         \/ /\ pc'[l] = "key" /\ events # <<>> /\ Head(events) \in Events
            /\ Head(events).kind = "button" /\ held' = Set(held, l, Head(events))
      /\ PageTypeOK'
  BY LoopStepHolds
<1>1. BridgeTypeOK'
  BY <1>a, <1>c DEF BridgeTypeOK
<1>2. ControllerTypeOK'
  BY <1>a, <1>c, <1>d DEF ControllerTypeOK, Set
<1>3. moving' \in [Loops -> BOOLEAN] /\ rotation' \in [Loops -> BOOLEAN] /\ input' \in [Loops -> Motions]
  BY <1>a, <1>d DEF LoopTypeOK, Set
<1>4. held' \in [Loops -> Events \cup {NoEvent}] /\ pc' \in [Loops -> Places]
  BY <1>a, <1>b, <1>e DEF LoopTypeOK, Set
<1>5. pc'[l] = place /\ \A k \in Loops \ {l} : pc'[k] = pc[k] /\ moving'[k] = moving[k] /\ held'[k] = held[k]
  BY <1>a, <1>b, <1>d, <1>e DEF LoopTypeOK, Set
<1>6. HoldsKeys'
  <2>1. \A k \in Loops \ {l} : (pc'[k] = "key" <=> held'[k] # NoEvent)
                               /\ (held'[k] # NoEvent => held'[k].kind = "button")
    BY <1>a, <1>5 DEF HoldsKeys
  <2>2. (pc'[l] = "key" <=> held'[l] # NoEvent) /\ (held'[l] # NoEvent => held'[l].kind = "button")
    BY <1>a, <1>e, EventsTyped DEF HoldsKeys, LoopTypeOK, Set
  <2>3. QED BY <2>1, <2>2 DEF HoldsKeys
<1>7. Starts'
  BY <1>a, <1>c, <1>d, <1>5 DEF Starts
<1>8. QED
  BY <1>1, <1>2, <1>3, <1>4, <1>e, <1>6, <1>7 DEF LoopTypeOK

LEMMA TypedNext == Typed /\ [Next]_vars => Typed'
<1> SUFFICES ASSUME Typed, [Next]_vars PROVE Typed'
  OBVIOUS
<1>a. /\ UserTypeOK /\ BridgeTypeOK /\ ControllerTypeOK /\ LoopTypeOK /\ PageTypeOK
      /\ HoldsKeys /\ Starts
  BY TypeParts DEF Typed
<1>1. ASSUME UNCHANGED <<session, bridgeVars, controllerVars, loopVars, pageVars>>
      PROVE  BridgeTypeOK' /\ ControllerTypeOK' /\ LoopTypeOK' /\ PageTypeOK' /\ HoldsKeys' /\ Starts'
  BY <1>a, <1>1 DEF bridgeVars, controllerVars, loopVars, pageVars, BridgeTypeOK,
       ControllerTypeOK, LoopTypeOK, PageTypeOK, HoldsKeys, Starts
<1>2. CASE Next
  <2>1. UserTypeOK'
    BY <1>a, <1>2, UserTypedNext
  <2>2. BridgeTypeOK' /\ ControllerTypeOK' /\ LoopTypeOK' /\ PageTypeOK' /\ HoldsKeys' /\ Starts'
    BY <1>1, <1>2, PageStepTyped, LoopStepTyped, UserStepFrame DEF Next
  <2>3. QED BY <2>1, <2>2, TypePartsNext DEF Typed
<1>3. CASE UNCHANGED vars
  <2>1. UserTypeOK'
    BY <1>a, <1>3 DEF vars, userVars, deviceVars, UserTypeOK, DeviceTypeOK
  <2>2. QED BY <1>1, <1>3, <2>1, TypePartsNext DEF Typed, vars
<1>4. QED
  BY <1>2, <1>3

\* The client, the Bridges, the Controllers, the loops and the pages keep their types.
THEOREM DriveTyped == Spec => []TypeOK
<1>1. Typed => TypeOK
  BY DEF Typed
<1>2. QED
  BY <1>1, TypedInit, TypedNext, PTL DEF Spec

----------------------------------------------------------------------------
(* The page and its loop *)

PastFocus == {"input", "read", "motion", "begin", "write"}

Untouched(p) == ~motion[p] /\ ~transaction[p] /\ lateFrames[p] = 0

\* stopMoving is called after moving was reset, SetMotion(true) after it was set.
MotionTracks(p, l) ==
    /\ pc[l] = "motion" => moving[l]
    /\ pc[l] \in {"stop", "lastStop"} => ~moving[l]
    /\ pc[l] \notin {"motion", "stop", "lastStop"} => (motion[p] <=> moving[l] /\ pc[l] # "dead")

FrameTracks(p, l) ==
    Alive(l) => (transaction[p] <=> pc[l] \in {"write", "end"})

\* A frame after blur was past the check, and the loop has not been past it since.
BlurTracks(p, l) ==
    current[p] # 0 =>
        /\ focus[l] => announced[p]
        /\ lateFrames[p] # 0 => lateFrames[p] = 1 /\ pc[l] \notin PastFocus

TracksAt(p) ==
    /\ made[p] = 0 => Untouched(p)
    /\ announced[p] => lateFrames[p] = 0
    /\ DrivenByOne(p) =>
         MotionTracks(p, <<p, 1>>) /\ FrameTracks(p, <<p, 1>>) /\ BlurTracks(p, <<p, 1>>)

Tracks == \A p \in Pages : TracksAt(p)

LEMMA TracksInit == Init => Tracks
  BY DEF Init, Tracks, TracksAt, Untouched, DrivenByOne

LEMMA TracksShow == Typed /\ Tracks => MotionMirrorsLoop /\ FramesAreBracketed /\ OneFrameAfterBlur
<1> SUFFICES ASSUME Typed, Tracks PROVE MotionMirrorsLoop /\ FramesAreBracketed /\ OneFrameAfterBlur
  OBVIOUS
<1>1. \A p \in Pages : DrivenByOne(p) =>
         /\ LoopOf(p) = <<p, 1>>
         /\ MotionTracks(p, LoopOf(p)) /\ FrameTracks(p, LoopOf(p)) /\ BlurTracks(p, LoopOf(p))
  BY DEF Tracks, TracksAt, DrivenByOne, LoopOf
<1>a. \A p \in Pages : motion[p] \in BOOLEAN /\ transaction[p] \in BOOLEAN
  BY TypeParts DEF Typed, PageTypeOK
<1>b. \A a \in BOOLEAN, b \in BOOLEAN : (a <=> b) => a = b
  OBVIOUS
<1>2. MotionMirrorsLoop
  <2> SUFFICES ASSUME NEW p \in Pages, DrivenByOne(p),
                      pc[LoopOf(p)] \notin {"motion", "stop", "lastStop"}
               PROVE  motion[p] = (moving[LoopOf(p)] /\ pc[LoopOf(p)] # "dead")
    BY DEF MotionMirrorsLoop
  <2>1. motion[p] <=> moving[LoopOf(p)] /\ pc[LoopOf(p)] # "dead"
    BY <1>1 DEF MotionTracks
  <2>2. QED BY <1>a, <1>b, <2>1, Zenon
<1>3. FramesAreBracketed
  <2> SUFFICES ASSUME NEW p \in Pages, DrivenByOne(p), Alive(LoopOf(p))
               PROVE  transaction[p] = (pc[LoopOf(p)] \in {"write", "end"})
    BY DEF FramesAreBracketed
  <2> DEFINE open == pc[LoopOf(p)] \in {"write", "end"}
  <2>1. transaction[p] <=> open
    BY <1>1 DEF FrameTracks
  <2>2. open \in BOOLEAN
    OBVIOUS
  <2> HIDE DEF open
  <2>3. transaction[p] = open
    BY <1>a, <1>b, <2>1, <2>2, Zenon
  <2>4. QED BY <2>3 DEF open
<1>4. OneFrameAfterBlur
  BY <1>1 DEF BlurTracks, OneFrameAfterBlur
<1>5. QED
  BY <1>2, <1>3, <1>4

\* TracksAt(p) reads nothing else.
SeenAtPage(p) ==
    <<made[p], current[p], session[p], motion[p], transaction[p], lateFrames[p], announced[p]>>
SeenOfLoop(l) == <<pc[l], moving[l], focus[l]>>
Unseen(p) == UNCHANGED SeenAtPage(p) /\ (made[p] = 1 => UNCHANGED SeenOfLoop(<<p, 1>>))

LEMMA UnseenStep ==
  ASSUME NEW p, TracksAt(p), Unseen(p)
  PROVE  TracksAt(p)'
  BY DEF Unseen, SeenAtPage, SeenOfLoop, TracksAt, Untouched, DrivenByOne, Open, MotionTracks, FrameTracks, BlurTracks, Alive

\* A step of one page, or of its loops, is not seen at another.
LEMMA ElsewherePage ==
  ASSUME Typed, NEW p \in Pages, NEW q \in Pages, q # p, PageStep(q) \/ EndSession(q)
  PROVE  Unseen(p)
<1>a. /\ BridgeTypeOK /\ ControllerTypeOK /\ LoopTypeOK /\ PageTypeOK
      /\ \A n, m : <<p, n>> # <<q, m>>
      /\ made[p] = 1 => <<p, 1>> \in Loops
  BY TypeParts, DriveAssumption DEF Typed, BridgeTypeOK, Loops
<1> USE <1>a DEF Unseen, SeenAtPage, SeenOfLoop, Set, BridgeTypeOK, ControllerTypeOK, LoopTypeOK, PageTypeOK, bridgeVars,
                 controllerVars, loopVars, pageVars
<1>1. CASE CreateController(q) \/ Delete(q) \/ FrameTime(q) \/ AbandonFrames(q)
  BY <1>1 DEF CreateController, Delete, FrameTime, AbandonFrames
<1>2. CASE Subscribe(q)
  <2>1. UNCHANGED <<session, focus, moving, motion, transaction, lateFrames, announced>>
    BY <1>2 DEF Subscribe
  <2>2. made'[p] = made[p] /\ current'[p] = current[p]
    BY <1>2 DEF Subscribe
  <2>3. pc' = [pc EXCEPT ![<<q, made[q] + 1>>] = "select"]
    BY <1>2 DEF Subscribe, Goto
  <2>4. pc'[<<p, 1>>] = pc[<<p, 1>>]
    BY <2>3
  <2>5. QED BY <2>1, <2>2, <2>4
<1>3. ASSUME NEW on \in BOOLEAN, AnnounceFocus(q, on) \/ TakeFrameTiming(q, on)
      PROVE  Unseen(p)
  BY <1>3 DEF AnnounceFocus, TakeFrameTiming
<1>4. CASE Disconnect(q) \/ EndSession(q)
  BY <1>4 DEF Disconnect, EndSession
<1>5. QED
  BY <1>1, <1>2, <1>3, <1>4 DEF PageStep

LEMMA ElsewhereLoop ==
  ASSUME Typed, NEW p \in Pages, NEW k \in Loops, PageOf(k) # p, LoopStep(k)
  PROVE  Unseen(p)
<1>a. /\ LoopTypeOK /\ PageTypeOK /\ PageOf(k) \in Pages /\ <<p, 1>> # k
      /\ made[p] = 1 => <<p, 1>> \in Loops
  BY TypeParts, LoopPages, DriveAssumption DEF Typed, PageOf, BridgeTypeOK, Loops
<1>1. UNCHANGED <<session, current, made, focus, announced>>
  BY LoopStepFrame DEF bridgeVars
<1>2. made[p] = 1 => pc'[<<p, 1>>] = pc[<<p, 1>>] /\ moving'[<<p, 1>>] = moving[<<p, 1>>]
  BY <1>a, LoopStepPlaces DEF LoopTypeOK, Goto, Set
<1>3. UNCHANGED <<motion[p], transaction[p], lateFrames[p]>>
  BY <1>a DEF LoopStep, ContextDone, FrameArrives, Tick, TakeEvent, NoEventLeft, Fit, SendKey,
       CheckFocus, CheckInput, ReadScene, ReadFails, StartMotion, BeginTransaction, WriteView,
       WriteFails, EndTransaction, StopMotion, Set, pageVars, PageTypeOK
<1>4. QED
  BY <1>1, <1>2, <1>3 DEF Unseen, SeenAtPage, SeenOfLoop

LEMMA TracksPage ==
  ASSUME Typed, NEW p \in Pages, TracksAt(p), PageStep(p) \/ EndSession(p)
  PROVE  TracksAt(p)'
<1>a. /\ BridgeTypeOK /\ ControllerTypeOK /\ LoopTypeOK /\ PageTypeOK /\ Starts
      /\ made[p] = 1 => <<p, 1>> \in Loops
  BY TypeParts, DriveAssumption DEF Typed, BridgeTypeOK, Loops
<1> USE <1>a DEF Set, BridgeTypeOK, ControllerTypeOK, LoopTypeOK, PageTypeOK, bridgeVars,
                 controllerVars, loopVars, pageVars
<1>1. CASE CreateController(p) \/ FrameTime(p) \/ AbandonFrames(p)
             \/ \E on \in BOOLEAN : TakeFrameTiming(p, on)
  <2>1. Unseen(p)
    BY <1>1 DEF CreateController, FrameTime, AbandonFrames, TakeFrameTiming, Unseen,
                SeenAtPage, SeenOfLoop
  <2>2. QED BY <2>1, UnseenStep
<1>2. CASE Delete(p)
  <2>1. /\ UNCHANGED <<session, made, pc, moving, focus, motion, transaction, lateFrames, announced>>
        /\ current'[p] = 0
    BY <1>2 DEF Delete
  <2>2. QED
    BY <2>1 DEF TracksAt, Untouched, DrivenByOne, Open, MotionTracks, FrameTracks, BlurTracks, Alive
<1>3. CASE Disconnect(p) \/ EndSession(p)
  <2>1. UNCHANGED <<made, motion, transaction, lateFrames, announced>> /\ session'[p] # "open"
    BY <1>3 DEF Disconnect, EndSession
  <2>2. QED
    BY <2>1 DEF TracksAt, Untouched, DrivenByOne, Open
\* The first Controller of a page finds it as it was; a later one is not DrivenByOne.
<1>4. CASE Subscribe(p)
  <2> DEFINE k == <<p, made[p] + 1>>
  <2>1. /\ k \in Loops /\ pc[k] = "none" /\ made'[p] = made[p] + 1 /\ made[p] \in Nat
        /\ pc' = [pc EXCEPT ![k] = "select"]
        /\ UNCHANGED <<focus, moving, motion, transaction, lateFrames, announced>>
    BY <1>4, DriveAssumption DEF Subscribe, Goto, Starts, Loops, PageOf
  <2>2. CASE made[p] = 0
    <3>1. /\ k = <<p, 1>> /\ pc'[<<p, 1>>] = "select" /\ ~moving'[<<p, 1>>] /\ ~focus'[<<p, 1>>]
          /\ ~motion'[p] /\ ~transaction'[p] /\ lateFrames'[p] = 0
      BY <2>1, <2>2 DEF Starts, TracksAt, Untouched
    <3>2. motion'[p] = FALSE /\ transaction'[p] = FALSE
      BY <2>1, <3>1
    <3>3. MotionTracks(p, <<p, 1>>)' /\ FrameTracks(p, <<p, 1>>)' /\ BlurTracks(p, <<p, 1>>)'
      BY <3>1, <3>2 DEF MotionTracks, FrameTracks, BlurTracks
    <3>4. QED BY <2>1, <2>2, <3>1, <3>3 DEF TracksAt
  <2>3. CASE made[p] # 0
    BY <2>1, <2>3 DEF TracksAt, DrivenByOne
  <2>4. QED BY <2>2, <2>3
\* Every announcement begins a new count; focus follows it to the current Controller.
<1>5. ASSUME NEW on \in BOOLEAN, AnnounceFocus(p, on)
      PROVE  TracksAt(p)'
  <2>1. /\ lateFrames'[p] = 0 /\ announced'[p] = on
        /\ UNCHANGED <<session, made, current, pc, moving, motion, transaction>>
    BY <1>5 DEF AnnounceFocus
  <2>2. made[p] = 1 /\ current[p] # 0 => current[p] = 1 /\ focus'[<<p, 1>>] = on
    BY <1>5 DEF AnnounceFocus
  <2>3. QED
    BY <2>1, <2>2 DEF TracksAt, Untouched, DrivenByOne, Open, MotionTracks, FrameTracks,
                      BlurTracks, Alive
<1>6. QED
  BY <1>1, <1>2, <1>3, <1>4, <1>5 DEF PageStep

\* The steps of the one loop that has ever driven the page.
LEMMA TracksLoop ==
  ASSUME Typed, NEW p \in Pages, TracksAt(p), DrivenByOne(p), NEW l \in Loops, l = <<p, 1>>,
         LoopStep(l)
  PROVE  TracksAt(p)'
<1>a. /\ LoopTypeOK /\ PageTypeOK /\ ControllerTypeOK /\ PageOf(l) = p
      /\ MotionTracks(p, l) /\ FrameTracks(p, l) /\ BlurTracks(p, l)
      /\ announced[p] => lateFrames[p] = 0
      /\ session[p] = "open" /\ made[p] = 1
      /\ motion[p] \in BOOLEAN /\ moving[l] \in BOOLEAN /\ transaction[p] \in BOOLEAN
      /\ lateFrames[p] \in 0 .. 2
  BY TypeParts DEF Typed, TracksAt, DrivenByOne, PageOf, Open, PageTypeOK, LoopTypeOK
<1>b. UNCHANGED <<session, current, made, focus, announced>>
  BY LoopStepFrame DEF bridgeVars
<1>c. PICK place \in Places : pc'[l] = place /\ \A q : Goto(l, q) => place = q
  BY <1>a, LoopStepPlaces DEF Goto, LoopTypeOK
<1> DEFINE Goal == MotionTracks(p, l)' /\ FrameTracks(p, l)' /\ BlurTracks(p, l)'
                     /\ (announced'[p] => lateFrames'[p] = 0)
<1>d. SUFFICES Goal
  BY <1>a, <1>b DEF TracksAt, DrivenByOne
<1> USE <1>a, <1>b, <1>c DEF MotionTracks, FrameTracks, BlurTracks, Alive, PastFocus, Set, Open,
                             Over, LoopTypeOK, PageTypeOK, pageVars
<1>1. CASE ContextDone(l)
  BY <1>1 DEF ContextDone, SessionOver
<1>2. CASE FrameArrives(l) \/ Tick(l) \/ NoEventLeft(l) \/ Fit(l)
  BY <1>2 DEF FrameArrives, Tick, NoEventLeft, Fit
<1>3. CASE TakeEvent(l)
  <2>1. pc[l] = "buttons" /\ place \in {"buttons", "fit", "key"} /\ UNCHANGED <<moving, pageVars>>
    BY <1>3 DEF TakeEvent
  <2>2. QED BY <2>1
<1>4. CASE SendKey(l)
  BY <1>4 DEF SendKey
<1>5. CASE CheckFocus(l)
  BY <1>5 DEF CheckFocus, HasFocus, Halt
<1>6. CASE CheckInput(l)
  BY <1>6 DEF CheckInput, Halt
<1>7. CASE ReadScene(l)
  BY <1>7 DEF ReadScene, Halt
<1>8. CASE ReadFails(l) \/ WriteFails(l)
  BY <1>8 DEF ReadFails, WriteFails, Leave
<1>9. CASE StartMotion(l)
  <2>1. /\ motion'[p] = TRUE /\ place = "begin" /\ pc[l] = "motion"
        /\ UNCHANGED <<moving, transaction, lateFrames>>
    BY <1>9 DEF StartMotion
  <2>2. ~transaction'[p] /\ moving'[l] /\ motion'[p]
    BY <2>1
  <2>3. QED BY <2>1, <2>2
<1>10. CASE BeginTransaction(l)
  BY <1>10 DEF BeginTransaction
<1>11. CASE WriteView(l)
  <2>1. /\ pc[l] = "write" /\ place = "end" /\ UNCHANGED <<moving, motion, transaction>>
        /\ lateFrames'[p] = IF announced[p] \/ lateFrames[p] = 2 THEN lateFrames[p]
                                                               ELSE lateFrames[p] + 1
    BY <1>11 DEF WriteView
  <2>2. transaction'[p]
    BY <2>1
  <2>3. QED BY <2>1, <2>2
<1>12. CASE EndTransaction(l)
  <2>1. /\ pc[l] = "end" /\ place = "select" /\ transaction'[p] = FALSE
        /\ UNCHANGED <<moving, motion, lateFrames>>
    BY <1>12 DEF EndTransaction
  <2>2. QED BY <2>1
<1>13. CASE StopMotion(l)
  <2>1. /\ pc[l] \in {"stop", "lastStop"} /\ motion'[p] = FALSE
        /\ place = IF pc[l] = "stop" THEN "select" ELSE "dead"
        /\ UNCHANGED <<moving, transaction, lateFrames>>
    BY <1>13 DEF StopMotion
  <2>2. ~moving'[l] /\ ~motion'[p] /\ (pc[l] = "stop" => ~transaction'[p])
    BY <2>1
  <2>3. QED BY <2>1, <2>2
<1>14. QED
  BY <1>1, <1>2, <1>3, <1>4, <1>5, <1>6, <1>7, <1>8, <1>9, <1>10, <1>11, <1>12, <1>13
     DEF LoopStep

\* A loop of a page that is not driven by one leaves it so.
LEMMA TracksOther ==
  ASSUME Typed, NEW p \in Pages, TracksAt(p), ~DrivenByOne(p), NEW l \in Loops, PageOf(l) = p,
         LoopStep(l)
  PROVE  TracksAt(p)'
<1>1. UNCHANGED <<session, made, announced>> /\ pc[l] # "none"
  BY LoopStepFrame, LoopStepPlaces DEF bridgeVars
<1>2. made[p] # 0
  BY <1>1, TypeParts, LoopPages DEF Typed, Starts
<1>3. announced[p] => lateFrames'[p] = lateFrames[p]
  BY TypeParts DEF Typed, PageTypeOK, Set, LoopStep, ContextDone, FrameArrives, Tick, TakeEvent,
       NoEventLeft, Fit, SendKey, CheckFocus, CheckInput, ReadScene, ReadFails, StartMotion,
       BeginTransaction, WriteView, WriteFails, EndTransaction, StopMotion, pageVars
<1>4. QED
  BY <1>1, <1>2, <1>3 DEF TracksAt, DrivenByOne, Open

LEMMA TracksNext == Typed /\ Tracks /\ [Next]_vars => Tracks'
<1> SUFFICES ASSUME Typed, Tracks, [Next]_vars, NEW p \in Pages PROVE TracksAt(p)'
  BY DEF Tracks
<1>a. TracksAt(p)
  BY DEF Tracks
<1>1. ASSUME NEW q \in Pages, PageStep(q) \/ EndSession(q) PROVE TracksAt(p)'
  <2>1. CASE q = p
    BY <1>a, <1>1, <2>1, TracksPage
  <2>2. CASE q # p
    BY <1>a, <1>1, <2>2, ElsewherePage, UnseenStep
  <2>3. QED BY <2>1, <2>2
<1>2. ASSUME NEW l \in Loops, LoopStep(l) PROVE TracksAt(p)'
  <2>1. CASE PageOf(l) # p
    BY <1>a, <1>2, <2>1, ElsewhereLoop, UnseenStep
  <2>2. CASE PageOf(l) = p /\ ~DrivenByOne(p)
    BY <1>a, <1>2, <2>2, TracksOther
  <2>3. CASE PageOf(l) = p /\ DrivenByOne(p)
    <3>1. l = <<p, 1>>
      <4>1. pc[l] # "none" /\ made[p] = 1
        BY <1>2, <2>3, LoopStepPlaces DEF DrivenByOne
      <4>2. l[2] = 1
        BY <2>3, <4>1, LoopPages DEF Typed, Starts
      <4>3. QED BY <2>3, <4>2, LoopPages
    <3>2. QED BY <1>a, <1>2, <2>3, <3>1, TracksLoop
  <2>4. QED BY <2>1, <2>2, <2>3
<1>3. CASE DeviceStep \/ ReaderGoes \/ UNCHANGED vars
  <2>1. UNCHANGED <<session, bridgeVars, controllerVars, loopVars, pageVars>>
    BY <1>3, UserStepFrame DEF vars
  <2>2. Unseen(p)
    BY <2>1 DEF Unseen, SeenAtPage, SeenOfLoop, bridgeVars, controllerVars, loopVars, pageVars
  <2>3. QED BY <1>a, <2>2, UnseenStep
<1>4. QED
  BY <1>1, <1>2, <1>3 DEF Next

LEMMA TracksAlways == Spec => [](Typed /\ Tracks)
  BY TypedInit, TypedNext, TracksInit, TracksNext, PTL DEF Spec

\* Whichever way the loop ends or stops, and whatever the page sends meanwhile, the
\* page is in motion exactly while its loop navigates it.
THEOREM MotionIsMirrored == Spec => []MotionMirrorsLoop
  BY TracksAlways, TracksShow, PTL

\* Every frame the loop opens at its page it closes before it waits again.
THEOREM FramesClose == Spec => []FramesAreBracketed
  BY TracksAlways, TracksShow, PTL

\* A page that announced blur sees one more frame at most.
THEOREM BlurIsHeard == Spec => []OneFrameAfterBlur
  BY TracksAlways, TracksShow, PTL

----------------------------------------------------------------------------
(* Keys *)

Pressed(b) == ButtonEvent(b, TRUE)
Released(b) == ButtonEvent(b, FALSE)

\* A press on its way has its finger still down, or its release behind it.
Paired(b) ==
    /\ \A i \in 1 .. Len(events) : events[i] = Pressed(b) =>
         \/ b \in fingers \/ emitting = Released(b)
         \/ \E j \in 1 .. Len(events) : i < j /\ events[j] = Released(b)
    /\ emitting = Pressed(b) => b \in fingers

InPairs == Room /\ \A b \in Buttons : Paired(b)

LEMMA ButtonEvents ==
    /\ \A b, c \in Buttons, x, y \in BOOLEAN : ButtonEvent(b, x) = ButtonEvent(c, y) => b = c /\ (x <=> y)
    /\ \A b \in Buttons : /\ Pressed(b) # Released(b)
                          /\ Pressed(b) # NoEvent /\ Released(b) # NoEvent
    /\ \A b \in Buttons, x \in BOOLEAN : ButtonEvent(b, x) \in Events /\ ButtonEvent(b, x) # NoEvent
    /\ \A b \in Buttons, x \in BOOLEAN, m \in Motions : MotionEvent(m) # ButtonEvent(b, x)
    /\ \A m \in Motions : MotionEvent(m) \in Events
<1>1. \A b, x : ButtonEvent(b, x).id = b /\ ButtonEvent(b, x).pressed = x
                /\ ButtonEvent(b, x).kind = "button"
  BY DEF ButtonEvent
<1>2. \A m : MotionEvent(m).kind = "motion"
  BY DEF MotionEvent
<1>3. \A b \in Buttons, x \in BOOLEAN : ButtonEvent(b, x) \in Events /\ ButtonEvent(b, x) # NoEvent
  BY EventsTyped
<1>4. \A m \in Motions : MotionEvent(m) \in Events
  BY EventsTyped
<1>5. \A b, c \in Buttons, x, y \in BOOLEAN : ButtonEvent(b, x) = ButtonEvent(c, y) => b = c /\ (x <=> y)
  <2> SUFFICES ASSUME NEW b \in Buttons, NEW c \in Buttons, NEW x \in BOOLEAN, NEW y \in BOOLEAN,
                      ButtonEvent(b, x) = ButtonEvent(c, y)
               PROVE  b = c /\ (x <=> y)
    OBVIOUS
  <2>1. ButtonEvent(b, x).id = ButtonEvent(c, y).id
        /\ ButtonEvent(b, x).pressed = ButtonEvent(c, y).pressed
    OBVIOUS
  <2>2. b = c
    BY <2>1 DEF ButtonEvent
  <2>3. x <=> y
    BY <2>1 DEF ButtonEvent
  <2>4. QED BY <2>2, <2>3
<1>6. \A b \in Buttons : /\ Pressed(b) # Released(b)
                         /\ Pressed(b) # NoEvent /\ Released(b) # NoEvent
  BY <1>3, <1>5 DEF Pressed, Released
<1>7. \A b \in Buttons, x \in BOOLEAN, m \in Motions : MotionEvent(m) # ButtonEvent(b, x)
  BY <1>1, <1>2
<1>8. QED
  BY <1>3, <1>4, <1>5, <1>6, <1>7

LEMMA InPairsInit == Init => InPairs
<1> SUFFICES ASSUME Init PROVE InPairs
  OBVIOUS
<1>1. Len(events) = 0 /\ emitting = NoEvent
  BY DEF Init, DeviceInit
<1>2. \A b \in Buttons : Paired(b)
  BY <1>1, ButtonEvents DEF Paired
<1>3. QED
  BY <1>2, RoomInit DEF Init, InPairs

\* What one more event from the device does to the pairs.
LEMMA PairedReceive ==
  ASSUME DeviceTypeOK, NEW b \in Buttons, Paired(b), NEW ev \in Events, Receive(ev),
         ev = Pressed(b) => b \in fingers',
         ev # Released(b) /\ b \in fingers => b \in fingers'
  PROVE  Paired(b)'
<1>1. emitting = NoEvent /\ NoEvent # Pressed(b) /\ NoEvent # Released(b)
      /\ events \in Seq(Events) /\ Len(events) \in Nat
  BY ButtonEvents DEF DeviceTypeOK, Receive
<1>2. CASE HasRoom
  <2>1. events' = Append(events, ev) /\ emitting' = emitting
    BY <1>2 DEF Receive
  <2>2. /\ Len(events') = Len(events) + 1 /\ events'[Len(events) + 1] = ev
        /\ \A i \in 1 .. Len(events) : events'[i] = events[i]
    BY <1>1, <2>1, AppendIndexes
  <2> SUFFICES ASSUME NEW i \in 1 .. Len(events'), events'[i] = Pressed(b), b \notin fingers'
               PROVE  \E j \in 1 .. Len(events') : i < j /\ events'[j] = Released(b)
    BY <1>1, <2>1 DEF Paired
  <2>3. i \in 1 .. Len(events) /\ events[i] = Pressed(b)
    BY <1>1, <2>2
  <2>4. CASE b \in fingers
    BY <1>1, <2>2, <2>3, <2>4
  <2>5. CASE b \notin fingers
    <3>1. PICK j \in 1 .. Len(events) : i < j /\ events[j] = Released(b)
      BY <1>1, <2>3, <2>5 DEF Paired
    <3>2. QED BY <1>1, <2>2, <3>1
  <2>6. QED BY <2>4, <2>5
<1>3. CASE ~HasRoom
  <2>1. events' = events /\ emitting' = ev
    BY <1>3 DEF Receive
  <2>2. QED BY <1>1, <2>1 DEF Paired
<1>4. QED
  BY <1>2, <1>3

LEMMA PairedTail ==
  ASSUME DeviceTypeOK, NEW b \in Buttons, Paired(b), events # <<>>, events' = Tail(events),
         emitting' = emitting, fingers' = fingers
  PROVE  Paired(b)'
<1>1. /\ events \in Seq(Events) /\ Len(events) \in Nat /\ Len(events') = Len(events) - 1
      /\ \A i \in 1 .. Len(events') : events'[i] = events[i + 1] /\ i + 1 \in 1 .. Len(events)
  BY TailIndexes DEF DeviceTypeOK
<1> SUFFICES ASSUME NEW i \in 1 .. Len(events'), events'[i] = Pressed(b), b \notin fingers,
                    emitting # Released(b)
             PROVE  \E j \in 1 .. Len(events') : i < j /\ events'[j] = Released(b)
  BY DEF Paired
<1>2. PICK j \in 1 .. Len(events) : i + 1 < j /\ events[j] = Released(b)
  BY <1>1 DEF Paired
<1>3. j - 1 \in 1 .. Len(events') /\ i < j - 1 /\ (j - 1) + 1 = j
  BY <1>1, <1>2
<1>4. QED
  BY <1>1, <1>2, <1>3

LEMMA PairedAgain ==
  ASSUME DeviceTypeOK, Room, NEW b \in Buttons, Paired(b), SendAgain, fingers' = fingers
  PROVE  Paired(b)'
<1>1. /\ events' = Append(events, emitting) /\ emitting' = NoEvent
      /\ events \in Seq(Events) /\ Len(events) \in Nat
      /\ NoEvent # Pressed(b) /\ NoEvent # Released(b)
  BY ButtonEvents DEF DeviceTypeOK, SendAgain, Room
<1>2. /\ Len(events') = Len(events) + 1 /\ events'[Len(events) + 1] = emitting
      /\ \A i \in 1 .. Len(events) : events'[i] = events[i]
  BY <1>1, AppendIndexes
<1> SUFFICES ASSUME NEW i \in 1 .. Len(events'), events'[i] = Pressed(b), b \notin fingers
             PROVE  \E j \in 1 .. Len(events') : i < j /\ events'[j] = Released(b)
  BY <1>1 DEF Paired
<1>3. i \in 1 .. Len(events) /\ events[i] = Pressed(b)
  BY <1>1, <1>2 DEF Paired
<1>4. CASE emitting = Released(b)
  BY <1>1, <1>2, <1>3, <1>4
<1>5. CASE emitting # Released(b)
  <2>1. PICK j \in 1 .. Len(events) : i < j /\ events[j] = Released(b)
    BY <1>3, <1>5 DEF Paired
  <2>2. QED BY <1>1, <1>2, <2>1
<1>6. QED
  BY <1>4, <1>5

LEMMA InPairsNext == Typed /\ InPairs /\ [Next]_vars => InPairs'
<1> SUFFICES ASSUME Typed, InPairs, [Next]_vars PROVE InPairs'
  OBVIOUS
<1>a. DeviceTypeOK /\ Room /\ \A b \in Buttons : Paired(b)
  BY TypeParts DEF Typed, UserTypeOK, InPairs
<1>b. ASSUME UNCHANGED <<deviceVars, fingers>> PROVE InPairs'
  BY <1>a, <1>b DEF deviceVars, InPairs, Paired, Room, HasRoom
<1>1. CASE DeviceStep
  <2>1. PICK act \in {"deflect", "press", "gone"} :
           \/ act = "deflect" /\ \E m \in Motions : Deflect(m)
           \/ act = "press" /\ \E b \in Buttons, down \in BOOLEAN : Press(b, down)
           \/ act = "gone" /\ DaemonGoes /\ UNCHANGED fingers
    BY <1>1 DEF DeviceStep
  <2>2. CASE \E m \in Motions : Deflect(m)
    <3>1. PICK m \in Motions : Deflect(m)
      BY <2>2
    <3>2. Receive(MotionEvent(m)) /\ MotionEvent(m) \in Events /\ fingers' = fingers
      BY <3>1, ButtonEvents DEF Deflect
    <3>3. \A b \in Buttons : MotionEvent(m) # Pressed(b)
      BY ButtonEvents DEF Pressed
    <3>4. \A b \in Buttons : Paired(b)'
      BY <1>a, <3>2, <3>3, PairedReceive
    <3>5. QED BY <1>a, <3>2, <3>4, RoomNext DEF DeviceAction, InPairs
  <2>3. CASE \E b \in Buttons, down \in BOOLEAN : Press(b, down)
    <3>1. PICK c \in Buttons, down \in BOOLEAN : Press(c, down)
      BY <2>3
    <3>2. /\ Receive(ButtonEvent(c, down)) /\ ButtonEvent(c, down) \in Events
          /\ fingers' = IF down THEN fingers \cup {c} ELSE fingers \ {c}
      BY <3>1, ButtonEvents DEF Press
    <3>3. ASSUME NEW b \in Buttons PROVE Paired(b)'
      <4>1. ButtonEvent(c, down) = Pressed(b) => b \in fingers'
        BY <3>2, ButtonEvents DEF Pressed
      <4>2. ButtonEvent(c, down) # Released(b) /\ b \in fingers => b \in fingers'
        BY <3>2 DEF Released
      <4>3. QED BY <1>a, <3>2, <4>1, <4>2, PairedReceive
    <3>4. QED BY <1>a, <3>2, <3>3, RoomNext DEF DeviceAction, InPairs
  <2>4. CASE DaemonGoes /\ UNCHANGED fingers
    BY <1>a, <2>4 DEF DaemonGoes, InPairs, Paired, Room, HasRoom
  <2>5. QED BY <2>1, <2>2, <2>3, <2>4
<1>2. CASE ReaderGoes
  <2>1. ReaderStep /\ fingers' = fingers
    BY <1>2 DEF ReaderGoes
  <2>2. Room'
    BY <1>a, <2>1, RoomNext DEF DeviceAction
  <2>3. CASE DiscardOldest
    <3>1. emitting' = emitting /\ events' = WithoutOldest
      BY <2>3 DEF DiscardOldest
    <3>2. \A b \in Buttons : Paired(b)'
      <4>1. CASE events = <<>>
        BY <1>a, <2>1, <3>1, <4>1 DEF WithoutOldest, Paired
      <4>2. CASE events # <<>>
        BY <1>a, <2>1, <3>1, <4>2, PairedTail DEF WithoutOldest
      <4>3. QED BY <4>1, <4>2
    <3>3. QED BY <2>2, <3>2 DEF InPairs
  <2>4. CASE SendAgain
    BY <1>a, <2>1, <2>2, <2>4, PairedAgain DEF InPairs
  <2>5. CASE SeeClose \/ ReadError \/ MarkDead \/ CloseEvents
    <3>1. UNCHANGED <<events, emitting>>
      BY <2>5 DEF SeeClose, ReadError, MarkDead, CloseEvents
    <3>2. QED BY <1>a, <2>1, <2>2, <3>1 DEF InPairs, Paired
  <2>6. QED BY <2>1, <2>3, <2>4, <2>5 DEF ReaderStep
<1>3. ASSUME NEW l \in Loops, LoopStep(l) PROVE InPairs'
  <2>1. fingers' = fingers /\ (TakeOldest \/ UNCHANGED deviceVars)
    BY <1>3, LoopStepFrame
  <2>2. CASE TakeOldest
    <3>1. events # <<>> /\ events' = Tail(events) /\ emitting' = emitting
      BY <2>2 DEF TakeOldest
    <3>2. QED BY <1>a, <2>1, <2>2, <3>1, PairedTail, RoomNext DEF DeviceAction, InPairs
  <2>3. QED BY <1>b, <2>1, <2>2
<1>4. ASSUME NEW p \in Pages, PageStep(p) \/ EndSession(p) PROVE InPairs'
  BY <1>b, <1>4, PageStepFrame
<1>5. QED
  BY <1>b, <1>1, <1>2, <1>3, <1>4 DEF Next, vars, userVars

LEMMA EdgesUnderWay ==
  ASSUME NEW l, NEW b, NEW down
  PROVE  EdgeUnderWay(l, b, down) <=> UnderWay(ButtonEvent(b, down)) \/ held[l] = ButtonEvent(b, down)
  BY DEF EdgeUnderWay, UnderWay

LEMMA EdgesUnderWayNext ==
  ASSUME NEW l, NEW b, NEW down
  PROVE  EdgeUnderWay(l, b, down)'
           <=> UnderWay(ButtonEvent(b, down))' \/ held'[l] = ButtonEvent(b, down)
  BY DEF EdgeUnderWay, UnderWay, ButtonEvent

\* No step of the device, save discarding, takes an edge off its way.
LEMMA KeysOnTheirWay ==
  ASSUME Typed, InPairs, NEW l \in Loops, NEW b \in Buttons, WillComeUp(l, b), reader # "full",
         DeviceStep \/ ReaderGoes
  PROVE  WillComeUp(l, b)'
<1>a. /\ DeviceTypeOK /\ Room
      /\ UNCHANGED <<held, keysDown>>
  BY TypeParts, UserStepFrame DEF Typed, UserTypeOK, InPairs, loopVars, pageVars
<1>b. /\ Pressed(b) \in Events /\ Released(b) \in Events
      /\ Pressed(b) # Released(b)
  BY ButtonEvents DEF Pressed, Released
<1> USE EdgesUnderWay, EdgesUnderWayNext DEF WillComeUp
<1>1. ASSUME UNCHANGED fingers,
             UnderWay(Pressed(b))' <=> UnderWay(Pressed(b)),
             UnderWay(Released(b))' <=> UnderWay(Released(b))
      PROVE  WillComeUp(l, b)'
  BY <1>a, <1>1 DEF Pressed, Released
<1>2. ASSUME NEW m \in Motions, Deflect(m) PROVE WillComeUp(l, b)'
  <2>1. Receive(MotionEvent(m)) /\ MotionEvent(m) \in Events /\ UNCHANGED fingers
    BY <1>2, ButtonEvents DEF Deflect
  <2>2. MotionEvent(m) # Pressed(b) /\ MotionEvent(m) # Released(b)
    BY ButtonEvents DEF Pressed, Released
  <2>3. QED BY <1>a, <1>b, <1>1, <2>1, <2>2, ReceiveUnderWay
<1>3. ASSUME NEW c \in Buttons, NEW down \in BOOLEAN, Press(c, down) PROVE WillComeUp(l, b)'
  <2>1. /\ Receive(ButtonEvent(c, down)) /\ ButtonEvent(c, down) \in Events
        /\ fingers' = IF down THEN fingers \cup {c} ELSE fingers \ {c}
    BY <1>3, ButtonEvents DEF Press
  <2>2. /\ UnderWay(Pressed(b))' <=> UnderWay(Pressed(b)) \/ Pressed(b) = ButtonEvent(c, down)
        /\ UnderWay(Released(b))' <=> UnderWay(Released(b)) \/ Released(b) = ButtonEvent(c, down)
    BY <1>a, <1>b, <2>1, ReceiveUnderWay
  <2>3. /\ Pressed(b) = ButtonEvent(c, down) => b \in fingers'
        /\ b \in fingers => b \in fingers' \/ Released(b) = ButtonEvent(c, down)
    BY <2>1, ButtonEvents DEF Pressed, Released
  <2>4. QED BY <1>a, <2>2, <2>3 DEF Pressed, Released
<1>4. CASE DaemonGoes /\ UNCHANGED fingers
  BY <1>1, <1>4 DEF DaemonGoes, UnderWay
<1>5. CASE ReaderGoes
  <2>1. UNCHANGED fingers /\ ~DiscardOldest
    BY <1>5 DEF ReaderGoes, DiscardOldest
  <2>2. CASE SendAgain
    BY <1>a, <1>b, <1>1, <2>1, <2>2, SendAgainUnderWay
  <2>3. CASE SeeClose \/ ReadError \/ MarkDead \/ CloseEvents
    BY <1>1, <2>1, <2>3 DEF SeeClose, ReadError, MarkDead, CloseEvents, UnderWay
  <2>4. QED BY <1>5, <2>1, <2>2, <2>3 DEF ReaderGoes, ReaderStep
<1>6. QED
  BY <1>2, <1>3, <1>4, <1>5 DEF DeviceStep

\* The loop passes both edges on: from the channel to its hands, from there to the page.
LEMMA KeysAtTheLoop ==
  ASSUME Typed, InPairs, NEW l \in Loops, NEW b \in Buttons, WillComeUp(l, b),
         Action[b] = "menu", Open(PageOf(l)), LoopStep(l)
  PROVE  WillComeUp(l, b)'
<1>a. /\ DeviceTypeOK /\ Paired(b) /\ LoopTypeOK /\ PageTypeOK /\ HoldsKeys
      /\ PageOf(l) \in Pages /\ UNCHANGED fingers
  BY TypeParts, LoopPages, LoopStepFrame DEF Typed, UserTypeOK, InPairs
<1>b. /\ Pressed(b) \in Events /\ Released(b) \in Events
      /\ Pressed(b) # Released(b) /\ Pressed(b) # NoEvent /\ Released(b) # NoEvent
  BY ButtonEvents DEF Pressed, Released
<1>c. /\ EdgeUnderWay(l, b, TRUE) <=> UnderWay(Pressed(b)) \/ held[l] = Pressed(b)
      /\ EdgeUnderWay(l, b, FALSE) <=> UnderWay(Released(b)) \/ held[l] = Released(b)
      /\ EdgeUnderWay(l, b, TRUE)' <=> UnderWay(Pressed(b))' \/ held'[l] = Pressed(b)
      /\ EdgeUnderWay(l, b, FALSE)' <=> UnderWay(Released(b))' \/ held'[l] = Released(b)
  BY EdgesUnderWay, EdgesUnderWayNext DEF Pressed, Released
<1>1. CASE TakeEvent(l)
  <2>1. /\ TakeOldest /\ UNCHANGED keysDown /\ pc[l] = "buttons" /\ held[l] = NoEvent
    BY <1>a, <1>1 DEF TakeEvent, HoldsKeys, pageVars
  <2> DEFINE ev == Head(events)
  <2>2. ASSUME ev = Pressed(b) \/ ev = Released(b) PROVE held'[l] = ev
    <3>1. ev.kind = "button" /\ ev.id = b
      BY <2>2 DEF Pressed, Released, ButtonEvent
    <3>2. QED BY <1>a, <1>1, <3>1 DEF TakeEvent, IsKey, LoopTypeOK, Set
  <2>3. held'[l] \in {NoEvent, ev}
    BY <1>a, <1>1, <2>1 DEF TakeEvent, LoopTypeOK, Set
  <2>4. \A x : UnderWay(x) <=> UnderWay(x)' \/ x = ev
    BY <1>a, <2>1, TakeUnderWay
  <2>5. /\ EdgeUnderWay(l, b, TRUE)' <=> EdgeUnderWay(l, b, TRUE)
        /\ EdgeUnderWay(l, b, FALSE)' <=> EdgeUnderWay(l, b, FALSE)
    BY <1>b, <1>c, <2>1, <2>2, <2>3, <2>4
  <2>6. QED BY <1>a, <2>1, <2>5 DEF WillComeUp
<1>2. CASE SendKey(l)
  <2> DEFINE p == PageOf(l)
  <2>1. /\ held'[l] = NoEvent /\ UNCHANGED deviceVars
        /\ keysDown'[p] = IF held[l].pressed THEN keysDown[p] \cup {held[l].id}
                                             ELSE keysDown[p] \ {held[l].id}
    BY <1>a, <1>2 DEF SendKey, LoopTypeOK, PageTypeOK, Set, userVars
  <2>2. \A x : UnderWay(x)' <=> UnderWay(x)
    BY <2>1 DEF deviceVars, UnderWay
  <2>3. /\ held[l] = Pressed(b) => held[l].pressed /\ held[l].id = b
        /\ held[l] = Released(b) => ~held[l].pressed /\ held[l].id = b
    BY DEF Pressed, Released, ButtonEvent
  <2>4. /\ held[l] \in Events /\ held[l].kind = "button"
        /\ held[l] = ButtonEvent(held[l].id, held[l].pressed) /\ held[l].pressed \in BOOLEAN
    BY <1>a, <1>2, EventsTyped DEF SendKey, HoldsKeys, LoopTypeOK, Events, ButtonEvent
  <2>5. CASE held[l] = Pressed(b)
    BY <1>a, <1>b, <1>c, <2>1, <2>2, <2>3, <2>5 DEF WillComeUp
\* The page is told of the release: a press still on its way is of a later pair.
  <2>6. CASE held[l] = Released(b)
    <3>1. b \notin keysDown'[p]
      BY <2>1, <2>3, <2>6
    <3>2. UnderWay(Pressed(b)) => b \in fingers \/ UnderWay(Released(b))
      BY <1>a DEF Paired, UnderWay
    <3>3. QED BY <1>a, <1>b, <1>c, <2>1, <2>2, <3>1, <3>2 DEF WillComeUp
  <2>7. CASE held[l] # Pressed(b) /\ held[l] # Released(b)
    <3>1. held[l].id # b
      <4>1. CASE held[l].pressed
        BY <2>4, <2>7, <4>1 DEF Pressed
      <4>2. CASE ~held[l].pressed
        BY <2>4, <2>7, <4>2 DEF Released
      <4>3. QED BY <4>1, <4>2
    <3>2. b \in keysDown'[p] <=> b \in keysDown[p]
      BY <2>1, <3>1
    <3>3. QED BY <1>a, <1>b, <1>c, <2>1, <2>2, <2>7, <3>2 DEF WillComeUp
  <2>8. QED BY <2>5, <2>6, <2>7
<1>3. ASSUME UNCHANGED <<deviceVars, held, keysDown>> PROVE WillComeUp(l, b)'
  BY <1>a, <1>3 DEF WillComeUp, EdgeUnderWay, deviceVars
<1>4. CASE ~TakeEvent(l) /\ ~SendKey(l)
  <2>1. UNCHANGED <<deviceVars, held, keysDown>>
    BY <1>4 DEF LoopStep, ContextDone, FrameArrives, Tick, NoEventLeft, Fit, CheckFocus, CheckInput,
         ReadScene, ReadFails, StartMotion, BeginTransaction, WriteView, WriteFails, EndTransaction,
         StopMotion, userVars, loopVars, pageVars
  <2>2. QED BY <1>3, <2>1
<1>5. QED
  BY <1>1, <1>2, <1>4

LEMMA KeysStep ==
  ASSUME Typed, InPairs, [Next]_vars, NEW l \in Loops, NEW b \in Buttons,
         Pages = {PageOf(l)}, Action[b] = "menu", DrivenByOne(PageOf(l)), Alive(l),
         WillComeUp(l, b), reader # "full"
  PROVE  WillComeUp(l, b)'
<1>1. CASE DeviceStep \/ ReaderGoes
  BY <1>1, KeysOnTheirWay
<1>2. ASSUME UNCHANGED <<deviceVars, fingers, held, keysDown>> PROVE WillComeUp(l, b)'
  BY <1>2 DEF WillComeUp, EdgeUnderWay, deviceVars
<1>3. ASSUME NEW k \in Loops, LoopStep(k) PROVE WillComeUp(l, b)'
  <2>1. \A j \in Loops : pc[j] # "none" => j[2] = 1 /\ j = <<PageOf(l), 1>>
    <3> SUFFICES ASSUME NEW j \in Loops, pc[j] # "none" PROVE j[2] = 1 /\ j = <<PageOf(l), 1>>
      OBVIOUS
    <3>1. PageOf(j) = PageOf(l) /\ j = <<PageOf(j), j[2]>> /\ j[2] \in 1 .. MaxControllers
      BY LoopPages
    <3>2. made[PageOf(j)] = 1
      BY <3>1 DEF DrivenByOne
    <3>3. j[2] = 1
      BY <3>1, <3>2, DriveAssumption DEF Typed, Starts
    <3>4. QED BY <3>1, <3>3
  <2>2. pc[k] # "none" /\ pc[l] # "none"
    BY <1>3, LoopStepPlaces DEF Alive
  <2>3. k = l
    BY <2>1, <2>2
  <2>4. QED BY <1>3, <2>3, KeysAtTheLoop DEF DrivenByOne
<1>4. ASSUME NEW p \in Pages, PageStep(p) \/ EndSession(p) PROVE WillComeUp(l, b)'
  <2>1. UNCHANGED keysDown
    BY <1>4 DEF PageStep, EndSession, CreateController, Subscribe, Delete, AnnounceFocus,
         TakeFrameTiming, FrameTime, AbandonFrames, Disconnect, pageVars
  <2>2. QED BY <1>2, <1>4, <2>1, PageStepFrame
<1>5. QED
  BY <1>1, <1>2, <1>3, <1>4 DEF Next, vars, userVars, loopVars, pageVars

\* However fits, frames and the page's own messages fall between them, a menu key that
\* is down at the one page connected keeps its finger or its release on the way: only
\* a full channel may lose that.
THEOREM KeysComeUp == Spec => KeysFollowFingers
<1>1. Typed /\ InPairs /\ [Next]_vars =>
        [\A l \in Loops : \A b \in Buttons :
           LET p == PageOf(l)
           IN  /\ Pages = {p} /\ Action[b] = "menu"
               /\ DrivenByOne(p) /\ Alive(l) /\ WillComeUp(l, b)
               /\ reader # "full"
               => WillComeUp(l, b)']_vars
  BY KeysStep
<1>2. QED
  BY <1>1, TypedInit, TypedNext, InPairsInit, InPairsNext, PTL DEF Spec, KeysFollowFingers
=============================================================================
