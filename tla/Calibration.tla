------------------------------ MODULE Calibration ------------------------------
(***************************************************************************)
(* -calibrate (cmd/spacemouse-bridge/main.go) on top of axis detection     *)
(* (internal/spacenav/axis.go), the settings file it writes                *)
(* (internal/config), the flags that go over it (settings.go) and the      *)
(* shaping the drive loop does with it (internal/nav).                     *)
(*                                                                         *)
(* The command polls the latch until the cap is centred, then until a push *)
(* has crossed a threshold and had time to peak; every wait has a timeout, *)
(* and a reading with cross-talk is asked for again.  A poll sees whatever *)
(* the device reports at that moment, so each is a step that picks a       *)
(* motion; polls that change nothing are no steps.  The process may be     *)
(* interrupted anywhere, also inside Save.                                 *)
(*                                                                         *)
(* Of the settings the two scales, the dead zone, the version and whether  *)
(* calibration ran are kept; the others go the way of the dead zone.  A    *)
(* dead zone is a fraction <<n, d>>.  What is printed is left out.         *)
(***************************************************************************)
EXTENDS Integers, Sequences, FiniteSetsExt

CONSTANTS
    Axes,           \* a sequence
    RotationAxes,   \* those of them that tip or twist
    Motions,        \* readings of the puck, [axis |-> signed magnitude]
    RestMotions,    \* those it gives with no hand on it
    Gestures,       \* per prompt: does it tip the cap (TRUE) or slide it (FALSE)
    OldFiles,       \* settings files from before, each with some of the keys
    FlagValues,     \* the values of the flags a user may type
    MaxRuns         \* bound: calibrations

AxisSet == {Axes[i] : i \in 1 .. Len(Axes)}

Default ==
    [version |-> 3, full |-> 350, rotation |-> 350, calibrated |-> FALSE, deadzone |-> <<6, 100>>]

ASSUME CalibrationAssumption ==
    /\ Axes \in Seq(AxisSet) /\ RotationAxes \subseteq AxisSet
    /\ Motions \subseteq [AxisSet -> Int] /\ RestMotions \subseteq Motions
    /\ Gestures \in Seq(BOOLEAN) \ {<<>>} /\ MaxRuns \in Nat
    /\ \A f \in OldFiles : DOMAIN f \subseteq DOMAIN Default
    /\ DOMAIN FlagValues \subseteq DOMAIN Default \ {"version", "calibrated"}

NoMotion == [a \in AxisSet |-> 0]

----------------------------------------------------------------------------
(* internal/spacenav/axis.go *)

Abs(v) == IF v < 0 THEN -v ELSE v

\* variant: the old winner is forgotten instead of becoming the runner-up
PromoteForgets(d, v) ==
    IF v > d.peak THEN [d EXCEPT !.peak = v]
    ELSE IF v > d.runnerUp THEN [d EXCEPT !.runnerUp = v] ELSE d

\* One axis in the loop of Motion.Dominant.
Promote(d, v) ==
    IF v > d.peak THEN [peak |-> v, runnerUp |-> d.peak]
    ELSE IF v > d.runnerUp THEN [d EXCEPT !.runnerUp = v] ELSE d

\* The whole loop; seen[i] is what it knows after i axes.
Ranked(m) ==
    LET seen[i \in 0 .. Len(Axes)] ==
          IF i = 0 THEN [peak |-> 0, runnerUp |-> 0]
          ELSE Promote(seen[i - 1], Abs(m[Axes[i]]))
    IN  seen[Len(Axes)]

Dominant == [m \in Motions \cup {NoMotion} |-> Ranked(m)]

Peak(m) == Dominant[m].peak
AtRest(m, threshold) == Peak(m) <= threshold

----------------------------------------------------------------------------
(* internal/config and settings.go.  A file has some of the keys, or is torn. *)

NoFile == <<>>
Torn == [torn |-> TRUE]

\* variant: the rotation scale is overwritten in every file
MigrateAll(c) == [c EXCEPT !.rotation = c.full, !.calibrated = @ \/ c.version < 3, !.version = 3]

Migrate(c) ==
    [c EXCEPT !.rotation = IF c.version < 2 THEN c.full ELSE @,
              !.calibrated = @ \/ c.version < 3,
              !.version = 3]

\* The keys of f, and of c those that f omits.
Over(f, c) == [k \in DOMAIN f \cup DOMAIN c |-> IF k \in DOMAIN f THEN f[k] ELSE c[k]]

\* Unmarshalling over the defaults keeps what the file omits.
Load(f) == IF f = NoFile THEN Default ELSE Migrate(Over(f, Default))

\* Only typed flags count, and they are not written back except by a calibration.
Effective(f, typed) == Over([k \in typed |-> FlagValues[k]], Load(f))

----------------------------------------------------------------------------
(* What internal/nav makes of a reading, under the settings c *)

\* v / d exceeds the fraction f.
Exceeds(v, d, f) == v * f[2] > f[1] * d

\* shape: an axis within the dead zone of its own half counts as zero, and one
\* beyond full scale as full.
ShapesToZero(v, full, c) == full <= 0 \/ ~Exceeds(Min({Abs(v), full}), full, c.deadzone)

ShapeIsZero(m, c) ==
    LET rotScale == IF c.rotation <= 0 THEN c.full ELSE c.rotation
    IN  \A a \in AxisSet :
            ShapesToZero(m[a], IF a \in RotationAxes THEN rotScale ELSE c.full, c)

----------------------------------------------------------------------------
(* The numbers of runCalibrate *)

RestThreshold(noise, full) == Max({15, noise * 2 + 5, (full * 6) \div 100})

\* variant: no minimum
PushThresholdBare(full) == IF full = 0 THEN 40 ELSE (full * 35) \div 100

\* DefaultDetectOptions has 40 until the provisional push is known.
PushThreshold(full) == IF full = 0 THEN 40 ELSE Max({20, (full * 35) \div 100})

\* calibrateDominance
PureEnough(m) == Dominant[m].runnerUp * 3 < Peak(m)

VARIABLES
    step,         \* "idle", "noise", "centre", "detect", "temp", "rename" or "saved"
    settings,     \* what the command started with
    floor,        \* the noise floor
    provisional,  \* fullScale of the opening push, 0 before it
    results,      \* per gesture done: the motion read, and in which attempt
    attempt,      \* of the running gesture
    best,         \* DetectDeflection's best
    crossed,      \* settleUntil is set
    file,         \* config.json
    temp,         \* the temporary file of Save
    runs

measured == <<settings, floor, provisional, results, attempt>>
vars == <<step, measured, best, crossed, file, temp, runs>>

Init ==
    /\ step = "idle"
    /\ settings = Default /\ floor = 0 /\ provisional = 0
    /\ results = <<>> /\ attempt = 1
    /\ best = NoMotion /\ crossed = FALSE
    /\ file \in OldFiles \cup {NoFile} /\ temp = NoFile
    /\ runs = 0

Peaks(rotation) == {Peak(results[i].motion) : i \in {j \in 1 .. Len(results) : Gestures[j] = rotation}}

\* The largest peak of the gestures that slide, or of those that tip; the opening
\* push when there is none.
GroupScale(rotation) == Max({0} \cup Peaks(rotation))
ScaleOf(rotation) == IF GroupScale(rotation) = 0 THEN provisional ELSE GroupScale(rotation)

\* floor * 1.5 / transScale
DeadZoneNeeded == <<floor * 15, ScaleOf(FALSE) * 10>>

Calibrated ==
    [version |-> 3, full |-> ScaleOf(FALSE), rotation |-> ScaleOf(TRUE), calibrated |-> TRUE,
     deadzone |-> IF Exceeds(DeadZoneNeeded[1], DeadZoneNeeded[2], settings.deadzone)
                    THEN DeadZoneNeeded ELSE settings.deadzone]

----------------------------------------------------------------------------
(* The command *)

\* A file that does not parse ends the process.
Calibrate(typed) ==
    /\ step \in {"idle", "saved"} /\ runs < MaxRuns /\ file # Torn
    /\ runs' = runs + 1
    /\ step' = "noise"
    /\ settings' = Effective(file, typed)
    /\ floor' = 0 /\ provisional' = 0 /\ results' = <<>> /\ attempt' = 1
    /\ UNCHANGED <<best, crossed, file, temp>>

\* MeasureNoiseFloor, with the hand off the puck.
NoiseSample(m) ==
    /\ step = "noise" /\ Peak(m) > floor
    /\ floor' = Peak(m)
    /\ UNCHANGED <<step, settings, provisional, results, attempt, best, crossed, file, temp, runs>>

NoiseDone ==
    /\ step = "noise"
    /\ step' = "centre"
    /\ UNCHANGED <<measured, best, crossed, file, temp, runs>>

Centred(m) ==
    /\ step = "centre"
    /\ AtRest(m, RestThreshold(floor, provisional))
    /\ step' = "detect"
    /\ best' = NoMotion /\ crossed' = FALSE
    /\ UNCHANGED <<measured, file, temp, runs>>

\* What follows a reading: the opening push sets the scale, a gesture is kept or
\* asked for again, and the last one leads to Save.
Keep(m, n) ==
    /\ results' = Append(results, [motion |-> m, attempt |-> n])
    /\ attempt' = 1
    /\ step' = IF Len(results) + 1 = Len(Gestures) THEN "temp" ELSE "centre"
    /\ UNCHANGED provisional

\* variants: a fourth attempt; cross-talk is refused for ever
KeepOrRetryAgain(m) ==
    IF PureEnough(m) \/ attempt > 3 THEN Keep(m, attempt)
    ELSE attempt' = attempt + 1 /\ step' = "centre" /\ UNCHANGED <<results, provisional>>
KeepOrRetryForever(m) ==
    IF PureEnough(m) THEN Keep(m, attempt)
    ELSE /\ attempt' = IF attempt < 3 THEN attempt + 1 ELSE 3
         /\ step' = "centre"
         /\ UNCHANGED <<results, provisional>>

KeepOrRetry(m) ==
    IF PureEnough(m) \/ attempt >= 3 THEN Keep(m, attempt)
    ELSE attempt' = attempt + 1 /\ step' = "centre" /\ UNCHANGED <<results, provisional>>

Reading(m) ==
    IF provisional = 0
      THEN provisional' = Peak(m) /\ step' = "centre" /\ UNCHANGED <<results, attempt>>
      ELSE KeepOrRetry(m)

\* A poll of DetectDeflection: a new best, the threshold crossed, or, some time
\* after that, the reading.
DetectSample(m) ==
    LET top == IF Peak(m) > Peak(best) THEN m ELSE best
        over == Peak(top) >= PushThreshold(provisional)
    IN  /\ step = "detect"
        /\ \/ /\ top # best \/ (over /\ ~crossed)
              /\ best' = top /\ crossed' = over
              /\ UNCHANGED <<step, results, provisional, attempt>>
           \/ /\ over /\ crossed
              /\ Reading(top)
              /\ best' = NoMotion /\ crossed' = FALSE
        /\ UNCHANGED <<settings, floor, file, temp, runs>>

\* The error paths: everything measured is lost.
Stop ==
    /\ step' = "idle"
    /\ settings' = Default /\ floor' = 0 /\ provisional' = 0 /\ results' = <<>> /\ attempt' = 1
    /\ best' = NoMotion /\ crossed' = FALSE
    /\ UNCHANGED <<file, runs>>

\* DetectTimeout, which does not look at what has crossed the threshold already;
\* a gesture that was not made counts as nothing.
DetectTimeout ==
    /\ step = "detect" /\ provisional # 0
    /\ Keep(NoMotion, attempt)
    /\ best' = NoMotion /\ crossed' = FALSE
    /\ UNCHANGED <<settings, floor, file, temp, runs>>

\* The other timeouts and an interrupt.
GiveUp ==
    /\ step \in {"noise", "centre", "detect"}
    /\ Stop
    /\ UNCHANGED temp

\* variant: Save writes the file in place
CreateTempInPlace ==
    /\ step = "temp"
    /\ file' = Torn /\ temp' = Torn
    /\ step' = "rename"
    /\ UNCHANGED <<measured, best, crossed, runs>>

\* Save: the temporary file is created and filled, then takes the place of the old one.
CreateTemp ==
    /\ step = "temp"
    /\ temp' = Torn
    /\ step' = "rename"
    /\ UNCHANGED <<measured, best, crossed, file, runs>>

FillTemp ==
    /\ step = "rename" /\ temp = Torn
    /\ temp' = Calibrated
    /\ UNCHANGED <<step, measured, best, crossed, file, runs>>

Rename ==
    /\ step = "rename" /\ temp # Torn
    /\ file' = temp
    /\ temp' = NoFile
    /\ step' = "saved"
    /\ UNCHANGED <<measured, best, crossed, runs>>

\* Save fails, and removes its temporary file, or the process is killed, and leaves it.
SaveFails ==
    /\ step \in {"temp", "rename"}
    /\ Stop
    /\ temp' = NoFile

CommandStep ==
    \/ \E m \in RestMotions : NoiseSample(m)
    \/ NoiseDone
    \/ \E m \in Motions : Centred(m) \/ DetectSample(m)
    \/ DetectTimeout \/ GiveUp
    \/ CreateTemp \/ FillTemp \/ Rename \/ SaveFails

Next == CommandStep \/ \E typed \in SUBSET DOMAIN FlagValues : Calibrate(typed)

\* The command goes on once started: its tickers and timers fire.
Spec == Init /\ [][Next]_vars /\ WF_vars(CommandStep)

----------------------------------------------------------------------------
Readings == [motion : Motions \cup {NoMotion}, attempt : 1 .. 3]

TypeOK ==
    /\ step \in {"idle", "noise", "centre", "detect", "temp", "rename", "saved"}
    /\ DOMAIN settings = DOMAIN Default
    /\ floor \in Nat /\ provisional \in Nat
    /\ results \in Seq(Readings) /\ attempt \in 1 .. 3
    /\ step \in {"temp", "rename", "saved"} <=> Len(results) = Len(Gestures)
    /\ best \in Motions \cup {NoMotion}
    /\ crossed => Peak(best) >= PushThreshold(provisional)
    /\ runs \in 0 .. MaxRuns

\* Whatever Save is interrupted in, the next start finds settings it can parse
\* (config.go:172-177).
SettingsSurvive == file # Torn

\* What a start uses after a calibration is what was measured: per half the strongest
\* gesture of that half, or the opening push when none was detected, through Save,
\* Load, migration and every flag the user did not type (main.go:541-547, settings.go:29-34).
MeasuredIsUsed ==
    LET Strongest(scale, rotation) ==
            IF Peaks(rotation) \subseteq {0} THEN scale = provisional
            ELSE scale \in Peaks(rotation) /\ \A p \in Peaks(rotation) : p <= scale
    IN  step = "saved" =>
          \A typed \in SUBSET DOMAIN FlagValues :
            LET c == Effective(file, typed)
            IN  /\ c.calibrated
                /\ "full" \notin typed => Strongest(c.full, FALSE)
                /\ "rotation" \notin typed => Strongest(c.rotation, TRUE)

\* A gesture taken at the first or second attempt moved one axis only: every other
\* stayed below a third of it (main.go:427-430, 526-532, axis.go:94-98).
AcceptedIsPure ==
    \A i \in 1 .. Len(results) :
        LET m == results[i].motion
        IN  results[i].attempt < 3 /\ m # NoMotion =>
              \E a \in AxisSet : \A b \in AxisSet \ {a} : Abs(m[b]) * 3 < Abs(m[a])

\* What counts as released never counts as a push, so that one push is not read as
\* two gestures, unless the puck rests so far out that the user was told
\* (main.go:481-493, 755-768).
PushesAreSeparate ==
    provisional # 0 /\ floor * 10 <= provisional
      => RestThreshold(floor, provisional) < PushThreshold(provisional)

\* Nothing the user does or fails to do keeps the command waiting for ever.
CalibrationEnds == step = "noise" ~> step \in {"idle", "saved"}

----------------------------------------------------------------------------
(* What a comment says, and the code does not do. *)

\* "A dead zone below the resting offset lets the view drift while nobody is touching
\* the puck, so a measurement that demands a wider one wins" (main.go:587-588): after
\* a calibration no reading of the puck at rest, as small as those it took for noise,
\* gets through the shaping of the drive loop.
DeadZoneCoversRest ==
    step = "saved" =>
      \A m \in RestMotions : Peak(m) <= floor => ShapeIsZero(m, Load(file))
=============================================================================
