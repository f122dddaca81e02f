---------------------------- MODULE Calibration_proofs ----------------------------
(***************************************************************************)
(* Proofs about calibration, for any axes, readings, prompts, old files    *)
(* and typed flags.                                                        *)
(*                                                                         *)
(*   Ranking  what the loop of Dominant computes, for a device with any    *)
(*            number of axes;                                              *)
(*   Walk     where the command is, what it has read so far, and what the  *)
(*            two files hold meanwhile.                                    *)
(*                                                                         *)
(* The loop is a recursive function.  That one exists for every length,    *)
(* and what it computes, is proved at the least number where it would fail.*)
(***************************************************************************)
EXTENDS Calibration, WellFoundedInduction, TLAPS

LEMMA LeastNumber ==
  ASSUME NEW T, T \subseteq Nat, T # {}
  PROVE  \E n \in T : \A k \in T : ~(k < n)
<1> DEFINE Less == OpToRel(<, Nat)
<1>1. IsWellFoundedOn(Less, Nat)
  BY NatLessThanWellFounded
<1> HIDE DEF Less
<1>2. \E n \in T : \A k \in T : ~(<<k, n>> \in Less)
  BY <1>1, WFMin
<1>3. \A k, n \in Nat : k < n => <<k, n>> \in Less
  BY DEF Less, OpToRel
<1>4. QED
  BY <1>2, <1>3

----------------------------------------------------------------------------
(* Dominant *)

LEMMA AbsIs == \A v \in Int : Abs(v) \in Nat /\ (v = 0 => Abs(v) = 0)
  BY DEF Abs

LEMMA Ranking ==
  ASSUME NEW m \in [AxisSet -> Int]
  PROVE  /\ Ranked(m).peak \in Nat /\ Ranked(m).runnerUp \in Nat
         /\ Ranked(m).peak > 0 =>
              \E j \in 1 .. Len(Axes) :
                /\ Ranked(m).peak = Abs(m[Axes[j]])
                /\ \A k \in 1 .. Len(Axes) : k # j => Abs(m[Axes[k]]) <= Ranked(m).runnerUp
<1> DEFINE N == Len(Axes)
           size(i) == Abs(m[Axes[i]])
           Base == [peak |-> 0, runnerUp |-> 0]
           Loop(f, n) == [i \in 0 .. n |-> IF i = 0 THEN Base ELSE Promote(f[i - 1], size(i))]
           seen == CHOOSE f : f = Loop(f, N)
<1>1. N \in Nat /\ \A i \in 1 .. N : size(i) \in Nat
  <2>1. N \in Nat /\ \A i \in 1 .. N : Axes[i] \in AxisSet
    BY CalibrationAssumption
  <2>2. \A i \in 1 .. N : m[Axes[i]] \in Int
    BY <2>1
  <2>3. QED BY <2>1, <2>2, AbsIs
<1>2. Ranked(m) = seen[N]
  BY DEF Ranked
<1> HIDE DEF N, size, seen
<1>3. \E f : f = Loop(f, N)
  <2> DEFINE T == {n \in 0 .. N : ~\E f : f = Loop(f, n)}
  <2> SUFFICES ASSUME T # {} PROVE FALSE
    BY <1>1
  <2>1. PICK n \in T : \A k \in T : ~(k < n)
    <3>1. T \subseteq Nat
      OBVIOUS
    <3>2. T # {}
      OBVIOUS
    <3> HIDE DEF T
    <3>3. QED BY <3>1, <3>2, LeastNumber
  <2>2. n \in Nat /\ n <= N /\ ~\E f : f = Loop(f, n)
    BY <1>1, <2>1
  <2>3. CASE n = 0
    <3> DEFINE g == [i \in 0 .. n |-> Base]
    <3>1. g = Loop(g, n)
      BY <2>3
    <3>2. QED BY <2>2, <3>1
  <2>4. CASE n # 0
    <3>1. n - 1 \in 0 .. N /\ n - 1 < n
      BY <1>1, <2>2, <2>4
    <3>2. n - 1 \notin T
      BY <2>1, <3>1
    <3>3. PICK f : f = Loop(f, n - 1)
      BY <3>1, <3>2
    <3> DEFINE g == [i \in 0 .. n |-> IF i < n THEN f[i] ELSE Promote(f[n - 1], size(n))]
    <3>4. ASSUME NEW i \in 0 .. n PROVE g[i] = Loop(g, n)[i]
      <4>1. CASE i = n
        <5>1. g[n - 1] = f[n - 1] /\ g[i] = Promote(f[n - 1], size(n))
          BY <2>2, <2>4, <4>1
        <5>2. Loop(g, n)[i] = Promote(g[n - 1], size(n))
          BY <2>2, <2>4, <4>1
        <5>3. QED BY <5>1, <5>2
      <4>2. CASE i # n /\ i # 0
        <5>1. i \in 0 .. n - 1 /\ i - 1 \in 0 .. n /\ i - 1 < n
          BY <2>2, <4>2
        <5>2. f[i] = Promote(f[i - 1], size(i))
          BY <3>3, <4>2, <5>1
        <5>3. g[i] = f[i] /\ g[i - 1] = f[i - 1]
          BY <2>2, <4>2, <5>1
        <5>4. Loop(g, n)[i] = Promote(g[i - 1], size(i))
          BY <4>2
        <5>5. QED BY <5>2, <5>3, <5>4
      <4>3. CASE i = 0
        <5>1. 0 \in 0 .. n - 1 /\ 0 < n
          BY <2>2, <2>4
        <5>2. f[0] = Base
          BY <3>3, <5>1
        <5>3. QED BY <4>3, <5>1, <5>2
      <4>4. QED BY <4>1, <4>2, <4>3
    <3>5. g = Loop(g, n)
      BY <3>4
    <3>6. QED BY <2>2, <3>5
  <2>5. QED BY <2>3, <2>4
<1>4. seen = Loop(seen, N)
  BY <1>3 DEF seen
<1>5. /\ seen[0] = Base
      /\ \A i \in 1 .. N : seen[i] = Promote(seen[i - 1], size(i))
  BY <1>1, <1>4
<1> DEFINE Typed(i) == seen[i] \in [peak : Nat, runnerUp : Nat]
           Best(i) == \E j \in 1 .. i : /\ seen[i].peak = size(j)
                                        /\ \A k \in 1 .. i : k # j => size(k) <= seen[i].runnerUp
           Good(i) == Typed(i) /\ seen[i].runnerUp <= seen[i].peak /\ (i > 0 => Best(i))
<1>6. \A i \in 0 .. N : Good(i)
  <2> DEFINE T == {i \in 0 .. N : ~Good(i)}
  <2> SUFFICES ASSUME T # {} PROVE FALSE
    BY <1>1
  <2>1. PICK i \in T : \A k \in T : ~(k < i)
    <3>1. T \subseteq Nat
      OBVIOUS
    <3>2. T # {}
      OBVIOUS
    <3> HIDE DEF T
    <3>3. QED BY <3>1, <3>2, LeastNumber
  <2>2. i \in Nat /\ i <= N /\ ~Good(i)
    BY <1>1, <2>1
  <2>3. i # 0
    BY <1>5, <2>2
  <2>4. i - 1 \in 0 .. N /\ i - 1 < i /\ i \in 1 .. N
    BY <1>1, <2>2, <2>3
  <2>5. Good(i - 1)
    BY <2>1, <2>4
  <2>6. PICK d : d = seen[i - 1]
    OBVIOUS
  <2>7. PICK v \in Nat : v = size(i)
    BY <1>1, <2>4
  <2>8. seen[i] = Promote(d, v) /\ d \in [peak : Nat, runnerUp : Nat] /\ d.runnerUp <= d.peak
    BY <1>5, <2>4, <2>5, <2>6, <2>7
  <2>9. i > 1 => \E j \in 1 .. i - 1 :
                  d.peak = size(j) /\ \A k \in 1 .. i - 1 : k # j => size(k) <= d.runnerUp
    BY <2>2, <2>5, <2>6
  <2>a. \A k \in 1 .. i : size(k) \in Nat
    BY <1>1, <2>2
  <2>b. \A k \in 1 .. i - 1 : size(k) <= d.peak
    BY <2>2, <2>8, <2>9, <2>a
  <2>10. CASE v > d.peak
    <3>1. seen[i] = [peak |-> v, runnerUp |-> d.peak]
      BY <2>8, <2>10 DEF Promote
    <3>2. Typed(i) /\ seen[i].runnerUp <= seen[i].peak
      BY <2>8, <2>10, <3>1
    <3>3. seen[i].peak = size(i) /\ \A k \in 1 .. i : k # i => size(k) <= seen[i].runnerUp
      BY <2>2, <2>7, <2>b, <3>1
    <3>4. Best(i)
      BY <2>4, <3>3
    <3>5. QED BY <2>2, <3>2, <3>4
  <2>11. CASE ~(v > d.peak)
    <3>2. Typed(i) /\ seen[i].runnerUp <= seen[i].peak /\ seen[i].peak = d.peak
          /\ seen[i].runnerUp >= d.runnerUp /\ seen[i].runnerUp >= v
      BY <2>8, <2>11 DEF Promote
    <3>3. CASE i = 1
      <4>1. d = Base
        BY <1>5, <2>6, <3>3
      <4>2. seen[i].peak = size(1)
        BY <2>7, <2>8, <2>11, <3>2, <3>3, <4>1
      <4>3. Best(i)
        BY <3>3, <4>2
      <4>4. QED BY <2>2, <3>2, <4>3
    <3>4. CASE i > 1
      <4>1. PICK j \in 1 .. i - 1 :
              d.peak = size(j) /\ \A k \in 1 .. i - 1 : k # j => size(k) <= d.runnerUp
        BY <2>9, <3>4
      <4>2. ASSUME NEW k \in 1 .. i, k # j PROVE size(k) <= seen[i].runnerUp
        <5>1. CASE k = i
          BY <2>7, <3>2, <5>1
        <5>2. CASE k # i
          <6>1. k \in 1 .. i - 1
            BY <2>2, <5>2
          <6>2. size(k) <= d.runnerUp /\ size(k) \in Nat
            BY <2>a, <4>1, <4>2, <6>1
          <6>3. QED BY <2>8, <3>2, <6>2
        <5>3. QED BY <5>1, <5>2
      <4>3. j \in 1 .. i /\ seen[i].peak = size(j)
        BY <2>2, <3>2, <4>1
      <4>4. Best(i)
        BY <4>2, <4>3
      <4>5. QED BY <2>2, <3>2, <4>4
    <3>5. QED BY <2>2, <2>3, <3>3, <3>4
  <2>12. QED BY <2>10, <2>11
<1>7. Good(N)
  BY <1>1, <1>6
<1>8. N = 0 => seen[N].peak = 0
  BY <1>5
<1>9. QED
  BY <1>1, <1>2, <1>7, <1>8 DEF N, size

LEMMA Dominates ==
  ASSUME NEW m \in Motions \cup {NoMotion}
  PROVE  /\ m \in [AxisSet -> Int] /\ Peak(m) \in Nat /\ Dominant[m].runnerUp \in Nat
         /\ PureEnough(m) => \E a \in AxisSet : \A b \in AxisSet \ {a} : Abs(m[b]) * 3 < Abs(m[a])
<1>1. m \in [AxisSet -> Int]
  BY CalibrationAssumption DEF NoMotion
<1>2. Dominant[m] = Ranked(m)
  BY DEF Dominant
<1> DEFINE d == Ranked(m)
<1>3. d.peak \in Nat /\ d.runnerUp \in Nat
  BY <1>1, Ranking
<1>4. ASSUME PureEnough(m)
      PROVE  \E a \in AxisSet : \A b \in AxisSet \ {a} : Abs(m[b]) * 3 < Abs(m[a])
  <2>1. d.runnerUp * 3 < d.peak /\ d.peak > 0
    BY <1>2, <1>3, <1>4 DEF PureEnough, Peak
  <2>2. PICK j \in 1 .. Len(Axes) :
          d.peak = Abs(m[Axes[j]]) /\ \A k \in 1 .. Len(Axes) : k # j => Abs(m[Axes[k]]) <= d.runnerUp
    BY <1>1, <2>1, Ranking
  <2>3. Axes[j] \in AxisSet
    BY DEF AxisSet
  <2>4. ASSUME NEW b \in AxisSet \ {Axes[j]} PROVE Abs(m[b]) * 3 < Abs(m[Axes[j]])
    <3>1. PICK k \in 1 .. Len(Axes) : b = Axes[k]
      BY DEF AxisSet
    <3>2. Abs(m[b]) <= d.runnerUp
      BY <2>2, <2>4, <3>1
    <3>3. Abs(m[b]) \in Nat
      BY <1>1, AbsIs
    <3> HIDE DEF d
    <3>4. QED BY <1>3, <2>1, <2>2, <3>2, <3>3
  <2>5. QED BY <2>3, <2>4
<1>5. QED
  BY <1>1, <1>2, <1>3, <1>4 DEF Peak

----------------------------------------------------------------------------
(* The largest of finitely many numbers *)

LEMMA Bounded ==
  ASSUME NEW N \in Nat, NEW f, \A i \in 1 .. N : f[i] \in Nat
  PROVE  \E b \in Nat : \A i \in 1 .. N : f[i] <= b
<1> DEFINE T == {n \in 0 .. N : ~\E b \in Nat : \A i \in 1 .. n : f[i] <= b}
<1>0. N \in 0 .. N
  OBVIOUS
<1> SUFFICES ASSUME T # {} PROVE FALSE
  BY <1>0
<1>1. PICK n \in T : \A k \in T : ~(k < n)
  <2>1. T \subseteq Nat
    OBVIOUS
  <2>2. T # {}
    OBVIOUS
  <2> HIDE DEF T
  <2>3. QED BY <2>1, <2>2, LeastNumber
<1>2. n \in Nat /\ n <= N /\ ~\E b \in Nat : \A i \in 1 .. n : f[i] <= b
  BY <1>1
<1>3. n # 0
  <2>1. SUFFICES ASSUME n = 0 PROVE FALSE
    OBVIOUS
  <2>2. \A i \in 1 .. n : f[i] <= 0
    BY <2>1
  <2>3. QED BY <1>2, <2>2
<1>4. n - 1 \in 0 .. N /\ n - 1 < n
  BY <1>2, <1>3
<1>5. PICK b \in Nat : \A i \in 1 .. n - 1 : f[i] <= b
  BY <1>1, <1>4
<1>6. f[n] \in Nat
  BY <1>2, <1>3
<1>7. PICK v \in Nat : v = f[n]
  BY <1>6
<1>8. ASSUME NEW i \in 1 .. n PROVE f[i] <= b + v
  <2>1. CASE i = n
    BY <1>7, <2>1
  <2>2. CASE i # n
    <3>1. i \in 1 .. n - 1 /\ i \in 1 .. N
      BY <1>2, <2>2
    <3>2. f[i] \in Nat /\ f[i] <= b
      BY <1>5, <3>1
    <3>3. QED BY <3>2
  <2>3. QED BY <2>1, <2>2
<1>9. b + v \in Nat
  OBVIOUS
<1>10. QED
  BY <1>2, <1>8, <1>9

LEMMA Largest ==
  ASSUME NEW S, S \subseteq Nat, S # {}, NEW b \in Nat, \A x \in S : x <= b
  PROVE  Max(S) \in S /\ \A x \in S : x <= Max(S)
<1> DEFINE T == {n \in Nat : \A x \in S : x <= n}
<1>1. PICK n \in T : \A k \in T : ~(k < n)
  <2>1. T \subseteq Nat
    OBVIOUS
  <2>2. T # {}
    OBVIOUS
  <2> HIDE DEF T
  <2>3. QED BY <2>1, <2>2, LeastNumber
<1>2. n \in S
  <2> SUFFICES ASSUME n \notin S PROVE FALSE
    OBVIOUS
  <2>1. ASSUME NEW x \in S PROVE x <= n - 1
    <3>1. x \in Nat /\ x <= n /\ x # n /\ n \in Nat
      BY <1>1
    <3>2. QED BY <3>1
  <2>2. n - 1 \in Nat
    <3>1. PICK x \in S : x \in Nat /\ x <= n - 1
      BY <2>1
    <3>2. QED BY <1>1, <3>1
  <2>3. QED BY <1>1, <2>1, <2>2
<1>3. \A x \in S : n >= x
  BY <1>1
<1>4. Max(S) \in S /\ \A x \in S : Max(S) >= x
  BY <1>2, <1>3 DEF Max
<1>5. QED
  BY <1>4

LEMMA MaxOfThree ==
  ASSUME NEW a \in Nat, NEW b \in Nat, NEW c \in Nat
  PROVE  Max({a, b, c}) \in {a, b, c} /\ Max({a, b, c}) >= a /\ Max({a, b, c}) >= b /\ Max({a, b, c}) >= c
<1>1. \A x \in {a, b, c} : x <= a + b + c
  OBVIOUS
<1>2. a + b + c \in Nat /\ {a, b, c} \subseteq Nat /\ {a, b, c} # {}
  OBVIOUS
<1>3. Max({a, b, c}) \in {a, b, c} /\ \A x \in {a, b, c} : x <= Max({a, b, c})
  BY <1>1, <1>2, Largest
<1> HIDE DEF Max
<1>4. QED
  BY <1>3

----------------------------------------------------------------------------
(* The walk *)

Walk ==
    /\ TypeOK /\ Len(results) <= Len(Gestures) /\ (crossed => step = "detect")
    /\ DOMAIN file \subseteq DOMAIN Default
    /\ step = "rename" => temp = Torn \/ temp = Calibrated
    /\ step = "saved" => file = Calibrated

LEMMA Domains ==
  /\ DOMAIN Default = {"version", "full", "rotation", "calibrated", "deadzone"}
  /\ DOMAIN Torn = {"torn"} /\ DOMAIN NoFile = {}
  /\ DOMAIN Calibrated = DOMAIN Default
  BY DEF Default, Torn, NoFile, Calibrated

LEMMA SettingsDomain ==
  ASSUME NEW f, DOMAIN f \subseteq DOMAIN Default, NEW typed \in SUBSET DOMAIN FlagValues
  PROVE  DOMAIN Effective(f, typed) = DOMAIN Default
<1>1. DOMAIN Over(f, Default) = DOMAIN Default
  BY DEF Over
<1>2. DOMAIN Load(f) = DOMAIN Default
  <2>1. DOMAIN Migrate(Over(f, Default)) = DOMAIN Default
    BY <1>1 DEF Migrate
  <2>2. QED BY <2>1 DEF Load
<1>3. typed \subseteq DOMAIN Default
  BY CalibrationAssumption
<1> HIDE DEF Load, Default
<1>4. QED
  BY <1>2, <1>3 DEF Effective, Over

LEMMA NoMotionIs == NoMotion \in Motions \cup {NoMotion} /\ Peak(NoMotion) \in Nat
  BY Dominates

LEMMA WalkInit == Init => Walk
<1> SUFFICES ASSUME Init PROVE Walk
  OBVIOUS
<1>1. Len(Gestures) \in Nat \ {0}
  BY CalibrationAssumption
<1>2. TypeOK
  BY <1>1, CalibrationAssumption DEF Init, TypeOK
<1>3. DOMAIN file \subseteq DOMAIN Default
  BY Domains, CalibrationAssumption DEF Init
<1>4. QED
  BY <1>1, <1>2, <1>3 DEF Init, Walk

LEMMA SameMeasure ==
  ASSUME UNCHANGED measured
  PROVE  Calibrated' = Calibrated
  BY DEF measured, Calibrated, ScaleOf, GroupScale, Peaks, DeadZoneNeeded

\* What a reading or its absence leads to.
LEMMA KeepWalks ==
  ASSUME Walk, step = "detect", NEW m \in Motions \cup {NoMotion},
         Keep(m, attempt), best' = NoMotion, crossed' = FALSE,
         UNCHANGED <<settings, floor, file, temp, runs>>
  PROVE  Walk'
<1>1. /\ TypeOK /\ Len(results) <= Len(Gestures) /\ Len(results) # Len(Gestures)
      /\ Len(Gestures) \in Nat /\ Len(results) \in Nat
  BY CalibrationAssumption DEF Walk, TypeOK
<1>2. [motion |-> m, attempt |-> attempt] \in Readings
  BY <1>1 DEF TypeOK, Readings
<1>3. results' \in Seq(Readings) /\ Len(results') = Len(results) + 1
  BY <1>1, <1>2 DEF Keep, TypeOK
<1>4. /\ step' = IF Len(results) + 1 = Len(Gestures) THEN "temp" ELSE "centre"
      /\ attempt' = 1 /\ UNCHANGED provisional
  BY DEF Keep
<1>5. TypeOK'
  BY <1>1, <1>3, <1>4, NoMotionIs DEF TypeOK
<1>6. Len(results') <= Len(Gestures)
  BY <1>1, <1>3
<1>7. QED
  BY <1>4, <1>5, <1>6 DEF Walk

LEMMA WalkNext == Walk /\ [Next]_vars => Walk'
<1> SUFFICES ASSUME Walk, [Next]_vars PROVE Walk'
  OBVIOUS
<1>1. TypeOK /\ Len(Gestures) \in Nat \ {0} /\ Len(results) \in Nat
  BY CalibrationAssumption DEF Walk, TypeOK
<1>2. CASE UNCHANGED vars
  <2>1. UNCHANGED <<step, settings, floor, provisional, results, attempt, best, crossed, file, temp, runs>>
    BY <1>2 DEF vars, measured
  <2>2. Calibrated' = Calibrated
    BY <2>1, SameMeasure DEF measured
  <2>3. QED BY <2>1, <2>2 DEF Walk, TypeOK
<1>3. ASSUME NEW typed \in SUBSET DOMAIN FlagValues, Calibrate(typed) PROVE Walk'
  <2>1. DOMAIN settings' = DOMAIN Default
    BY <1>3, SettingsDomain DEF Calibrate, Walk
  <2>2. runs' \in 0 .. MaxRuns
    BY <1>1, <1>3, CalibrationAssumption DEF Calibrate, TypeOK
  <2>3. ~crossed
    BY <1>3 DEF Calibrate, Walk
  <2>4. TypeOK'
    BY <1>1, <1>3, <2>1, <2>2, <2>3 DEF Calibrate, TypeOK
  <2>5. QED BY <1>1, <1>3, <2>3, <2>4 DEF Calibrate, Walk
<1>4. ASSUME NEW m \in RestMotions, NoiseSample(m) PROVE Walk'
  <2>1. Peak(m) \in Nat
    BY Dominates, CalibrationAssumption
  <2>2. QED BY <1>1, <1>4, <2>1 DEF NoiseSample, Walk, TypeOK
<1>5. CASE NoiseDone
  BY <1>1, <1>5 DEF NoiseDone, measured, Walk, TypeOK
<1>6. ASSUME NEW m \in Motions, Centred(m) PROVE Walk'
  BY <1>1, <1>6, NoMotionIs DEF Centred, measured, Walk, TypeOK
<1>7. ASSUME NEW m \in Motions, DetectSample(m) PROVE Walk'
  <2> DEFINE top == IF Peak(m) > Peak(best) THEN m ELSE best
             over == Peak(top) >= PushThreshold(provisional)
  <2>1. top \in Motions \cup {NoMotion} /\ step = "detect" /\ UNCHANGED <<settings, floor, file, temp, runs>>
    BY <1>1, <1>7 DEF DetectSample, TypeOK
  <2>2. \/ best' = top /\ crossed' = over /\ UNCHANGED <<step, results, provisional, attempt>>
        \/ Reading(top) /\ best' = NoMotion /\ crossed' = FALSE
    BY <1>7 DEF DetectSample
  <2> HIDE DEF top
  <2>3. CASE best' = top /\ crossed' = over /\ UNCHANGED <<step, results, provisional, attempt>>
    BY <1>1, <2>1, <2>3 DEF Walk, TypeOK
  <2>4. CASE Reading(top) /\ best' = NoMotion /\ crossed' = FALSE
    <3>1. CASE provisional' = Peak(top) /\ step' = "centre" /\ UNCHANGED <<results, attempt>>
      <4>1. Peak(top) \in Nat
        BY <2>1, Dominates
      <4>2. QED BY <1>1, <2>1, <2>4, <3>1, <4>1, NoMotionIs DEF Walk, TypeOK
    <3>2. CASE Keep(top, attempt)
      BY <2>1, <2>4, <3>2, KeepWalks
    <3>3. CASE attempt < 3 /\ attempt' = attempt + 1 /\ step' = "centre" /\ UNCHANGED <<results, provisional>>
      <4>1. attempt' \in 1 .. 3
        BY <1>1, <3>3 DEF TypeOK
      <4>2. QED BY <1>1, <2>1, <2>4, <3>3, <4>1, NoMotionIs DEF Walk, TypeOK
    <3>4. attempt \in 1 .. 3
      BY <1>1 DEF TypeOK
    <3>5. QED BY <2>4, <3>1, <3>2, <3>3, <3>4 DEF Reading, KeepOrRetry
  <2>5. QED BY <2>2, <2>3, <2>4
<1>8. CASE DetectTimeout
  <2>1. NoMotion \in Motions \cup {NoMotion}
    OBVIOUS
  <2>2. QED BY <1>8, <2>1, KeepWalks DEF DetectTimeout
<1>9. CASE GiveUp \/ SaveFails
  <2>1. Stop
    BY <1>9 DEF GiveUp, SaveFails
  <2>2. QED BY <1>1, <2>1, NoMotionIs DEF Stop, Walk, TypeOK
<1>10. CASE CreateTemp
  BY <1>1, <1>10 DEF CreateTemp, measured, Walk, TypeOK
<1>11. CASE FillTemp
  <2>1. Calibrated' = Calibrated
    BY <1>11, SameMeasure DEF FillTemp
  <2> HIDE DEF Calibrated
  <2>2. QED BY <1>1, <1>11, <2>1 DEF FillTemp, measured, Walk, TypeOK
<1>12. CASE Rename
  <2>1. Calibrated' = Calibrated
    BY <1>12, SameMeasure DEF Rename
  <2>2. file' = Calibrated /\ DOMAIN file' = DOMAIN Default
    BY <1>12, Domains DEF Rename, Walk
  <2>3. QED BY <1>1, <1>12, <2>1, <2>2 DEF Rename, measured, Walk, TypeOK
<1>13. QED
  BY <1>2, <1>3, <1>4, <1>5, <1>6, <1>7, <1>8, <1>9, <1>10, <1>11, <1>12 DEF Next, CommandStep

LEMMA WalkHolds == Spec => []Walk
  BY WalkInit, WalkNext, PTL DEF Spec

\* The command's state keeps to its ranges, whatever the device reports and whichever
\* keys an old file has: settings always have every key, a push that counts as
\* crossed is at least as strong as the threshold of the moment, and Save begins
\* exactly when every prompt has been answered.
THEOREM CalibrationTyped == Spec => []TypeOK
  BY WalkHolds, PTL DEF Walk

\* Wherever Save fails or is killed, config.json parses.
THEOREM SaveIsAtomic == Spec => []SettingsSurvive
<1>1. Walk => SettingsSurvive
  BY Domains DEF Walk, SettingsSurvive
<1>2. QED
  BY <1>1, WalkHolds, PTL

----------------------------------------------------------------------------
(* What is measured, and used *)

\* One axis at a time, unless it was the last attempt.
LEMMA PureNext == Walk /\ AcceptedIsPure /\ [Next]_vars => AcceptedIsPure'
<1> SUFFICES ASSUME Walk, AcceptedIsPure, [Next]_vars PROVE AcceptedIsPure'
  OBVIOUS
<1>1. results \in Seq(Readings)
  BY DEF Walk, TypeOK
<1>2. ASSUME UNCHANGED results \/ results' = <<>> PROVE AcceptedIsPure'
  BY <1>2 DEF AcceptedIsPure
<1>3. ASSUME NEW m \in Motions \cup {NoMotion}, NEW n, Keep(m, n),
             n < 3 /\ m # NoMotion => PureEnough(m)
      PROVE  AcceptedIsPure'
  <2> DEFINE r == [motion |-> m, attempt |-> n]
             k == Len(results)
  <2>1. results' = Append(results, r)
    BY <1>3 DEF Keep
  <2>2. Len(results') = k + 1 /\ k \in Nat /\ results'[k + 1] = r
        /\ \A i \in 1 .. k : results'[i] = results[i]
    BY <1>1, <2>1
  <2>3. r.attempt < 3 /\ r.motion # NoMotion =>
          \E a \in AxisSet : \A b \in AxisSet \ {a} : Abs(r.motion[b]) * 3 < Abs(r.motion[a])
    BY <1>3, Dominates
  <2>4. \A i \in 1 .. k + 1 : i \in 1 .. k \/ i = k + 1
    BY <2>2
  <2> HIDE DEF r
  <2>5. QED BY <2>2, <2>3, <2>4 DEF AcceptedIsPure
<1>4. ASSUME NEW typed, Calibrate(typed) PROVE AcceptedIsPure'
  BY <1>2, <1>4 DEF Calibrate
<1>5. ASSUME NEW m \in Motions, DetectSample(m) PROVE AcceptedIsPure'
  <2> DEFINE top == IF Peak(m) > Peak(best) THEN m ELSE best
  <2>1. top \in Motions \cup {NoMotion}
    BY DEF Walk, TypeOK
  <2>2. UNCHANGED results \/ Reading(top)
    BY <1>5 DEF DetectSample
  <2> HIDE DEF top
  <2>3. UNCHANGED results \/ (Keep(top, attempt) /\ (PureEnough(top) \/ attempt >= 3))
    BY <2>2 DEF Reading, KeepOrRetry
  <2>4. attempt \in 1 .. 3
    BY DEF Walk, TypeOK
  <2>5. attempt >= 3 => ~(attempt < 3)
    BY <2>4
  <2>6. QED BY <1>2, <1>3, <2>1, <2>3, <2>5
<1>6. CASE DetectTimeout
  BY <1>3, <1>6 DEF DetectTimeout
<1>7. CASE GiveUp \/ SaveFails
  BY <1>2, <1>7 DEF GiveUp, SaveFails, Stop
<1>8. CASE UNCHANGED vars \/ NoiseDone \/ CreateTemp \/ FillTemp \/ Rename
  BY <1>2, <1>8 DEF vars, measured, NoiseDone, CreateTemp, FillTemp, Rename
<1>9. ASSUME NEW m, NoiseSample(m) \/ Centred(m) PROVE AcceptedIsPure'
  BY <1>2, <1>9 DEF NoiseSample, Centred, measured
<1>10. QED
  BY <1>4, <1>5, <1>6, <1>7, <1>8, <1>9 DEF Next, CommandStep

\* However many axes a device has and however they cross-talk, a gesture taken at the
\* first or second attempt moved one of them three times as far as any other: the
\* loop of Dominant never forgets a runner-up.
THEOREM GesturesArePure == Spec => []AcceptedIsPure
<1>1. Init => AcceptedIsPure
  BY DEF Init, AcceptedIsPure
<1>2. QED
  BY <1>1, PureNext, WalkHolds, PTL DEF Spec

LEMMA Hundredths ==
  ASSUME NEW n \in Nat
  PROVE  /\ n \div 100 \in Nat /\ 100 * (n \div 100) <= n /\ n < 100 * (n \div 100) + 100
  OBVIOUS

\* What counts as released never counts as a push, for every noise floor up to a tenth
\* of the opening push, whatever the rounding of the percentages does.
THEOREM PushIsNoRest == Spec => []PushesAreSeparate
<1>1. ASSUME NEW f \in Nat, NEW p \in Nat, p # 0, f * 10 <= p
      PROVE  RestThreshold(f, p) < PushThreshold(p)
  <2> DEFINE six == (p * 6) \div 100
             push == (p * 35) \div 100
  <2>1. /\ six \in Nat /\ 100 * six <= p * 6 /\ p * 6 < 100 * six + 100
        /\ push \in Nat /\ 100 * push <= p * 35 /\ p * 35 < 100 * push + 100
    <3>1. p * 6 \in Nat /\ p * 35 \in Nat
      OBVIOUS
    <3>2. QED BY <3>1, Hundredths
  <2>2. RestThreshold(f, p) = Max({15, f * 2 + 5, six}) /\ PushThreshold(p) = Max({20, push})
    BY <1>1 DEF RestThreshold, PushThreshold
  <2> HIDE DEF six, push
  <2>3. 15 < 20 /\ (six < 20 \/ six < push) /\ (f * 2 + 5 < 20 \/ f * 2 + 5 < push)
    BY <1>1, <2>1
  <2>4. Max({15, f * 2 + 5, six}) \in {15, f * 2 + 5, six}
    <3>1. f * 2 + 5 \in Nat
      OBVIOUS
    <3>2. QED BY <2>1, <3>1, MaxOfThree
  <2>5. Max({20, push}) >= 20 /\ Max({20, push}) >= push /\ Max({20, push}) \in Nat
    <3>1. Max({20, push, push}) \in {20, push} /\ Max({20, push, push}) >= 20 /\ Max({20, push, push}) >= push
      BY <2>1, MaxOfThree
    <3>2. {20, push, push} = {20, push}
      OBVIOUS
    <3>3. Max({20, push, push}) = Max({20, push})
      BY <3>2
    <3>4. QED BY <2>1, <3>1, <3>3
  <2>6. PICK r \in Nat : r = Max({15, f * 2 + 5, six})
    BY <2>1, <2>4
  <2>7. PICK q \in Nat : q = Max({20, push})
    BY <2>5
  <2>8. r < q
    BY <2>1, <2>3, <2>4, <2>5, <2>6, <2>7
  <2>9. QED BY <2>2, <2>6, <2>7, <2>8
<1>2. Walk => PushesAreSeparate
  BY <1>1 DEF Walk, TypeOK, PushesAreSeparate
<1>3. QED
  BY <1>2, WalkHolds, PTL

\* A record that is given the values it has stays the same.
LEMMA Kept ==
  ASSUME NEW s, s = [k \in DOMAIN s |-> s[k]], NEW key
  PROVE  [s EXCEPT ![key] = s[key]] = s
OBVIOUS

\* A pooled scale is the largest of its peaks, or the opening push without any.
LEMMA StrongestIs ==
  ASSUME TypeOK, NEW r \in BOOLEAN
  PROVE  IF Peaks(r) \subseteq {0} THEN ScaleOf(r) = provisional
         ELSE ScaleOf(r) \in Peaks(r) /\ \A p \in Peaks(r) : p <= ScaleOf(r)
<1> DEFINE N == Len(results)
           f == [i \in 1 .. N |-> Peak(results[i].motion)]
           S == {0} \cup Peaks(r)
<1>1. N \in Nat /\ \A i \in 1 .. N : f[i] \in Nat
  <2>1. \A i \in 1 .. N : results[i].motion \in Motions \cup {NoMotion}
    <3>1. \A i \in 1 .. N : results[i] \in Readings
      BY DEF TypeOK
    <3>2. QED BY <3>1 DEF Readings
  <2>2. QED BY <2>1, Dominates DEF TypeOK
<1>2. \A x \in Peaks(r) : \E i \in 1 .. N : x = f[i]
  BY DEF Peaks
<1> HIDE DEF f, N
<1>3. PICK b \in Nat : \A i \in 1 .. N : f[i] <= b
  BY <1>1, Bounded
<1>4. S \subseteq Nat /\ S # {} /\ \A x \in S : x <= b
  BY <1>1, <1>2, <1>3
<1>5. Max(S) \in S /\ \A x \in S : x <= Max(S)
  BY <1>3, <1>4, Largest
<1>6. ScaleOf(r) = IF Max(S) = 0 THEN provisional ELSE Max(S)
  BY DEF ScaleOf, GroupScale
<1> HIDE DEF S
<1>7. CASE Peaks(r) \subseteq {0}
  BY <1>5, <1>6, <1>7 DEF S
<1>8. CASE ~(Peaks(r) \subseteq {0})
  <2>1. PICK x \in Peaks(r) : x # 0
    BY <1>8
  <2>2. x \in Nat /\ x <= Max(S) /\ Max(S) \in Nat
    BY <1>4, <1>5, <2>1 DEF S
  <2>3. Max(S) # 0
    BY <2>1, <2>2
  <2>4. QED BY <1>5, <1>6, <1>8, <2>3 DEF S
<1>9. QED
  BY <1>7, <1>8

\* What the bridge uses after a calibration is what was measured, half by half, for
\* any prompts, readings and timeouts, unless a typed flag says otherwise.
THEOREM MeasuredReachesTheLoop == Spec => []MeasuredIsUsed
<1>1. Walk => MeasuredIsUsed
  <2> SUFFICES ASSUME Walk, step = "saved", NEW typed \in SUBSET DOMAIN FlagValues
               PROVE  LET c == Effective(file, typed)
                          Strongest(scale, rotation) ==
                              IF Peaks(rotation) \subseteq {0} THEN scale = provisional
                              ELSE scale \in Peaks(rotation) /\ \A p \in Peaks(rotation) : p <= scale
                      IN  /\ c.calibrated
                          /\ "full" \notin typed => Strongest(c.full, FALSE)
                          /\ "rotation" \notin typed => Strongest(c.rotation, TRUE)
    BY DEF MeasuredIsUsed
  <2>1. file = Calibrated /\ TypeOK
    BY DEF Walk
  <2> DEFINE full == ScaleOf(FALSE)
             rotation == ScaleOf(TRUE)
             c == Effective(Calibrated, typed)
  <2>2. PICK zone : Calibrated = [version |-> 3, full |-> full, rotation |-> rotation,
                                  calibrated |-> TRUE, deadzone |-> zone]
    BY DEF Calibrated
  <2> HIDE DEF full, rotation
  <2>3. Over(Calibrated, Default) = Calibrated
    BY <2>2 DEF Over, Default
  <2>4. Calibrated # NoFile
    BY <2>2, Domains
  <2>5. Load(Calibrated) = Calibrated
    <3>1. Migrate(Calibrated) = Calibrated
      <4>1. Calibrated.version = 3 /\ Calibrated.calibrated = TRUE /\ Calibrated = [k \in DOMAIN Calibrated |-> Calibrated[k]]
        BY <2>2
      <4>2. Migrate(Calibrated) = [Calibrated EXCEPT !.rotation = Calibrated.rotation, !.calibrated = TRUE, !.version = 3]
        <5>1. (Calibrated.calibrated \/ Calibrated.version < 3) = TRUE
          BY <4>1, Zenon
        <5>2. ~(Calibrated.version < 2)
          BY <4>1
        <5> HIDE DEF Calibrated
        <5>3. QED BY <4>1, <5>1, <5>2 DEF Migrate
      <4>3. ASSUME NEW x, NEW y, NEW z, NEW s,
                   s = [version |-> 3, full |-> x, rotation |-> y, calibrated |-> TRUE, deadzone |-> z]
            PROVE  [s EXCEPT !.rotation = y, !.calibrated = TRUE, !.version = 3] = s
        <5>1. s = [k \in DOMAIN s |-> s[k]]
          BY <4>3
        <5>2. s.rotation = y /\ s.calibrated = TRUE /\ s.version = 3
          BY <4>3
        <5>3. [s EXCEPT !.rotation = s.rotation] = s
          BY <5>1, Kept
        <5>4. [s EXCEPT !.calibrated = s.calibrated] = s
          BY <5>1, Kept
        <5>5. [s EXCEPT !.version = s.version] = s
          BY <5>1, Kept
        <5>6. [s EXCEPT !.rotation = y] = s /\ [s EXCEPT !.calibrated = TRUE] = s /\ [s EXCEPT !.version = 3] = s
          BY <5>2, <5>3, <5>4, <5>5, Zenon
        <5>7. [s EXCEPT !.rotation = y, !.calibrated = TRUE, !.version = 3] = [[[s EXCEPT !.rotation = y] EXCEPT !.calibrated = TRUE] EXCEPT !.version = 3]
          OBVIOUS
        <5>8. QED BY <5>6, <5>7, Zenon
      <4>4. Calibrated.rotation = rotation
        BY <2>2
      <4>5. QED BY <2>2, <4>2, <4>3, <4>4
    <3>2. QED BY <2>3, <2>4, <3>1 DEF Load
  <2>6. "calibrated" \notin typed
    BY CalibrationAssumption
  <2>7. /\ c.calibrated = TRUE
        /\ "full" \notin typed => c.full = full
        /\ "rotation" \notin typed => c.rotation = rotation
    BY <2>2, <2>5, <2>6 DEF Effective, Over
  <2>8. QED BY <2>1, <2>7, StrongestIs DEF full, rotation
<1>2. QED
  BY <1>1, WalkHolds, PTL
=============================================================================
