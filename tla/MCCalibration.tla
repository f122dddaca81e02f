----------------------------- MODULE MCCalibration -----------------------------
(***************************************************************************)
(* Calibration with one sliding and one tipping prompt, and readings as    *)
(* docs/05 and docs/10 report them of real devices.                        *)
(***************************************************************************)
EXTENDS Calibration

MCAxes == <<"x", "z", "rx">>
MCRotationAxes == {"rx"}
At(x, z, rx) == [x |-> x, z |-> z, rx |-> rx]

MCRestMotions == {At(0, 0, 0), At(0, -4, 11)}
MCMotions ==
    MCRestMotions \cup
        {At(-350, 0, 0), At(146, 20, 0), At(0, 0, 146), At(40, 0, 0),
         At(60, 0, -146), At(0, 216, 350), At(22, 0, 0)}

MCGestures == <<FALSE, TRUE>>

\* Written by the first and the second version, and by hand.
MCOldFiles ==
    {[version |-> 1, full |-> 216],
     [version |-> 2, full |-> 216, rotation |-> 146],
     [rotation |-> 146, deadzone |-> <<1, 10>>]}

MCFlagValues == [full |-> 300, deadzone |-> <<2, 100>>]
=============================================================================
