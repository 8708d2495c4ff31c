---------------------------- MODULE MCEventBuilding ----------------------------
(***************************************************************************)
(* Instances of EventBuilding for TLC: fragments of the trigger and of two *)
(* detectors, which agree or disagree on the bunch crossing.  Header sizes *)
(* are scaled down; their order is that of the build.                      *)
(***************************************************************************)
EXTENDS EventBuilding, TLC

CONSTANTS o1, o2, o3, o4

ObjectSymmetry == Permutations(Objects)

ThreeSources == {TriggerSourceID, TrackerSourceID, PMTSourceID}
TwoSources   == {TriggerSourceID, TrackerSourceID}

AByte   == [kind |-> "data", value |-> 7]
OneByte == {<<AByte>>}
AnySize == {<<>>, <<AByte>>}

ErrorStatus     == {{ErrorFragment}}
TwoStatuses     == {{BCIDMismatch}, {ErrorFragment}}
FirstTriggerBit == {{0}}
===============================================================================
