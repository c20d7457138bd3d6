-------------------------- MODULE MCSliceLifecycle --------------------------
(* Two registrations of one slice with two devices each, the last entry of *)
(* the second malformed; or one with three devices, the last malformed.    *)
EXTENDS SliceLifecycle

CONSTANTS w1, w2

TwoWatchers  == {w1, w2}
OneWatcher   == {w1}
FourIncidents  == {w1, w2} \X {1, 2}
ThreeIncidents == {w1} \X {1, 2, 3}
LastEntry  == {<<w2, 2>>}
LastDevice == {<<w1, 3>>}

AllFaults == {"activate", "attach", "delete", "get"}
=============================================================================
