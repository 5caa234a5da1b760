---------------------------- MODULE MCCorrelator ----------------------------
(* Correlator with two agents and two entities, for TLC. *)
EXTENDS Correlator

CONSTANTS a1, a2, e1

TwoKeys == {<<"bf", a1, e1>>, <<"beacon", a2, e1>>}

\* In units of 75 s or so, but for the order of the windows, which is the code's:
\* bruteForceWindow < refire = exfilWindow < beaconWindow.
SmallCount  == [bf |-> 2, usbcopy |-> 3, beacon |-> 4]
SmallWindow == [bf |-> 2, usbcopy |-> 1, beacon |-> 4]
=============================================================================
