------------------------- MODULE MCDeviceInstance -------------------------
(***************************************************************************)
(* Instances of DeviceInstance for TLC.                                    *)
(***************************************************************************)
EXTENDS DeviceInstance, TLC

CONSTANTS a1, a2, s1, s2, r1, r2

MCSymmetry == Permutations(App) \cup Permutations(Sessions)
MCOneSession == {s1}
MCSessions == {s1, s2}
MCRoutes == {r1, r2}
MCOneRoute == {r1}
MCOneApp == {a1}
MCTwoApps == {a1, a2}
MCCap00 == [c \in Chan |-> 0]
MCCap10 == [sig |-> 1, str |-> 0]
MCCap02 == [sig |-> 0, str |-> 2]
=============================================================================
