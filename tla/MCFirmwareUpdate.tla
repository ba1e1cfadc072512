-------------------------- MODULE MCFirmwareUpdate --------------------------
(* Instances of FirmwareUpdate for TLC. *)
EXTENDS FirmwareUpdate, TLC

CONSTANTS p1, p2, p3, u1, u2, t1, t2

\* One board; the third package is for another type.
OneBoard == <<t1>>
TwoFit == [p \in Package |-> IF p = p3 THEN {t2} ELSE {t1}]

\* Two boards of different types; all packages fit both.
TwoBoards == <<t1, t2>>
AllFit == [p \in Package |-> Type]

\* Process slots are interchangeable (used by runs without liveness).
UpdaterSymmetry == Permutations(Updater)
=============================================================================
