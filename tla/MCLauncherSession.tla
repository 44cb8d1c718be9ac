------------------------- MODULE MCLauncherSession -------------------------
(* Instances of LauncherSession for TLC. *)
EXTENDS LauncherSession, TLC

CONSTANTS p1, p2, f1, f2

=============================================================================
