----------------------------- MODULE MCLauncher -----------------------------
(* Launcher for TLC: its constants are plain values. *)
EXTENDS Launcher
=============================================================================
