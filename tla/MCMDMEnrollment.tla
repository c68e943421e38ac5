--------------------------- MODULE MCMDMEnrollment ---------------------------
(* Two devices, or one with more sessions, for TLC. *)
EXTENDS MDMEnrollment

CONSTANTS d1, d2
=============================================================================
