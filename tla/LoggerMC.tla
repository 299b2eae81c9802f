------------------------------ MODULE LoggerMC -------------------------------
(* Lists of appenders for TLC. *)
EXTENDS Logger

CONSTANTS a1, a2

Two == <<a1, a2>>
=============================================================================
