--------------------------- MODULE MCW5x00Driver ---------------------------
(* The driver core for TLC: the actors are model values.                   *)
EXTENDS W5x00DriverInv

CONSTANTS main, app, tcpip, bgd, none
=============================================================================
