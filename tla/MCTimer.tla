-------------------------------- MODULE MCTimer -------------------------------
(* An instance of Timer for TLC: two devices, a CPU and the loader.        *)
EXTENDS Timer

CONSTANTS d1, d2
==============================================================================
