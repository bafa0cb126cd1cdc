------------------------- MODULE MC_LoggerRegistry -------------------------
(* LoggerRegistry instantiated for TLC: the constants are model values     *)
(* given in the cfg files.                                                 *)
EXTENDS LoggerRegistry

=============================================================================
