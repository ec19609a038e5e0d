------------------------------- MODULE Records -------------------------------
(* What the log stores and the catalogue describes. *)

CONSTANT Record     \* everything that can be appended
=============================================================================
