------------------------------- MODULE MCServer --------------------------------
(* An instance of Server for TLC: two lines, of which the first may be blank. *)
EXTENDS Server

MCBlanks == {{}, {1}}
=============================================================================
