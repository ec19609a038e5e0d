----------------------------- MODULE MCLocalStore -----------------------------
(* Instances of LocalStore for TLC. *)
EXTENDS LocalStore

\* One object in each of two days of one stream.
MCObject == {<<"s", "x", "f">>, <<"s", "y", "g">>}
=============================================================================
