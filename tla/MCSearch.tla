------------------------------- MODULE MCSearch --------------------------------
(* Instances of Search for TLC. *)
EXTENDS Search

MCAsks == [c \in Client |-> IF c = "list" THEN {"search"} ELSE {"scan", "counts"}]

MCMaxRequests == [c \in Client |-> IF c = "list" THEN 2 ELSE 1]
=============================================================================
