------------------------------- MODULE MCHistory -------------------------------
(* An instance of History for TLC.  1 is "User", 2 "user", which a case-blind *)
(* reader takes for one column, and 3 "o".  The last line is syslog's.        *)
EXTENDS History, TLC

MCFolded == (1 :> "a_user") @@ (2 :> "a_user") @@ (3 :> "a_o")

MCMenu ==
  << [level |-> 50, json |-> TRUE, fields |-> (1 :> Int_(1)) @@ (3 :> Str(5))],
     [level |-> 30, json |-> TRUE, fields |-> (1 :> Str(2)) @@ (2 :> Int_(10))],
     [level |-> 50, json |-> TRUE, fields |-> (1 :> Null) @@ (2 :> Str(5)) @@ (3 :> JSON(6))],
     [level |-> 30, json |-> FALSE, fields |-> (1 :> Str(5)) @@ (3 :> Str(2))] >>
=============================================================================
