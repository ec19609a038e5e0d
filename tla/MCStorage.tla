------------------------------ MODULE MCStorage ------------------------------
(* Instances of Storage for TLC. *)
EXTENDS Storage

CONSTANTS MaxSeq, StreamNames, Times

\* Streams are numbered so that the first record is in the first of them.
MCRecord ==
  {r \in [seq : 1..MaxSeq, stream : StreamNames, ts : Times] :
     r.seq = 1 => r.stream = 1}
=============================================================================
