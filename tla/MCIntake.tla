------------------------------ MODULE MCIntake ------------------------------
(***************************************************************************)
(* Two batches that share a file's content, one request.                   *)
(***************************************************************************)
EXTENDS BatchIntake

SortedDirs == [d \in Dirs |-> CASE d = "BAT-export" -> 1 [] d = "BAT-manual" -> 2 [] d = "req-1" -> 3]

\* The same file was delivered twice; the other files differ.
MCContent ==
  [x \in Dirs \X Names |->
     IF x[2] = "jobs.sas" THEN <<"both", "jobs.sas">> ELSE x]

=============================================================================
