------------------------------ MODULE MCAgent ------------------------------
(***************************************************************************)
(* An agent node with the shipped limits and a program that may print      *)
(* whatever it likes.                                                      *)
(***************************************************************************)
EXTENDS AgentInvocation

AnyReply == PossibleReplies

\* Replies that match both a quota pattern and "unauthorized", or neither.
QuotaReplies ==
  {r \in PossibleReplies : r.form = "output" /\ ~r.fenced /\ r.envelope \in {"none", "success"}}

=============================================================================
