---------------------------- MODULE MCConcurrent ----------------------------
(***************************************************************************)
(* Two terminals over a graph of two nodes: the entry may ask, and its     *)
(* success or the answer activates the other.                              *)
(***************************************************************************)
EXTENDS ConcurrentCommands, TLC

CONSTANTS p1, p2

MCSymmetry == Permutations({p1, p2})
MCNodes == {"ask", "use"}
MCIdRank == [n \in MCNodes |-> IF n = "ask" THEN 1 ELSE 2]
MCPhaseOf == [n \in MCNodes |-> 0]
ToUse ==
  [target |-> "use", condition |-> [name |-> "always", node |-> "ask", phase |-> 0]]
MCOutgoing == [n \in MCNodes |-> IF n = "ask" THEN <<ToUse>> ELSE <<>>]
MCRequires == [n \in MCNodes |-> {}]
MCJoin == [n \in MCNodes |-> "all"]
MCMaxAttempts == [n \in MCNodes |-> 2]
MCOutcomes == [n \in MCNodes |-> IF n = "ask" THEN {"success"} ELSE {"failed", "quota"}]
MCAskedOutcomes == [n \in MCNodes |-> {"waiting_for_input"}]
MCResumeNode == [n \in MCNodes |-> "use"]
=============================================================================
