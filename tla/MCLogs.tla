------------------------------- MODULE MCLogs -------------------------------
(***************************************************************************)
(* One line of each kind the assembler tells apart.                        *)
(***************************************************************************)
EXTENDS LogAssembler

Line(anchor, facts) ==
  [anchor |-> anchor, blank |-> "blank" \in facts, date |-> "date" \in facts,
   echo |-> "echo" \in facts, odd |-> "odd" \in facts, dash |-> "dash" \in facts,
   lead |-> "lead" \in facts]

\* A TB_LOG line may be whole, cut inside a quoted field or cut at a dash, and
\* its continuation may close the quote or start with one.
LogLines ==
  {Line("PAGE_HEADER", {}), Line("none", {"date"}), Line("none", {"blank"}),
   Line("TB_LOG", {}), Line("TB_LOG", {"odd"}), Line("TB_LOG", {"dash"}),
   Line("none", {"odd"}), Line("none", {"lead"}),
   Line("SAS_MESSAGE", {}), Line("SAS_SOURCE", {}), Line("none", {"echo"}),
   Line("CHECKPOINT", {}), Line("none", {})}

=============================================================================
