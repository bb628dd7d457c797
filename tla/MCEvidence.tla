----------------------------- MODULE MCEvidence -----------------------------
(***************************************************************************)
(* The foundation graph over a small estate: two programs of one name, a   *)
(* workbook, one that does not open and a dictionary that name the same    *)
(* tables, and the files a request may be answered with.                   *)
(***************************************************************************)
EXTENDS EvidenceTrail, FoundationGraph

Estate ==
  [jobs |-> [media |-> "sas-source", columns |-> "nothing", names |-> {"T1", "T2"}],
   twin |-> [media |-> "sas-source", columns |-> "nothing", names |-> {"T3"}],
   book |-> [media |-> "office-excel", columns |-> "inventory", names |-> {"T1"}],
   torn |-> [media |-> "office-excel", columns |-> "inventory", names |-> {"T2"}],
   old |-> [media |-> "office-excel-legacy", columns |-> "process", names |-> {"P1"}],
   dict |-> [media |-> "csv", columns |-> "dictionary", names |-> {"T1", "T9"}],
   run |-> [media |-> "log-text", columns |-> "events", names |-> {"P1"}],
   noise |-> [media |-> "log-text", columns |-> "nothing", names |-> {}],
   deps |-> [media |-> "csv", columns |-> "export", names |-> {"T1"}],
   void |-> [media |-> "csv", columns |-> "export", names |-> {}]]

EstateFiles == DOMAIN Estate
EstateMedia == [f \in EstateFiles |-> Estate[f].media]
EstateColumns == [f \in EstateFiles |-> Estate[f].columns]
EstateMentions == [f \in EstateFiles |-> Estate[f].names]
EstateProcess == [f \in EstateFiles |-> IF f = "twin" THEN "jobs" ELSE f]
EstateOrder ==
  <<"jobs", "twin", "book", "torn", "old", "dict", "run", "noise", "deps", "void">>
EstateReadOrder ==
  [f \in EstateFiles |-> CHOOSE i \in DOMAIN EstateOrder : EstateOrder[i] = f]

EstateStaged ==
  {{"jobs", "book", "dict", "run"}, {"jobs", "twin", "noise"},
   {"book", "torn", "old", "run"}, {"jobs"}}
EstateDelivered == {{"run"}, {"deps"}, {"void"}}
=============================================================================
