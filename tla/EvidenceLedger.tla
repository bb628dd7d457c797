--------------------------- MODULE EvidenceLedger ---------------------------
(***************************************************************************)
(* What intake promises: the directories under intake/raw only grow, each  *)
(* is entered in the ledger once, as a whole and as it was found, and an   *)
(* entry is never changed again ("raw files are immutable evidence",       *)
(* README.md).                                                             *)
(***************************************************************************)
CONSTANTS
  Dirs,      \* directories under intake/raw
  Contents   \* what a directory may hold: files with their content

VARIABLES
  held,      \* what each directory holds
  ledger     \* what was entered for it, {} when nothing was
evidence == <<held, ledger>>

Init ==
  /\ held = [d \in Dirs |-> {}]
  /\ ledger = [d \in Dirs |-> {}]

Deliver(d) ==
  /\ \E c \in Contents : held' = [held EXCEPT ![d] = @ \cup {c}]
  /\ UNCHANGED ledger

\* Material delivered while the files are being read may be left out.
Enter(d) ==
  /\ ledger[d] = {}
  /\ \E entry \in (SUBSET held[d]) \ {{}} : ledger' = [ledger EXCEPT ![d] = entry]
  /\ UNCHANGED held

Next == \E d \in Dirs : Deliver(d) \/ Enter(d)

Spec == Init /\ [][Next]_evidence

=============================================================================
