---------------------------- MODULE IntakeProofs ----------------------------
(***************************************************************************)
(* Machine-checked proofs that the registration of raw material keeps its  *)
(* promises for any directories, files and contents, and any number of     *)
(* deliveries, commands, kills and unreadable files.                       *)
(***************************************************************************)
EXTENDS BatchIntake, SequenceTheorems, TLAPS

USE DEF disk, tables, marks, requests, node, locals, budgets

LEMMA InitIntake == Init => IntakeInv
<1> SUFFICES ASSUME Init PROVE IntakeInv OBVIOUS
<1> USE IntakeAssumption DEF Init
<1>1. TypeOK BY DEF TypeOK, BatchIds, CommandNames, Artifacts
<1>2. \A d \in Dirs : Rows(d) = {} /\ ~Sealed(d) /\ ~RowRefused(d)
  BY DEF Rows, Sealed, RowRefused
<1>3. FlaggedIsSealed /\ NothingSkipped /\ RowsAreBacked
  BY <1>2 DEF FlaggedIsSealed, NothingSkipped, RowsAreBacked, Dirs
<1>4. BatchInProgress /\ CommandInProgress /\ SealedIsComplete /\ OneOriginal
  BY <1>2 DEF BatchInProgress, CommandInProgress, SealedIsComplete, OneOriginal
<1> QED BY <1>1, <1>3, <1>4 DEF IntakeInv

\* What the type invariant says of one artifact row.
LEMMA ArtifactTypes ==
  ASSUME TypeOK
  PROVE  /\ Len(artifacts) \in Nat /\ DOMAIN artifacts = 1..Len(artifacts)
         /\ \A i \in DOMAIN artifacts :
              /\ artifacts[i] \in Artifacts
              /\ artifacts[i].dir \in Dirs /\ artifacts[i].path \in Names
<1>1. artifacts \in Seq(Artifacts) BY DEF TypeOK
<1>2. \A i \in DOMAIN artifacts : artifacts[i] \in Artifacts BY <1>1
<1> QED BY <1>1, <1>2 DEF Artifacts

(***************************************************************************)
(* Material arrives.                                                       *)
(***************************************************************************)
\* A delivery only adds to what is there.
LEMMA DiskGrows ==
  ASSUME IntakeInv, UNCHANGED <<tables, marks, resolved, answered, node, pc, locals, last>>,
         UNCHANGED <<commands, crashes, faults>>,
         open' \subseteq RequestDirs, deliveries' \in Nat,
         present' \subseteq Dirs, present \subseteq present', 
         material' \in [Dirs -> SUBSET Names],
         \A d \in Dirs : material[d] \subseteq material'[d]
                         /\ (material'[d] # {} => d \in present')
  PROVE  IntakeInv'
<1>1. TypeOK' BY DEF IntakeInv, TypeOK
<1>2. \A d \in Dirs : /\ Rows(d)' = Rows(d) /\ (Sealed(d)' <=> Sealed(d))
                      /\ (RowRefused(d)' <=> RowRefused(d))
  BY DEF Rows, Sealed, RowRefused
<1>3. \A i \in DOMAIN artifacts : artifacts[i].dir \in Dirs BY ArtifactTypes DEF IntakeInv
<1>4. RowsAreBacked' BY <1>2, <1>3 DEF IntakeInv, RowsAreBacked
<1>5. BatchInProgress' BY <1>2 DEF IntakeInv, BatchInProgress
<1>6. FlaggedIsSealed' /\ NothingSkipped' /\ CommandInProgress'
  BY DEF IntakeInv, FlaggedIsSealed, NothingSkipped, CommandInProgress, Sealed, RowRefused
<1>7. SealedIsComplete' /\ OneOriginal'
  BY DEF IntakeInv, SealedIsComplete, OneOriginal, Rows, Sealed
<1> QED BY <1>1, <1>4, <1>5, <1>6, <1>7 DEF IntakeInv

LEMMA ArrivalKeeps == ASSUME IntakeInv, Arrival PROVE IntakeInv'
<1>1. PICK d \in Dirs : AddInput(d) \/ DeliverAnswer(d) \/ AskForInput(d) BY DEF Arrival
<1>2. ASSUME NEW names \in SUBSET Files, Arrive(d, names) PROVE IntakeInv'
  <2>1. /\ present' \subseteq Dirs /\ present \subseteq present'
        /\ material' \in [Dirs -> SUBSET Names]
        /\ open' \subseteq RequestDirs /\ deliveries' \in Nat
    BY <1>2 DEF Arrive, IntakeInv, TypeOK, Names
  <2>2. \A x \in Dirs : material[x] \subseteq material'[x]
                        /\ (material'[x] # {} => x \in present')
    BY <1>2 DEF Arrive, IntakeInv, TypeOK, RowsAreBacked
  <2> QED BY <1>2, <2>1, <2>2, DiskGrows DEF Arrive
<1>3. CASE AddInput(d) BY <1>2, <1>3 DEF AddInput
<1>4. CASE DeliverAnswer(d) BY <1>2, <1>4 DEF DeliverAnswer
<1>5. CASE AskForInput(d)
  <2>1. /\ present' \subseteq Dirs /\ present \subseteq present'
        /\ material' \in [Dirs -> SUBSET Names]
        /\ open' \subseteq RequestDirs /\ deliveries' \in Nat
    BY <1>5 DEF AskForInput, IntakeInv, TypeOK, Names
  <2>2. material[d] = {} BY <1>5 DEF AskForInput, IntakeInv, RowsAreBacked
  <2>3. \A x \in Dirs : material[x] \subseteq material'[x]
                        /\ (material'[x] # {} => x \in present')
    BY <1>5, <2>2 DEF AskForInput, IntakeInv, TypeOK, RowsAreBacked
  <2> QED BY <1>5, <2>1, <2>3, DiskGrows DEF AskForInput
<1> QED BY <1>1, <1>3, <1>4, <1>5

(***************************************************************************)
(* Commands, and steps that write no row of a batch.                       *)
(***************************************************************************)
\* Neither the files nor the rows of a batch move.
StoreUntouched == UNCHANGED <<disk, tables, flagged>>

\* What is left to show of such a step.
LEMMA OnlyTheCommandMoves ==
  ASSUME IntakeInv, StoreUntouched, TypeOK', NothingSkipped', BatchInProgress',
         CommandInProgress'
  PROVE  IntakeInv'
<1>1. FlaggedIsSealed' /\ RowsAreBacked' /\ SealedIsComplete' /\ OneOriginal'
  BY DEF StoreUntouched, IntakeInv, FlaggedIsSealed, RowsAreBacked, SealedIsComplete,
         OneOriginal, Rows, Sealed, RowRefused
<1> QED BY <1>1 DEF IntakeInv

\* A command that ends leaves its node off RUNNING and no batch in progress.
LEMMA CommandEnds ==
  ASSUME IntakeInv, StoreUntouched, NEW how, EndCommand(how), TypeOK',
         intake' # "RUNNING",
         intake' = "SUCCEEDED" =>
           \A d \in BatchDirs : RowRefused(d) => Sealed(d)
  PROVE  IntakeInv'
<1>1. NothingSkipped' /\ BatchInProgress' /\ CommandInProgress'
  BY DEF EndCommand, StoreUntouched, NothingSkipped, BatchInProgress, CommandInProgress,
         Sealed, RowRefused
<1> QED BY <1>1, OnlyTheCommandMoves

\* The types of such a step, when it issues a command.
LEMMA CommandTypes ==
  ASSUME IntakeInv, UNCHANGED <<disk, tables, marks>>, NEW command, Issue(command),
         open' \subseteq RequestDirs, resolved' \subseteq RequestDirs, answered' = answered,
         intake' \in {intake, "READY", "RUNNING", "WAITING_FOR_INPUT"},
         attempts' \in 0..IntakeAttempts,
         \/ \E how \in {"error", "waiting", "started"} : EndCommand(how)
         \/ /\ pc' = "lookup" /\ mode' = "answer" /\ cur' \in Dirs /\ newId' = "resolution"
            /\ UNCHANGED <<queue, unread, listed, last>>
         \/ /\ pc' \in {"idle", "scan"} /\ mode' \in {mode, "start", "run"}
            /\ queue' \in {queue, present} /\ UNCHANGED <<cur, newId, unread, listed, last>>
  PROVE  TypeOK'
<1>1. deliveries' \in Nat /\ commands' \in Nat /\ crashes' \in Nat /\ faults' \in Nat
  BY DEF Issue, IntakeInv, TypeOK
<1>2. /\ pc' \in {"idle", "scan", "lookup"} /\ mode' \in CommandNames /\ queue' \subseteq Dirs
      /\ cur' \in Dirs \cup {"none"} /\ newId' \in BatchIds
      /\ unread' \subseteq Names /\ listed' \subseteq Nat
      /\ last' \in {"none", "started", "waiting", "answered", "error", "refused", "crashed"}
  BY DEF EndCommand, IntakeInv, TypeOK, CommandNames, BatchIds
<1>3. /\ present' \subseteq Dirs /\ material' \in [Dirs -> SUBSET Names]
      /\ batchId' \in [Dirs -> BatchIds] /\ hashed' \in [Dirs -> SUBSET Entries]
      /\ artifacts' \in Seq(Artifacts) /\ manifests' \in [Dirs -> SUBSET Nat]
      /\ flagged' \subseteq Dirs /\ findings' \subseteq Dirs
      /\ open' \subseteq RequestDirs /\ resolved' \subseteq RequestDirs
      /\ answered' \subseteq RequestDirs
  BY DEF IntakeInv, TypeOK
<1>4. intake' \in {"READY", "RUNNING", "WAITING_FOR_INPUT", "SUCCEEDED", "FAILED"}
  BY DEF IntakeInv, TypeOK
<1> QED BY <1>1, <1>2, <1>3, <1>4 DEF TypeOK

LEMMA OperatorKeeps == ASSUME IntakeInv, OperatorStep PROVE IntakeInv'
<1> USE IntakeAssumption
<1>1. StoreUntouched \/ \E d \in RequestDirs : Answer(d)
  BY DEF OperatorStep, Start, RunRegister, Unblock, StoreUntouched
<1>2. deliveries \in Nat /\ commands \in Nat BY DEF IntakeInv, TypeOK
<1>3. ASSUME NEW command \in {"start", "run"}, Issue(command), ListCandidates(command),
             UNCHANGED <<disk, tables, marks, requests>>
      PROVE  IntakeInv'
  <2>0. attempts' \in 0..IntakeAttempts
    BY <1>3 DEF ListCandidates, IntakeInv, TypeOK, Exhausted
  <2>1. TypeOK'
    BY <1>3, <2>0, CommandTypes DEF ListCandidates, Candidates, IntakeInv, TypeOK
  <2>2. CASE EndCommand("error") \/ EndCommand("waiting")
    <3>1. intake' # "RUNNING"
      BY <1>3, <2>2 DEF ListCandidates, EndCommand, Issue, IntakeInv, CommandInProgress
    <3>2. intake' = "SUCCEEDED" => intake = "SUCCEEDED"
      BY <1>3, <2>2 DEF ListCandidates
    <3> QED BY <1>3, <2>1, <2>2, <3>1, <3>2, CommandEnds
      DEF IntakeInv, NothingSkipped, StoreUntouched
  <2>3. CASE intake' = "RUNNING" /\ pc' = "scan" /\ mode' = command /\ queue' = present
    <3>1. NothingSkipped'
      BY <1>3, <2>3
      DEF IntakeInv, NothingSkipped, RowsAreBacked, RowRefused, Sealed, Dirs
    <3>2. BatchInProgress' /\ CommandInProgress'
      BY <1>3, <2>3 DEF BatchInProgress, CommandInProgress
    <3> QED BY <1>3, <2>1, <3>1, <3>2, OnlyTheCommandMoves DEF StoreUntouched
  <2> QED BY <1>3, <2>2, <2>3 DEF ListCandidates, Candidates
<1>4. CASE Start
  <2>1. CASE intake = "READY" BY <1>3, <1>4, <2>1 DEF Start
  <2>2. CASE intake # "READY"
    <3>1. TypeOK'
      BY <1>4, <2>2, CommandTypes DEF Start, IntakeInv, TypeOK
    <3>2. intake' # "RUNNING" /\ intake' = intake
      BY <1>4, <2>2 DEF Start, Issue, IntakeInv, CommandInProgress
    <3> QED BY <1>4, <2>2, <3>1, <3>2, CommandEnds
      DEF Start, IntakeInv, NothingSkipped, StoreUntouched
  <2> QED BY <2>1, <2>2
<1>5. CASE RunRegister BY <1>3, <1>5 DEF RunRegister
<1>6. CASE Unblock
  <2>0. /\ open' \subseteq RequestDirs /\ resolved' \subseteq RequestDirs
        /\ attempts' \in 0..IntakeAttempts /\ pc' = "idle" /\ Issue("unblock")
    BY <1>6 DEF Unblock, Issue, IntakeInv, TypeOK
  <2>1. TypeOK' BY <1>6, <2>0, CommandTypes DEF Unblock
  <2> QED BY <1>6, <2>1, OnlyTheCommandMoves
    DEF Unblock, Issue, StoreUntouched, IntakeInv, NothingSkipped, BatchInProgress,
        CommandInProgress, RowRefused, Sealed
<1>7. ASSUME NEW d \in RequestDirs, Answer(d) PROVE IntakeInv'
  <2>1. TypeOK'
    BY <1>7, CommandTypes DEF Answer, IntakeInv, TypeOK, Dirs
  <2>2. intake # "RUNNING" BY <1>7 DEF Answer, Issue, IntakeInv, CommandInProgress
  <2> QED BY <1>7, <2>1, <2>2, OnlyTheCommandMoves
    DEF Answer, Issue, StoreUntouched, IntakeInv, NothingSkipped, BatchInProgress,
        CommandInProgress, RowRefused, Sealed, Dirs
<1> QED BY <1>4, <1>5, <1>6, <1>7 DEF OperatorStep

LEMMA ScanKeeps ==
  ASSUME IntakeInv, ScanDone \/ \E d \in Dirs : NextCandidate(d) PROVE IntakeInv'
<1>1. CASE ScanDone
  <2>1. TypeOK'
    BY <1>1 DEF ScanDone, EndCommand, IntakeInv, TypeOK, CommandNames, BatchIds
  <2>2. \A d \in BatchDirs : RowRefused(d) => Sealed(d)
    BY <1>1 DEF ScanDone, IntakeInv, NothingSkipped, CommandInProgress
  <2> QED BY <1>1, <2>1, <2>2, CommandEnds DEF ScanDone, StoreUntouched
<1>2. ASSUME NEW d \in Dirs, NextCandidate(d) PROVE IntakeInv'
  <2>1. TypeOK'
    BY <1>2 DEF NextCandidate, IntakeInv, TypeOK, BatchIds
  <2>2. d \in flagged => Sealed(d) BY DEF IntakeInv, FlaggedIsSealed
  <2>3. mode # "answer" BY <1>2 DEF NextCandidate, IntakeInv, CommandInProgress
  <2>4. NothingSkipped'
    BY <1>2, <2>2 DEF NextCandidate, IntakeInv, NothingSkipped, RowRefused, Sealed
  <2>5. BatchInProgress' /\ CommandInProgress'
    BY <1>2, <2>3 DEF NextCandidate, IntakeInv, BatchInProgress, CommandInProgress
  <2> QED BY <1>2, <2>1, <2>4, <2>5, OnlyTheCommandMoves
    DEF NextCandidate, StoreUntouched
<1> QED BY <1>1, <1>2

LEMMA RefusalKeeps ==
  ASSUME IntakeInv, RefuseBatch \/ ReadFails \/ Crash PROVE IntakeInv'
<1>1. ASSUME NEW how \in {"error", "refused"}, Raise(how), pc # "idle", StoreUntouched,
             UNCHANGED <<marks, requests, deliveries, commands, crashes>>, faults' \in Nat
      PROVE  IntakeInv'
  <2>1. TypeOK'
    BY <1>1
    DEF Raise, EndCommand, IntakeInv, TypeOK, CommandNames, BatchIds, StoreUntouched
  <2>2. intake' # "RUNNING" /\ (intake' = "SUCCEEDED" => intake = "SUCCEEDED")
    BY <1>1 DEF Raise, IntakeInv, CommandInProgress
  <2> QED BY <1>1, <2>1, <2>2, CommandEnds DEF Raise, IntakeInv, NothingSkipped
<1>2. faults \in Nat /\ crashes \in Nat BY DEF IntakeInv, TypeOK
<1>3. CASE RefuseBatch BY <1>1, <1>2, <1>3 DEF RefuseBatch, StoreUntouched
<1>4. CASE ReadFails BY <1>1, <1>2, <1>4 DEF ReadFails, StoreUntouched
<1>5. CASE Crash
  <2>1. TypeOK'
    BY <1>2, <1>5 DEF Crash, EndCommand, IntakeInv, TypeOK, CommandNames, BatchIds
  <2> QED BY <1>5, <2>1, CommandEnds DEF Crash, StoreUntouched, IntakeInv, NothingSkipped
<1> QED BY <1>3, <1>4, <1>5

LEMMA CallerKeeps ==
  ASSUME IntakeInv, ReturnEarly \/ RecordFinding \/ CompleteAnswer \/ FlagBatch
  PROVE  IntakeInv'
<1>1. CASE ReturnEarly
  <2>1. TypeOK' BY <1>1 DEF ReturnEarly, IntakeInv, TypeOK
  <2> QED BY <1>1, <2>1, OnlyTheCommandMoves
    DEF ReturnEarly, StoreUntouched, AlreadyRegistered, IntakeInv, NothingSkipped,
        BatchInProgress, CommandInProgress, Sealed, RowRefused
<1>2. CASE RecordFinding
  <2>1. TypeOK' BY <1>2 DEF RecordFinding, IntakeInv, TypeOK, BatchInProgress
  <2> QED BY <1>2, <2>1, OnlyTheCommandMoves
    DEF RecordFinding, StoreUntouched, IntakeInv, NothingSkipped, BatchInProgress,
        CommandInProgress, Sealed, RowRefused
<1>3. CASE CompleteAnswer
  <2>1. TypeOK'
    BY <1>3
    DEF CompleteAnswer, EndCommand, IntakeInv, TypeOK, CommandNames, BatchIds,
        CommandInProgress
  <2> QED BY <1>3, <2>1, CommandEnds
    DEF CompleteAnswer, StoreUntouched, IntakeInv, NothingSkipped, CommandInProgress
<1>4. CASE FlagBatch
  <2>1. TypeOK' BY <1>4 DEF FlagBatch, IntakeInv, TypeOK, BatchInProgress
  <2>2. FlaggedIsSealed' BY <1>4 DEF FlagBatch, IntakeInv, FlaggedIsSealed, BatchInProgress, Sealed
  <2> QED BY <1>4, <2>1, <2>2
    DEF FlagBatch, IntakeInv, NothingSkipped, BatchInProgress, CommandInProgress,
        RowsAreBacked, SealedIsComplete, OneOriginal, Rows, Sealed, RowRefused
<1> QED BY <1>1, <1>2, <1>3, <1>4

(***************************************************************************)
(* register_batch.                                                         *)
(***************************************************************************)
LEMMA PlaceKeeps == ASSUME IntakeInv, PlaceBatch PROVE IntakeInv'
<1> USE DEF PlaceBatch, AlreadyRegistered
<1>1. cur \in Dirs /\ newId \in BatchIds
  BY DEF IntakeInv, TypeOK, BatchInProgress
<1>2. TypeOK' BY <1>1 DEF IntakeInv, TypeOK
<1>3. newId # "none" BY DEF IntakeInv, BatchInProgress
<1>4. /\ hashed' = hashed /\ hashed[cur] = {}
      /\ \A d \in Dirs : batchId'[d] # "none" <=> batchId[d] # "none" \/ d = cur
  BY <1>1, <1>3 DEF IntakeInv, TypeOK, Sealed
<1>5. cur \in present /\ Rows(cur) = {} BY <1>1 DEF IntakeInv, RowsAreBacked
<1>6. FlaggedIsSealed' BY <1>4 DEF IntakeInv, FlaggedIsSealed, Sealed
<1>7. NothingSkipped'
  BY <1>4, IntakeAssumption
  DEF IntakeInv, NothingSkipped, CommandInProgress, Dirs, Sealed, RowRefused
<1>8. RowsAreBacked'
  BY <1>4, <1>5 DEF IntakeInv, RowsAreBacked, Sealed, RowRefused, Rows
<1>9. BatchInProgress' /\ CommandInProgress'
  BY <1>1, <1>4, <1>5
  DEF IntakeInv, TypeOK, BatchInProgress, CommandInProgress, Sealed, RowRefused, Rows
<1>10. SealedIsComplete'
  BY <1>4 DEF IntakeInv, TypeOK, SealedIsComplete, Sealed, Rows
<1> QED BY <1>2, <1>6, <1>7, <1>8, <1>9, <1>10 DEF IntakeInv, OneOriginal

LEMMA AddArtifactKeeps ==
  ASSUME IntakeInv, NEW f \in Names, AddArtifact(f) PROVE IntakeInv'
<1> DEFINE n == Len(artifacts)
           c == ContentOf(cur, f)
           same == SameContent(cur, c)
<1>1. PICK o \in (IF same = {} THEN {0} ELSE same) :
        artifacts' = Append(artifacts,
          [dir |-> cur, path |-> f, content |-> c, duplicateOf |-> o])
  BY DEF AddArtifact
<1> DEFINE row == [dir |-> cur, path |-> f, content |-> c, duplicateOf |-> o]
<1>2. /\ cur \in Dirs /\ f \in material[cur] /\ ~Sealed(cur) /\ RowRefused(cur)
      /\ listed = Rows(cur)
  BY DEF AddArtifact, IntakeInv, BatchInProgress
<1>3. o \in Nat /\ row \in Artifacts
  <2>1. o \in Nat
    BY ArtifactTypes DEF IntakeInv, SameContent
  <2>2. <<cur, f>> \in DOMAIN Content BY <1>2, IntakeAssumption
  <2>3. c \in {Content[x] : x \in DOMAIN Content} BY <2>2 DEF ContentOf
  <2> HIDE DEF c
  <2> QED BY <1>2, <2>1, <2>3 DEF Artifacts
<1>4. /\ artifacts' \in Seq(Artifacts) /\ n \in Nat /\ Len(artifacts') = n + 1
      /\ DOMAIN artifacts = 1..n /\ DOMAIN artifacts' = 1..(n + 1)
      /\ artifacts'[n + 1] = row
      /\ \A i \in 1..n : artifacts'[i] = artifacts[i]
  <2>1. artifacts \in Seq(Artifacts) BY DEF IntakeInv, TypeOK
  <2> HIDE DEF row
  <2> QED BY <1>1, <1>3, <2>1, AppendProperties, LenProperties DEF row
<1>5. row.dir = cur /\ row.path = f /\ row.content = c /\ row.duplicateOf = o OBVIOUS
<1> HIDE DEF n, c, row
<1>6. /\ listed' = listed \cup {n + 1} /\ unread' = unread \ {f} /\ f \in unread
      /\ UNCHANGED <<disk, batchId, hashed, manifests, marks, requests, node, pc,
                     mode, queue, cur, newId, last, budgets>>
  BY DEF AddArtifact, n
<1>7. TypeOK' BY <1>4, <1>6 DEF IntakeInv, TypeOK
<1> DEFINE rows(d) == {i \in 1..(n + 1) : artifacts'[i].dir = d}
<1>8. \A d \in Dirs : rows(d) = IF d = cur THEN Rows(d) \cup {n + 1} ELSE Rows(d)
  BY <1>4, <1>5 DEF Rows
<1>15. \A d \in Dirs : rows(d) = Rows(d)' BY <1>4 DEF Rows
<1>9. FlaggedIsSealed' /\ NothingSkipped'
  BY <1>6 DEF IntakeInv, FlaggedIsSealed, NothingSkipped, Sealed, RowRefused
<1>10. RowsAreBacked'
  <2>1. \A d \in Dirs : /\ material[d] # {} \/ RowRefused(d) => d \in present
                        /\ Sealed(d) \/ rows(d) # {} => RowRefused(d)
    BY <1>2, <1>8 DEF IntakeInv, RowsAreBacked
  <2>2. \A i \in 1..n : /\ artifacts'[i].path \in material[artifacts'[i].dir]
                        /\ artifacts'[i].content = ContentOf(artifacts'[i].dir, artifacts'[i].path)
    BY <1>4 DEF IntakeInv, RowsAreBacked
  <2>3. /\ row.path \in material[row.dir]
        /\ row.content = ContentOf(row.dir, row.path)
    BY <1>2, <1>5 DEF c
  <2>4. \A i \in 1..(n + 1) :
          /\ artifacts'[i].path \in material[artifacts'[i].dir]
          /\ artifacts'[i].content = ContentOf(artifacts'[i].dir, artifacts'[i].path)
    BY <1>4, <2>2, <2>3
  <2>6. (\A d \in Dirs : /\ material[d] # {} \/ RowRefused(d) => d \in present
                         /\ Sealed(d) \/ Rows(d) # {} => RowRefused(d))'
    BY <1>4, <1>6, <2>1 DEF Sealed, RowRefused, Rows
  <2>7. (\A i \in DOMAIN artifacts :
           /\ artifacts[i].path \in material[artifacts[i].dir]
           /\ artifacts[i].content = ContentOf(artifacts[i].dir, artifacts[i].path))'
    BY <1>4, <1>6, <2>4 DEF ContentOf
  <2> QED BY <2>6, <2>7 DEF RowsAreBacked
<1>11. BatchInProgress'
  <2>1. pc = "hash" BY DEF AddArtifact
  <2>2. listed' = rows(cur) BY <1>2, <1>6, <1>8
  <2> QED BY <1>2, <1>4, <1>6, <2>1, <2>2
    DEF IntakeInv, BatchInProgress, Sealed, RowRefused, Rows
<1>12. CommandInProgress'
  BY <1>6 DEF IntakeInv, CommandInProgress
<1>13. SealedIsComplete'
  <2> SUFFICES ASSUME NEW d \in Dirs, Sealed(d)
               PROVE  /\ manifests[d] = rows(d)
                      /\ hashed[d] = {<<artifacts'[i].path, artifacts'[i].content>> :
                                        i \in manifests[d]}
    BY <1>4, <1>6 DEF SealedIsComplete, Sealed, Rows
  <2>1. d # cur /\ rows(d) = Rows(d) BY <1>2, <1>8
  <2>2. manifests[d] = Rows(d) /\ Rows(d) \subseteq 1..n
    BY <1>4 DEF IntakeInv, SealedIsComplete, Rows
  <2>3. hashed[d] = {<<artifacts[i].path, artifacts[i].content>> : i \in manifests[d]}
    BY DEF IntakeInv, SealedIsComplete
  <2> QED BY <1>4, <2>1, <2>2, <2>3
<1>14. OneOriginal'
  <2>1. ASSUME NEW i \in 1..n
        PROVE  IF artifacts'[i].duplicateOf = 0
                 THEN \A j \in 1..(i - 1) : artifacts'[j].content # artifacts'[i].content
                 ELSE /\ artifacts'[i].duplicateOf < i
                      /\ artifacts'[artifacts'[i].duplicateOf].content = artifacts'[i].content
    <3>1. artifacts[i] \in Artifacts BY <1>4, ArtifactTypes DEF IntakeInv
    <3>2. artifacts[i].duplicateOf \in Nat BY <3>1 DEF Artifacts
    <3>3. artifacts'[i] = artifacts[i] /\ \A j \in 1..(i - 1) : artifacts'[j] = artifacts[j]
      BY <1>4
    <3>4. IF artifacts[i].duplicateOf = 0
            THEN \A j \in 1..(i - 1) : artifacts[j].content # artifacts[i].content
            ELSE /\ artifacts[i].duplicateOf < i
                 /\ artifacts[artifacts[i].duplicateOf].content = artifacts[i].content
      BY <1>4 DEF IntakeInv, OneOriginal
    <3>5. CASE artifacts[i].duplicateOf = 0 BY <3>3, <3>4, <3>5
    <3>6. CASE artifacts[i].duplicateOf # 0
      <4>1. artifacts[i].duplicateOf \in 1..(i - 1) BY <3>2, <3>4, <3>6
      <4> QED BY <3>3, <3>4, <3>6, <4>1
    <3> QED BY <3>5, <3>6
  <2>2. IF row.duplicateOf = 0
          THEN \A j \in 1..n : artifacts'[j].content # row.content
          ELSE row.duplicateOf \in 1..n /\ artifacts'[row.duplicateOf].content = row.content
    BY <1>4, <1>5 DEF SameContent
  <2>3. \A i \in 1..(n + 1) :
          IF artifacts'[i].duplicateOf = 0
            THEN \A j \in 1..(i - 1) : artifacts'[j].content # artifacts'[i].content
            ELSE /\ artifacts'[i].duplicateOf < i
                 /\ artifacts'[artifacts'[i].duplicateOf].content = artifacts'[i].content
    <3> SUFFICES ASSUME NEW i \in 1..(n + 1)
                 PROVE  IF artifacts'[i].duplicateOf = 0
                          THEN \A j \in 1..(i - 1) : artifacts'[j].content # artifacts'[i].content
                          ELSE /\ artifacts'[i].duplicateOf < i
                               /\ artifacts'[artifacts'[i].duplicateOf].content
                                    = artifacts'[i].content
      OBVIOUS
    <3>1. CASE i = n + 1 BY <1>4, <2>2, <3>1
    <3> QED BY <1>4, <2>1, <3>1
  <2> QED BY <1>4, <2>3 DEF OneOriginal
<1> QED BY <1>7, <1>9, <1>10, <1>11, <1>12, <1>13, <1>14 DEF IntakeInv

LEMMA WriteManifestKeeps == ASSUME IntakeInv, WriteManifest PROVE IntakeInv'
<1> USE DEF WriteManifest
<1>1. cur \in Dirs /\ ~Sealed(cur) BY DEF IntakeInv, BatchInProgress
<1>2. TypeOK' BY <1>1 DEF IntakeInv, TypeOK
<1>3. /\ manifests'[cur] = listed
      /\ \A d \in Dirs \ {cur} : manifests'[d] = manifests[d]
  BY <1>1 DEF IntakeInv, TypeOK
<1>4. SealedIsComplete' BY <1>1, <1>3 DEF IntakeInv, SealedIsComplete, Sealed, Rows
<1>5. BatchInProgress' BY <1>1, <1>3 DEF IntakeInv, BatchInProgress, Sealed, RowRefused, Rows
<1> QED BY <1>2, <1>4, <1>5
  DEF IntakeInv, FlaggedIsSealed, NothingSkipped, RowsAreBacked, CommandInProgress,
      OneOriginal, Rows, Sealed, RowRefused

\* What the hash is computed of: files of the directory, and not none.
LEMMA IntegrityOfBatch ==
  ASSUME IntakeInv, pc = "seal"
  PROVE  /\ cur \in Dirs /\ hashed[cur] = {} /\ manifests[cur] = listed /\ listed = Rows(cur)
         /\ Integrity(listed) \subseteq {<<f, ContentOf(cur, f)>> : f \in material[cur]}
         /\ Integrity(listed) # {} /\ Integrity(listed) \subseteq Entries
<1>1. /\ cur \in Dirs /\ hashed[cur] = {} /\ manifests[cur] = listed
      /\ listed = Rows(cur) /\ listed # {}
  BY DEF IntakeInv, BatchInProgress, Sealed
<1>2. \A i \in listed : /\ artifacts[i].path \in material[cur]
                        /\ artifacts[i].content = ContentOf(cur, artifacts[i].path)
                        /\ artifacts[i].path \in Names
  BY <1>1, ArtifactTypes DEF Rows, IntakeInv, RowsAreBacked
<1>3. \A f \in Names : ContentOf(cur, f) \in {Content[x] : x \in DOMAIN Content}
  BY <1>1, IntakeAssumption DEF ContentOf
<1> DEFINE pair(i) == <<artifacts[i].path, artifacts[i].content>>
<1>4. \A i \in listed : /\ pair(i) \in {<<f, ContentOf(cur, f)>> : f \in material[cur]}
                        /\ pair(i) \in Names \X {Content[x] : x \in DOMAIN Content}
  <2> SUFFICES ASSUME NEW i \in listed
               PROVE  /\ pair(i) \in {<<f, ContentOf(cur, f)>> : f \in material[cur]}
                      /\ pair(i) \in Names \X {Content[x] : x \in DOMAIN Content}
    OBVIOUS
  <2>1. artifacts[i].content \in {Content[x] : x \in DOMAIN Content} BY <1>2, <1>3
  <2>2. pair(i) \in Names \X {Content[x] : x \in DOMAIN Content} BY <1>2, <2>1
  <2>3. pair(i) \in {<<f, ContentOf(cur, f)>> : f \in material[cur]} BY <1>2
  <2> QED BY <2>2, <2>3
<1>5. Integrity(listed) = {pair(i) : i \in listed} BY DEF Integrity
<1> HIDE DEF pair
<1> QED BY <1>1, <1>4, <1>5 DEF Entries

LEMMA SealKeeps == ASSUME IntakeInv, SealBatch PROVE IntakeInv'
<1>0. /\ pc = "seal" /\ pc' = "return" /\ hashed' = [hashed EXCEPT ![cur] = Integrity(listed)]
      /\ UNCHANGED <<disk, batchId, artifacts, manifests, marks, requests, node, locals, last,
                     budgets>>
  BY DEF SealBatch
<1>1. /\ cur \in Dirs /\ manifests[cur] = listed /\ listed = Rows(cur)
      /\ Integrity(listed) # {} /\ Integrity(listed) \subseteq Entries
  BY <1>0, IntegrityOfBatch
<1>2. TypeOK' BY <1>0, <1>1 DEF IntakeInv, TypeOK
<1>3. /\ hashed'[cur] = Integrity(listed)
      /\ \A d \in Dirs \ {cur} : hashed'[d] = hashed[d]
  BY <1>0, <1>1 DEF IntakeInv, TypeOK
<1>4. \A d \in Dirs : /\ hashed[d] # {} => hashed'[d] # {}
                      /\ d = cur => hashed'[d] # {}
                      /\ d # cur => hashed'[d] = hashed[d]
  BY <1>1, <1>3
<1>11. Rows(cur) \subseteq DOMAIN artifacts BY DEF Rows
<1>5. SealedIsComplete'
  BY <1>0, <1>1, <1>3, <1>4, <1>11 DEF IntakeInv, SealedIsComplete, Sealed, Integrity, Rows
<1>6. FlaggedIsSealed'
  <2>1. \A d \in flagged : d \in Dirs /\ hashed[d] # {}
    BY DEF IntakeInv, TypeOK, FlaggedIsSealed, Sealed
  <2> QED BY <1>0, <1>4, <2>1 DEF FlaggedIsSealed, Sealed
<1>7. NothingSkipped'
  <2>1. \A d \in BatchDirs : hashed'[d] = {} => d # cur /\ hashed[d] = {}
    BY <1>4 DEF Dirs
  <2> QED BY <1>0, <2>1 DEF IntakeInv, NothingSkipped, Sealed, RowRefused
<1>8. RowRefused(cur) BY <1>0 DEF IntakeInv, BatchInProgress
<1>9. RowsAreBacked'
  <2>1. \A d \in Dirs : hashed'[d] # {} => d = cur \/ hashed[d] # {} BY <1>4
  <2> QED BY <1>0, <1>8, <2>1 DEF IntakeInv, RowsAreBacked, Sealed, RowRefused, Rows, ContentOf
<1>10. BatchInProgress' /\ CommandInProgress'
  BY <1>0, <1>1, <1>4 DEF IntakeInv, BatchInProgress, CommandInProgress, Sealed
<1> QED BY <1>0, <1>2, <1>5, <1>6, <1>7, <1>9, <1>10 DEF IntakeInv, OneOriginal

LEMMA StepKeepsIntake == IntakeInv /\ [Next]_vars => IntakeInv'
<1> SUFFICES ASSUME IntakeInv, [Next]_vars PROVE IntakeInv' OBVIOUS
<1>1. CASE RegistrationStep
  BY <1>1, ScanKeeps, CallerKeeps, PlaceKeeps, RefusalKeeps, AddArtifactKeeps,
     WriteManifestKeeps, SealKeeps
  DEF RegistrationStep
<1>2. CASE OperatorStep \/ Arrival \/ Crash
  BY <1>2, OperatorKeeps, ArrivalKeeps, RefusalKeeps
<1>3. CASE UNCHANGED vars
  <2>1. TypeOK' BY <1>3 DEF vars, IntakeInv, TypeOK
  <2>2. NothingSkipped' /\ BatchInProgress' /\ CommandInProgress'
    BY <1>3
    DEF vars, IntakeInv, NothingSkipped, BatchInProgress, CommandInProgress, Sealed,
        RowRefused, Rows
  <2> QED BY <1>3, <2>1, <2>2, OnlyTheCommandMoves DEF vars, StoreUntouched
<1> QED BY <1>1, <1>2, <1>3 DEF Next

(***************************************************************************)
(* The theorems.                                                           *)
(***************************************************************************)
\* Whatever is killed between two rows and files of a registration, the meta
\* flag is never ahead of the batch, a SUCCEEDED intake left no directory half
\* registered, and rows come after what they need.
THEOREM IntakeIsSafe == Spec => []IntakeInv
  BY InitIntake, StepKeepsIntake, PTL DEF Spec

\* A batch with an integrity hash has its manifest, which lists all its rows.
THEOREM HashesAreKept == Spec => []SealedIsComplete
<1>1. IntakeInv => SealedIsComplete BY DEF IntakeInv
<1> QED BY <1>1, IntakeIsSafe, PTL

\* Of the artifacts with one content exactly the first is no duplicate.
THEOREM DuplicatesLeadBack == Spec => []OneOriginal
<1>1. IntakeInv => OneOriginal BY DEF IntakeInv
<1> QED BY <1>1, IntakeIsSafe, PTL

(***************************************************************************)
(* Registration implements the ledger: every step that changes what is     *)
(* held or sealed is a delivery or an entry.                               *)
(***************************************************************************)
LEMMA InitLedger == Init => Ledger!Init
  BY DEF Init, Ledger!Init, Held

\* A directory that gains one file is a delivery, or nothing new.
LEMMA ArrivalDelivers ==
  ASSUME IntakeInv, NEW d \in Dirs, NEW f \in Names,
         material' = [material EXCEPT ![d] = @ \cup {f}], hashed' = hashed
  PROVE  Ledger!Deliver(d)
<1> DEFINE c == <<f, ContentOf(d, f)>>
<1>1. <<d, f>> \in DOMAIN Content BY IntakeAssumption
<1>2. c \in Entries BY <1>1 DEF Entries, ContentOf
<1>3. material \in [Dirs -> SUBSET Names] BY DEF IntakeInv, TypeOK
<1>4. Held' = [Held EXCEPT ![d] = @ \cup {c}] BY <1>3 DEF Held, ContentOf
<1> HIDE DEF c
<1> QED BY <1>2, <1>4 DEF Ledger!Deliver

LEMMA ArrivalImplements ==
  ASSUME IntakeInv, Arrival PROVE [Ledger!Next]_(Ledger!evidence)
<1>1. PICK d \in Dirs : AddInput(d) \/ DeliverAnswer(d) \/ AskForInput(d) BY DEF Arrival
<1>2. material \in [Dirs -> SUBSET Names] BY DEF IntakeInv, TypeOK
<1>3. hashed' = hashed BY <1>1 DEF AddInput, DeliverAnswer, AskForInput, Arrive
<1>4. CASE material' = material
  BY <1>3, <1>4 DEF Ledger!evidence, Held, ContentOf
<1>5. ASSUME NEW f \in Names, material' = [material EXCEPT ![d] = @ \cup {f}]
      PROVE  Ledger!Next
  BY <1>3, <1>5, ArrivalDelivers DEF Ledger!Next
<1>6. CASE AddInput(d)
  <2>1. PICK names \in {{}} \cup {{f} : f \in Files} : Arrive(d, names)
    BY <1>6 DEF AddInput
  <2>2. CASE names = {}
    <3>1. material' = material BY <1>2, <2>1, <2>2 DEF Arrive
    <3> QED BY <1>4, <3>1
  <2>3. CASE names # {}
    <3>1. PICK f \in Files : names = {f} BY <2>1, <2>3
    <3> QED BY <1>5, <2>1, <3>1 DEF Arrive, Names
  <2> QED BY <2>2, <2>3
<1>7. CASE DeliverAnswer(d)
  BY <1>5, <1>7 DEF DeliverAnswer, Arrive, Names
<1>8. CASE AskForInput(d)
  <2>1. material[d] = {} BY <1>8 DEF AskForInput, IntakeInv, RowsAreBacked
  <2>2. material' = [material EXCEPT ![d] = @ \cup {RequestDoc}]
    BY <1>2, <1>8, <2>1 DEF AskForInput
  <2> QED BY <1>5, <2>2 DEF Names
<1> QED BY <1>1, <1>6, <1>7, <1>8

LEMMA SealImplements ==
  ASSUME IntakeInv, SealBatch PROVE Ledger!Next
<1>1. /\ cur \in Dirs /\ hashed[cur] = {}
      /\ Integrity(listed) \subseteq {<<f, ContentOf(cur, f)>> : f \in material[cur]}
      /\ Integrity(listed) # {}
  BY IntegrityOfBatch DEF SealBatch
<1>5. Held[cur] = {<<f, ContentOf(cur, f)>> : f \in material[cur]} BY <1>1 DEF Held
<1>2. Integrity(listed) \in (SUBSET Held[cur]) \ {{}}
  <2>1. Integrity(listed) \subseteq Held[cur] BY <1>1, <1>5
  <2> QED BY <1>1, <2>1
<1>3. hashed' = [hashed EXCEPT ![cur] = Integrity(listed)] BY DEF SealBatch
<1>4. Held' = Held BY DEF SealBatch, Held, ContentOf
<1> QED BY <1>1, <1>2, <1>3, <1>4 DEF Ledger!Next, Ledger!Enter

LEMMA StepImplementsLedger ==
  ASSUME IntakeInv, [Next]_vars PROVE [Ledger!Next]_(Ledger!evidence)
<1>1. CASE UNCHANGED <<material, hashed>>
  BY <1>1 DEF Ledger!evidence, Held, ContentOf
<1>2. CASE PlaceBatch
  <2>1. hashed' = hashed
    BY <1>2 DEF PlaceBatch, AlreadyRegistered, Sealed, IntakeInv, TypeOK, BatchInProgress
  <2> QED BY <1>1, <1>2, <2>1 DEF PlaceBatch
<1>3. CASE RegistrationStep /\ ~SealBatch /\ ~PlaceBatch
  BY <1>1, <1>3
  DEF RegistrationStep, NextCandidate, ScanDone, ReturnEarly, RefuseBatch, AddArtifact,
      ReadFails, WriteManifest, FlagBatch, RecordFinding, CompleteAnswer
<1>4. CASE OperatorStep \/ Crash
  BY <1>1, <1>4 DEF OperatorStep, Start, RunRegister, Unblock, Answer, Crash
<1>5. CASE UNCHANGED vars BY <1>1, <1>5 DEF vars
<1> QED BY <1>2, <1>3, <1>4, <1>5, SealImplements, ArrivalImplements DEF Next

\* What is sealed of a directory is a set of files it held, and it is never
\* sealed again: registration, with its kills, refusals and repeated commands,
\* implements the ledger.
THEOREM IntakeImplementsLedger == Spec => ImplementsLedger
<1>1. IntakeInv /\ [Next]_vars => [Ledger!Next]_(Ledger!evidence) BY StepImplementsLedger
<1> QED BY <1>1, InitLedger, IntakeIsSafe, PTL DEF Spec, ImplementsLedger, Ledger!Spec

(***************************************************************************)
(* Where no command is killed and every file can be read, a registration   *)
(* that has begun is sealed by the command that began it.                  *)
(***************************************************************************)
Undisturbed == MaxCrashes = 0 /\ MaxFaults = 0

NoneBrokeOff ==
  /\ crashes = 0 /\ faults = 0
  /\ \A d \in Dirs : RowRefused(d) /\ ~Sealed(d) => d = cur /\ pc \in {"hash", "seal"}

\* A marked directory has its finding but for the one the command is at.
FindingsFollow ==
  crashes = 0 /\ \A d \in flagged \ findings : d = cur /\ pc = "finding"

(***************************************************************************)
(* Where nobody runs intake.register by name, it is never run again once   *)
(* it has succeeded, and nothing asks before: the scan meets no directory  *)
(* of a request, and only the answer to it registers it.                   *)
(***************************************************************************)
HasDelivery(numbers) == \E i \in numbers : artifacts[i].path # RequestDoc

NothingAskedBefore ==
  intake # "SUCCEEDED" => open \cup resolved = {} /\ present \subseteq BatchDirs

ScanMeetsNoRequest ==
  pc # "idle" /\ mode # "answer" =>
    queue \subseteq BatchDirs /\ (pc # "scan" => cur \in BatchDirs)

AnswerBringsDelivery ==
  pc # "idle" /\ mode = "answer" =>
    /\ newId = "resolution"
    /\ pc = "lookup" => Delivered(cur)
    /\ pc = "hash" => HasDelivery(listed) \/ unread \ {RequestDoc} # {}
    /\ pc = "seal" => HasDelivery(listed)

RequestRows ==
  /\ \A d \in RequestDirs :
       /\ RowRefused(d) => batchId[d] = "resolution"
       /\ Sealed(d) => HasDelivery(manifests[d])
  /\ \A d \in answered : Sealed(d)

OnlyAnswersRegister ==
  NothingAskedBefore /\ ScanMeetsNoRequest /\ AnswerBringsDelivery /\ RequestRows

LEMMA UnbrokenStep ==
  ASSUME Undisturbed, IntakeInv, NoneBrokeOff, [Next]_vars
  PROVE  NoneBrokeOff' /\ (NeverRefused => NeverRefused')
<1> USE DEF NeverRefused
<1>0. /\ ~Crash /\ ~ReadFails
      /\ TypeOK /\ MaxCrashes = 0 /\ MaxFaults = 0
  BY DEF Undisturbed, NoneBrokeOff, Crash, ReadFails, IntakeInv
<1>1. CASE UNCHANGED <<batchId, hashed, cur, crashes, faults>> /\ pc' = pc /\ last' = last
  BY <1>1 DEF NoneBrokeOff, RowRefused, Sealed
<1>2. CASE /\ UNCHANGED <<batchId, hashed, crashes, faults>> /\ pc \notin {"hash", "seal"}
           /\ last' \in {last, "started", "waiting", "error", "answered"}
  BY <1>2 DEF NoneBrokeOff, RowRefused, Sealed
<1>3. CASE Arrival \/ UNCHANGED vars
  BY <1>1, <1>3
  DEF Arrival, AddInput, DeliverAnswer, AskForInput, Arrive, vars, tables, locals, budgets
<1>4. CASE OperatorStep
  BY <1>2, <1>4
  DEF OperatorStep, Start, RunRegister, Unblock, Answer, Issue, ListCandidates, EndCommand,
      tables
<1>5. CASE (\E d \in Dirs : NextCandidate(d)) \/ ScanDone
  BY <1>2, <1>5 DEF NextCandidate, ScanDone, EndCommand, tables, budgets
<1>6. CASE ReturnEarly \/ FlagBatch \/ RecordFinding \/ CompleteAnswer
  BY <1>2, <1>6
  DEF ReturnEarly, FlagBatch, RecordFinding, CompleteAnswer, EndCommand, tables, locals,
      budgets
<1>7. CASE RefuseBatch
  <2>1. pc = "lookup" /\ cur \in Dirs /\ ~Sealed(cur)
    BY <1>7 DEF RefuseBatch, AlreadyRegistered, IntakeInv, BatchInProgress
  <2>2. ~RowRefused(cur) BY <2>1 DEF NoneBrokeOff
  <2>3. Raise("error") /\ UNCHANGED <<batchId, hashed, crashes, faults>>
    BY <1>7, <2>2 DEF RefuseBatch, tables, budgets
  <2> QED BY <1>2, <2>1, <2>3 DEF Raise, EndCommand
<1>8. CASE PlaceBatch
  BY <1>8 DEF PlaceBatch, NoneBrokeOff, RowRefused, Sealed, budgets, IntakeInv, TypeOK,
              BatchInProgress
<1>9. CASE WriteManifest \/ \E f \in Names : AddArtifact(f)
  <2>1. /\ UNCHANGED <<batchId, hashed, cur, crashes, faults, last>>
        /\ pc = "hash" /\ pc' \in {"hash", "seal"}
    BY <1>9 DEF WriteManifest, AddArtifact, locals, budgets
  <2> QED BY <2>1 DEF NoneBrokeOff, RowRefused, Sealed
<1>10. CASE SealBatch
  <2>1. /\ pc = "seal" /\ pc' = "return" /\ cur \in Dirs /\ Integrity(listed) # {}
        /\ hashed' = [hashed EXCEPT ![cur] = Integrity(listed)]
        /\ UNCHANGED <<batchId, cur, crashes, faults, last>>
    BY <1>10, IntegrityOfBatch DEF SealBatch, locals, budgets
  <2>2. hashed'[cur] # {} /\ \A d \in Dirs \ {cur} : hashed'[d] = hashed[d]
    BY <1>0, <2>1 DEF TypeOK
  <2> QED BY <2>1, <2>2 DEF NoneBrokeOff, RowRefused, Sealed
<1> QED BY <1>0, <1>3, <1>4, <1>5, <1>6, <1>7, <1>8, <1>9, <1>10 DEF Next, RegistrationStep

(***************************************************************************)
(* ADR-006, "batch registration: idempotent per batch_dir": where nothing  *)
(* breaks a registration off, UNIQUE never meets a row that the check for  *)
(* registered batches has missed, however often a directory is scanned,    *)
(* added to, or answered.                                                  *)
(***************************************************************************)
THEOREM UndisturbedIsIdempotent == Undisturbed => (Spec => []NeverRefused)
<1> SUFFICES ASSUME Undisturbed PROVE Spec => []NeverRefused OBVIOUS
<1>1. Init => NoneBrokeOff /\ NeverRefused
  BY DEF Init, NoneBrokeOff, RowRefused, Sealed, NeverRefused
<1>2. IntakeInv /\ NoneBrokeOff /\ NeverRefused /\ [Next]_vars
        => NoneBrokeOff' /\ NeverRefused'
  BY UnbrokenStep
<1> QED BY <1>1, <1>2, IntakeIsSafe, PTL DEF Spec

LEMMA FindingsFollowStep ==
  ASSUME MaxCrashes = 0, IntakeInv, FindingsFollow, [Next]_vars PROVE FindingsFollow'
<1>0. ~Crash BY DEF FindingsFollow, Crash
<1>1. CASE UNCHANGED <<marks, crashes>> /\ (pc # "finding" \/ UNCHANGED <<pc, cur>>)
  BY <1>1 DEF FindingsFollow, marks
<1>2. CASE FlagBatch
  BY <1>2 DEF FlagBatch, FindingsFollow, locals, budgets
<1>3. CASE RecordFinding
  BY <1>3 DEF RecordFinding, FindingsFollow, locals, budgets
<1>4. CASE Arrival \/ OperatorStep \/ UNCHANGED vars
  BY <1>1, <1>4
  DEF Arrival, AddInput, DeliverAnswer, AskForInput, Arrive, OperatorStep, Start, RunRegister,
      Unblock, Answer, Issue, vars, locals, budgets
<1>5. CASE RegistrationStep /\ ~FlagBatch /\ ~RecordFinding
  BY <1>1, <1>5
  DEF RegistrationStep, NextCandidate, ScanDone, ReturnEarly, PlaceBatch, RefuseBatch,
      AddArtifact, ReadFails, WriteManifest, SealBatch, CompleteAnswer, budgets
<1> QED BY <1>0, <1>2, <1>3, <1>4, <1>5 DEF Next

(***************************************************************************)
(* operator-guide.md, "The graph is resumable at any point": it takes a    *)
(* kill to lose the finding of a batch.  A file that cannot be read, or    *)
(* any number of scans, loses none.                                        *)
(***************************************************************************)
THEOREM FindingsAreKeptWithoutKills ==
  MaxCrashes = 0 => (Spec => []SucceededHasFindings)
<1> SUFFICES ASSUME MaxCrashes = 0 PROVE Spec => []SucceededHasFindings OBVIOUS
<1>1. Init => FindingsFollow BY DEF Init, FindingsFollow
<1>2. IntakeInv /\ FindingsFollow /\ [Next]_vars => FindingsFollow' BY FindingsFollowStep
<1>3. IntakeInv /\ FindingsFollow => SucceededHasFindings
  BY DEF FindingsFollow, SucceededHasFindings, IntakeInv, CommandInProgress
<1> QED BY <1>1, <1>2, <1>3, IntakeIsSafe, PTL DEF Spec

\* The rows of requests stay as they are.
LEMMA RequestRowsStay ==
  ASSUME IntakeInv, RequestRows, UNCHANGED <<tables, answered>> PROVE RequestRows'
<1>1. /\ answered \subseteq Dirs /\ RequestDirs \subseteq Dirs
      /\ artifacts' = artifacts /\ manifests' = manifests /\ batchId' = batchId
      /\ \A d \in Dirs : (RowRefused(d)' <=> RowRefused(d)) /\ (Sealed(d)' <=> Sealed(d))
  BY DEF tables, RowRefused, Sealed, IntakeInv, TypeOK, Dirs
<1>2. \A d \in RequestDirs :
        /\ RowRefused(d)' => batchId'[d] = "resolution"
        /\ Sealed(d)' => HasDelivery(manifests[d])'
  BY <1>1 DEF RequestRows, HasDelivery
<1>3. \A d \in answered' : Sealed(d)' BY <1>1 DEF RequestRows
<1> QED BY <1>2, <1>3 DEF RequestRows

\* Between commands there are no locals to speak of.
LEMMA EndsInOrder ==
  ASSUME IntakeInv, OnlyAnswersRegister, UNCHANGED <<tables, answered>>, NothingAskedBefore',
         pc' = "idle"
  PROVE  OnlyAnswersRegister'
  BY RequestRowsStay
  DEF OnlyAnswersRegister, ScanMeetsNoRequest, AnswerBringsDelivery

LEMMA ArrivalInOrder ==
  ASSUME IntakeInv, OnlyAnswersRegister, Arrival PROVE OnlyAnswersRegister'
<1>0. BatchDirs \cap RequestDirs = {} /\ TypeOK /\ Dirs = BatchDirs \cup RequestDirs
  BY IntakeAssumption DEF IntakeInv, Dirs
<1>1. PICK d \in Dirs : AddInput(d) \/ DeliverAnswer(d) \/ AskForInput(d) BY DEF Arrival
<1>2. UNCHANGED <<tables, answered, intake, resolved, pc, mode, queue, cur, newId, unread, listed>>
  BY <1>1 DEF AddInput, DeliverAnswer, AskForInput, Arrive, node, locals, requests
<1>3. NothingAskedBefore'
  BY <1>0, <1>1, <1>2
  DEF AddInput, DeliverAnswer, AskForInput, Arrive, requests, OnlyAnswersRegister,
      NothingAskedBefore
<1>4. pc # "idle" => \A e \in Dirs : material[e] \subseteq material'[e]
  BY <1>0, <1>1 DEF AddInput, DeliverAnswer, AskForInput, Arrive, TypeOK
<1>5. pc = "lookup" /\ Delivered(cur) => Delivered(cur)'
  BY <1>2, <1>4 DEF Delivered, IntakeInv, BatchInProgress
<1>6. ScanMeetsNoRequest' BY <1>2 DEF OnlyAnswersRegister, ScanMeetsNoRequest
<1>7. AnswerBringsDelivery'
  BY <1>2, <1>5 DEF OnlyAnswersRegister, AnswerBringsDelivery, HasDelivery, tables
<1> QED BY <1>2, <1>3, <1>6, <1>7, RequestRowsStay DEF OnlyAnswersRegister

LEMMA OperatorInOrder ==
  ASSUME "run" \notin Commands, IntakeInv, OnlyAnswersRegister, OperatorStep
  PROVE  OnlyAnswersRegister'
<1>1. UNCHANGED <<tables, answered>> /\ pc = "idle" /\ present' = present
  BY DEF OperatorStep, Start, RunRegister, Unblock, Answer, Issue, disk, requests
<1>2. RequestRows' BY <1>1, RequestRowsStay DEF OnlyAnswersRegister
<1>3. CASE Start
  <2>1. UNCHANGED <<open, resolved>> BY <1>3 DEF Start, requests
  <2>2. \/ intake' = intake /\ pc' = "idle"
        \/ intake = "READY" /\ intake' = "WAITING_FOR_INPUT" /\ pc' = "idle"
        \/ /\ intake = "READY" /\ intake' = "RUNNING"
           /\ mode' = "start" /\ queue' = present /\ pc' = "scan"
    BY <1>3 DEF Start, ListCandidates, Candidates, EndCommand, node
  <2>3. NothingAskedBefore'
    BY <1>1, <2>1, <2>2 DEF OnlyAnswersRegister, NothingAskedBefore
  <2>4. ScanMeetsNoRequest' /\ AnswerBringsDelivery'
    BY <2>2 DEF OnlyAnswersRegister, NothingAskedBefore, ScanMeetsNoRequest,
                AnswerBringsDelivery
  <2> QED BY <1>2, <2>3, <2>4 DEF OnlyAnswersRegister
<1>4. CASE Unblock
  <2>1. NothingAskedBefore'
    BY <1>4 DEF Unblock, disk, requests, OnlyAnswersRegister, NothingAskedBefore
  <2> QED BY <1>1, <1>4, <2>1, EndsInOrder DEF Unblock
<1>5. CASE \E d \in RequestDirs : Answer(d)
  <2>1. PICK d \in RequestDirs : Answer(d) BY <1>5
  <2>2. intake' = intake /\ intake = "SUCCEEDED"
    BY <2>1 DEF Answer, node, OnlyAnswersRegister, NothingAskedBefore
  <2>3. /\ pc' = "lookup" /\ mode' = "answer" /\ newId' = "resolution"
        /\ cur' = d /\ Delivered(d)'
    BY <2>1 DEF Answer, Delivered, disk
  <2>4. NothingAskedBefore' BY <2>2 DEF NothingAskedBefore
  <2>5. ScanMeetsNoRequest' /\ AnswerBringsDelivery'
    BY <2>3 DEF ScanMeetsNoRequest, AnswerBringsDelivery, Delivered
  <2> QED BY <1>2, <2>4, <2>5 DEF OnlyAnswersRegister
<1>6. CASE RunRegister BY <1>6 DEF RunRegister, Issue
<1> QED BY <1>3, <1>4, <1>5, <1>6 DEF OperatorStep

\* A command that comes to its end before it has registered, and the scan.
LEMMA ScanInOrder ==
  ASSUME IntakeInv, OnlyAnswersRegister,
         Crash \/ ScanDone \/ RefuseBatch \/ ReadFails \/ ReturnEarly \/ FlagBatch
         \/ RecordFinding \/ \E d \in Dirs : NextCandidate(d)
  PROVE  OnlyAnswersRegister'
<1>1. /\ UNCHANGED <<tables, requests, present>>
      /\ intake = "SUCCEEDED" => intake' = "SUCCEEDED" \/ mode # "answer"
      /\ pc # "idle" /\ (intake = "RUNNING" <=> mode # "answer")
  BY DEF Crash, ScanDone, RefuseBatch, ReadFails, ReturnEarly, FlagBatch, RecordFinding,
         NextCandidate, Raise, disk, node, IntakeInv, CommandInProgress
<1>2. NothingAskedBefore'
  BY <1>1 DEF OnlyAnswersRegister, NothingAskedBefore, requests
<1>3. CASE pc' = "idle" BY <1>1, <1>2, <1>3, EndsInOrder DEF requests
<1>4. CASE \E d \in Dirs : NextCandidate(d)
  <2>1. mode # "answer" /\ mode' = mode /\ pc = "scan"
    BY <1>1, <1>4 DEF NextCandidate, IntakeInv, CommandInProgress
  <2>2. ScanMeetsNoRequest'
    BY <1>4, <2>1 DEF NextCandidate, IsFirst, OnlyAnswersRegister, ScanMeetsNoRequest
  <2>3. AnswerBringsDelivery' BY <2>1 DEF AnswerBringsDelivery
  <2> QED BY <1>1, <1>2, <2>2, <2>3, RequestRowsStay DEF OnlyAnswersRegister, requests
<1>5. CASE ReturnEarly \/ FlagBatch \/ RecordFinding
  <2>1. /\ UNCHANGED <<mode, queue, cur, newId>> /\ pc \notin {"scan", "idle"}
        /\ pc' \in {"return", "finding", "scan"}
    BY <1>5 DEF ReturnEarly, FlagBatch, RecordFinding, locals
  <2>2. ScanMeetsNoRequest' /\ AnswerBringsDelivery'
    BY <2>1 DEF OnlyAnswersRegister, ScanMeetsNoRequest, AnswerBringsDelivery
  <2> QED BY <1>1, <1>2, <2>2, RequestRowsStay DEF OnlyAnswersRegister, requests
<1> QED BY <1>3, <1>4, <1>5 DEF Crash, ScanDone, RefuseBatch, ReadFails, Raise, EndCommand

\* What the steps of a registration write of their directory.
LEMMA RegistrationInOrder ==
  ASSUME IntakeInv, OnlyAnswersRegister,
         PlaceBatch \/ WriteManifest \/ SealBatch \/ CompleteAnswer
         \/ \E f \in Names : AddArtifact(f)
  PROVE  OnlyAnswersRegister'
<1>0. /\ BatchDirs \cap RequestDirs = {} /\ TypeOK /\ Dirs = BatchDirs \cup RequestDirs
      /\ cur \in Dirs /\ pc # "idle" /\ pc # "scan"
      /\ mode # "answer" => cur \in BatchDirs
  BY IntakeAssumption
  DEF IntakeInv, Dirs, PlaceBatch, WriteManifest, SealBatch, CompleteAnswer, AddArtifact,
      BatchInProgress, OnlyAnswersRegister, ScanMeetsNoRequest
<1>1. NothingAskedBefore'
  BY DEF PlaceBatch, WriteManifest, SealBatch, CompleteAnswer, AddArtifact, disk, requests,
         node, OnlyAnswersRegister, NothingAskedBefore
<1>2. ScanMeetsNoRequest'
  BY <1>0 DEF PlaceBatch, WriteManifest, SealBatch, CompleteAnswer, AddArtifact, EndCommand,
              locals, OnlyAnswersRegister, ScanMeetsNoRequest
<1>3. CASE PlaceBatch
  <2>1. /\ batchId' = [batchId EXCEPT ![cur] = newId]
        /\ hashed' = [hashed EXCEPT ![cur] = {}]
        /\ UNCHANGED <<artifacts, manifests, answered, mode, newId>>
        /\ pc = "lookup" /\ pc' = "hash" /\ unread' = material[cur] /\ ~Sealed(cur)
    BY <1>3 DEF PlaceBatch, AlreadyRegistered, requests
  <2>2. AnswerBringsDelivery'
    BY <2>1 DEF OnlyAnswersRegister, AnswerBringsDelivery, Delivered
  <2>3. \A d \in Dirs : Sealed(d)' <=> Sealed(d)
    BY <1>0, <2>1 DEF Sealed, TypeOK
  <2>4. \A d \in RequestDirs : RowRefused(d)' => batchId'[d] = "resolution"
    BY <1>0, <2>1 DEF OnlyAnswersRegister, AnswerBringsDelivery, RequestRows, RowRefused, TypeOK
  <2>5. RequestRows'
    BY <1>0, <2>1, <2>3, <2>4
    DEF OnlyAnswersRegister, RequestRows, HasDelivery, TypeOK
  <2> QED BY <1>1, <1>2, <2>2, <2>5 DEF OnlyAnswersRegister
<1>4. CASE \E f \in Names : AddArtifact(f)
  <2>1. PICK f \in Names : AddArtifact(f) BY <1>4
  <2> DEFINE n == Len(artifacts)
  <2>2. /\ UNCHANGED <<batchId, hashed, manifests, answered, mode, newId, pc>> /\ pc = "hash"
        /\ listed' = listed \cup {n + 1} /\ unread' = unread \ {f}
    BY <2>1 DEF AddArtifact, requests
  <2>3. PICK a : artifacts' = Append(artifacts, a) /\ a.path = f
    BY <2>1 DEF AddArtifact
  <2>4. /\ n \in Nat /\ DOMAIN artifacts = 1..n
        /\ \A i \in 1..n : artifacts'[i] = artifacts[i]
        /\ artifacts'[n + 1].path = f
    BY <1>0, <2>3, ArtifactTypes DEF TypeOK
  <2>5. \A d \in Dirs : Sealed(d) => manifests[d] \subseteq 1..n
    BY <2>4 DEF IntakeInv, SealedIsComplete, Rows
  <2>6. listed \subseteq 1..n
    BY <2>2, <2>4 DEF IntakeInv, BatchInProgress, Rows
  <2>7. HasDelivery(listed) \/ f # RequestDoc => HasDelivery(listed)'
    BY <2>2, <2>4, <2>6 DEF HasDelivery
  <2>8. AnswerBringsDelivery'
    BY <2>2, <2>7 DEF OnlyAnswersRegister, AnswerBringsDelivery
  <2>9. RequestRows'
    BY <1>0, <2>2, <2>4, <2>5
    DEF OnlyAnswersRegister, RequestRows, HasDelivery, Sealed, RowRefused, TypeOK
  <2> QED BY <1>1, <1>2, <2>8, <2>9 DEF OnlyAnswersRegister
<1>5. CASE WriteManifest
  <2>1. /\ manifests' = [manifests EXCEPT ![cur] = listed]
        /\ UNCHANGED <<batchId, hashed, artifacts, answered, mode, newId, listed>>
        /\ pc = "hash" /\ unread = {} /\ pc' = "seal" /\ ~Sealed(cur)
    BY <1>5 DEF WriteManifest, requests, locals, IntakeInv, BatchInProgress
  <2>2. AnswerBringsDelivery'
    BY <2>1 DEF OnlyAnswersRegister, AnswerBringsDelivery, HasDelivery
  <2>3. RequestRows'
    BY <1>0, <2>1
    DEF OnlyAnswersRegister, RequestRows, HasDelivery, Sealed, RowRefused, TypeOK
  <2> QED BY <1>1, <1>2, <2>2, <2>3 DEF OnlyAnswersRegister
<1>6. CASE SealBatch
  <2>1. /\ hashed' = [hashed EXCEPT ![cur] = Integrity(listed)]
        /\ UNCHANGED <<batchId, artifacts, manifests, answered, mode, newId, listed>>
        /\ pc = "seal" /\ pc' = "return" /\ manifests[cur] = listed
        /\ Integrity(listed) # {}
    BY <1>6, IntegrityOfBatch DEF SealBatch, requests, locals
  <2>2. AnswerBringsDelivery'
    BY <2>1 DEF OnlyAnswersRegister, AnswerBringsDelivery
  <2>3. cur \in RequestDirs => HasDelivery(manifests[cur])
    BY <1>0, <2>1 DEF OnlyAnswersRegister, AnswerBringsDelivery
  <2>4. \A d \in Dirs : Sealed(d)' <=> Sealed(d) \/ d = cur
    BY <1>0, <2>1 DEF Sealed, TypeOK
  <2>5. RequestRows'
    BY <1>0, <2>1, <2>3, <2>4
    DEF OnlyAnswersRegister, RequestRows, HasDelivery, RowRefused, TypeOK
  <2> QED BY <1>1, <1>2, <2>2, <2>5 DEF OnlyAnswersRegister
<1>7. CASE CompleteAnswer
  <2>1. /\ UNCHANGED tables /\ answered' = answered \cup {cur} /\ pc' = "idle" /\ Sealed(cur)
    BY <1>7 DEF CompleteAnswer, EndCommand, IntakeInv, BatchInProgress
  <2>2. RequestRows'
    BY <1>0, <2>1
    DEF OnlyAnswersRegister, RequestRows, HasDelivery, Sealed, RowRefused, tables
  <2> QED BY <1>1, <1>2, <2>1, <2>2 DEF OnlyAnswersRegister, AnswerBringsDelivery
<1> QED BY <1>3, <1>4, <1>5, <1>6, <1>7

LEMMA OnlyAnswersRegisterStep ==
  ASSUME "run" \notin Commands, IntakeInv, OnlyAnswersRegister, [Next]_vars
  PROVE  OnlyAnswersRegister'
<1>1. CASE UNCHANGED vars
  <2>1. RequestRows' BY <1>1, RequestRowsStay DEF vars, requests, OnlyAnswersRegister
  <2> QED BY <1>1, <2>1
    DEF vars, disk, tables, requests, node, locals, OnlyAnswersRegister, NothingAskedBefore,
        ScanMeetsNoRequest, AnswerBringsDelivery, HasDelivery, Delivered
<1> QED BY <1>1, ArrivalInOrder, OperatorInOrder, ScanInOrder, RegistrationInOrder
        DEF Next, RegistrationStep

(***************************************************************************)
(* human-input-runbook.md, "Registers the destination as a new batch with  *)
(* id BAT-res-...": unless somebody runs intake.register by name, every    *)
(* answer that is complete has its batch under that id, with a manifest    *)
(* that lists the delivery, whatever was killed on the way.                *)
(***************************************************************************)
THEOREM OnlyAnswersBringBatches ==
  "run" \notin Commands => (Spec => []AnswerIsIngestible)
<1> SUFFICES ASSUME "run" \notin Commands PROVE Spec => []AnswerIsIngestible OBVIOUS
<1>1. Init => OnlyAnswersRegister
  BY DEF Init, OnlyAnswersRegister, NothingAskedBefore, ScanMeetsNoRequest,
         AnswerBringsDelivery, RequestRows, RowRefused, Sealed, Dirs
<1>2. IntakeInv /\ OnlyAnswersRegister /\ [Next]_vars => OnlyAnswersRegister'
  BY OnlyAnswersRegisterStep
<1>3. IntakeInv /\ OnlyAnswersRegister => AnswerIsIngestible
  <2> SUFFICES ASSUME IntakeInv, OnlyAnswersRegister, NEW d \in answered
               PROVE  batchId[d] = "resolution" /\ HasDelivery(manifests[d])
    BY DEF AnswerIsIngestible, HasDelivery
  <2>1. d \in RequestDirs /\ d \in Dirs /\ Sealed(d)
    BY DEF IntakeInv, TypeOK, OnlyAnswersRegister, RequestRows, Dirs
  <2>2. RowRefused(d) BY <2>1 DEF IntakeInv, RowsAreBacked
  <2> QED BY <2>1, <2>2 DEF OnlyAnswersRegister, RequestRows
<1> QED BY <1>1, <1>2, <1>3, IntakeIsSafe, PTL DEF Spec

=============================================================================
