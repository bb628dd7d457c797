-------------------------- MODULE CheckpointProofs --------------------------
(***************************************************************************)
(* Machine-checked proofs that checkpoints keep what they promise for any  *)
(* number of checkpoints, changes, edits, damaged files and kills.         *)
(***************************************************************************)
EXTENDS Checkpoints, SequenceTheorems, TLAPS

(***************************************************************************)
(* Databases and directories, and what a write of one does to the other.   *)
(***************************************************************************)
\* The record of a directory, as TypeOK has it.
Directories(n) ==
  [made: BOOLEAN, snapshot: Databases(n), manifest: BOOLEAN, members: Nat, intact: BOOLEAN]

\* A longer trail has every database of a shorter one.
LEMMA DatabasesGrow ==
  ASSUME NEW n \in Nat, NEW d \in Databases(n)
  PROVE  d \in Databases(n + 1)
<1>1. d.events \in Seq(1..n) BY DEF Databases
<1>2. d.events \in Seq(1..(n + 1)) BY <1>1, SeqMonotonic, 1..n \subseteq 1..(n + 1)
<1> QED BY <1>2 DEF Databases

\* What can be read of a typed database.
LEMMA DatabaseFields ==
  ASSUME NEW n \in Nat, NEW d \in Databases(n)
  PROVE  /\ d.version \in Nat /\ d.rows \subseteq Ids /\ d.readable \in BOOLEAN
         /\ d.events \in Seq(1..n) /\ Len(d.events) \in Nat
         /\ DOMAIN d.events = 1..Len(d.events)
         /\ \A i \in DOMAIN d.events : d.events[i] \in 1..n
  BY DEF Databases

\* The empty database, readable or not, has no row and no event.
LEMMA LostIsEmpty ==
  ASSUME NEW n \in Nat
  PROVE  /\ Lost \in Databases(n) /\ [Lost EXCEPT !.readable = TRUE] \in Databases(n)
         /\ Lost.rows = {} /\ Lost.version = 0 /\ Lost.events = <<>> /\ ~Lost.readable
         /\ [Lost EXCEPT !.readable = TRUE].rows = {}
         /\ [Lost EXCEPT !.readable = TRUE].version = 0
         /\ [Lost EXCEPT !.readable = TRUE].events = <<>>
         /\ [Lost EXCEPT !.readable = TRUE].readable
<1>1. <<>> \in Seq(1..n) OBVIOUS
<1> QED BY <1>1 DEF Lost, Databases

\* The first state, whatever checkpoint the command is said to work on.
LEMMA InitCheckpoint == Init => CheckpointInv
<1> SUFFICES ASSUME Init PROVE CheckpointInv OBVIOUS
<1> USE CheckpointAssumption
<1>0. [Lost EXCEPT !.readable = TRUE] \in Databases(0) /\ Lost \in Databases(0)
  BY LostIsEmpty, 0 \in Nat
<1>1. /\ live \in Databases(0) /\ live.rows = {} /\ live.version = 0
      /\ live.events = <<>> /\ live.readable
  BY <1>0, LostIsEmpty, 0 \in Nat DEF Init
<1>2. NoDirectory \in Directories(0) /\ ~NoDirectory.manifest /\ NoDirectory.snapshot = Lost
  BY <1>0 DEF NoDirectory, Directories
<1>3. damagedSince \in BOOLEAN BY DEF Init
<1>4. TypeOK BY <1>1, <1>2, <1>3 DEF Init, TypeOK, Directories
<1>5. \A id \in Ids : dirs[id].snapshot = Lost /\ ~dirs[id].manifest BY <1>2 DEF Init
<1>6. /\ RecordedIsComplete /\ ManifestIsLast /\ TargetIsReached
      /\ LineIsNew /\ VersionsAreCounted
  BY <1>1, <1>5, LostIsEmpty
  DEF Init, RecordedIsComplete, ManifestIsLast, TargetIsReached, LineIsNew, VersionsAreCounted
<1>7. IndexFollowsTrail BY <1>1, <1>5, LostIsEmpty DEF IndexFollowsTrail, InOrder
<1> QED BY <1>4, <1>6, <1>7 DEF CheckpointInv

(***************************************************************************)
(* The invariant is inductive.                                             *)
(***************************************************************************)
\* What the databases and directories are when the invariant holds.
LEMMA CheckpointTypes ==
  ASSUME CheckpointInv
  PROVE  /\ trail \in Nat /\ live \in Databases(trail) /\ target \in Ids
         /\ dirs \in [Ids -> Directories(trail)]
         /\ \A id \in Ids : dirs[id].snapshot \in Databases(trail)
  BY DEF CheckpointInv, TypeOK, Directories

\* A step that leaves the trail, the databases and the directories alone.
LEMMA StoresUntouched ==
  ASSUME CheckpointInv, UNCHANGED <<live, trail, dirs>>, changes' = changes, TypeOK',
         TargetIsReached', LineIsNew'
  PROVE  CheckpointInv'
  BY DEF CheckpointInv, RecordedIsComplete, Complete, ManifestIsLast, VersionsAreCounted,
         IndexFollowsTrail, InOrder

LEMMA AppendLineKeeps == ASSUME CheckpointInv, AppendLine PROVE CheckpointInv'
<1> USE CheckpointTypes DEF AppendLine
<1>1. live \in Databases(trail + 1) /\ \A id \in Ids : dirs[id].snapshot \in Databases(trail + 1)
  BY DatabasesGrow
<1>2. \A id \in Ids : dirs[id] \in Directories(trail + 1) BY <1>1 DEF Directories
<1>3. TypeOK' BY <1>1, <1>2 DEF CheckpointInv, TypeOK, environment, Directories
<1>4. LineIsNew' BY DatabaseFields DEF LineIsNew
<1>5. IndexFollowsTrail'
  BY DEF CheckpointInv, IndexFollowsTrail, InOrder
<1> QED BY <1>3, <1>4, <1>5
  DEF CheckpointInv, RecordedIsComplete, Complete, ManifestIsLast, TargetIsReached,
      VersionsAreCounted

LEMMA InsertEventKeeps == ASSUME CheckpointInv, InsertEvent PROVE CheckpointInv'
<1> USE CheckpointTypes DEF InsertEvent
<1>1. trail \in 1..trail BY DEF CheckpointInv, LineIsNew
<1>2. live.events \in Seq(1..trail) /\ Append(live.events, trail) \in Seq(1..trail)
  BY <1>1, DatabaseFields
<1>3. /\ live' \in Databases(trail) /\ live'.events = Append(live.events, trail)
      /\ live'.rows = live.rows /\ live'.version = live.version
      /\ live'.readable = live.readable
  BY <1>2 DEF Databases
<1>4. TypeOK' BY <1>3 DEF CheckpointInv, TypeOK, environment
<1>5. InOrder(live'.events)
  <2>1. InOrder(live.events) BY DEF CheckpointInv, IndexFollowsTrail
  <2>2. \A i \in DOMAIN live.events : live.events[i] < trail BY DEF CheckpointInv, LineIsNew
  <2> DEFINE n == Len(live.events)
             longer == Append(live.events, trail)
  <2>3. /\ n \in Nat /\ Len(longer) = n + 1 /\ longer[n + 1] = trail
        /\ DOMAIN live.events = 1..n /\ DOMAIN longer = 1..(n + 1)
        /\ \A i \in 1..n : longer[i] = live.events[i]
    BY <1>2, AppendProperties, LenProperties
  <2>4. \A i \in 1..n : live.events[i] \in 1..trail BY <2>1, <2>3 DEF InOrder
  <2> HIDE DEF n, longer
  <2>5. \A i \in 1..(n + 1) : longer[i] \in 1..trail BY <1>1, <2>3, <2>4
  <2>6. \A i \in 2..(n + 1) : longer[i - 1] < longer[i]
    <3> SUFFICES ASSUME NEW i \in 2..(n + 1) PROVE longer[i - 1] < longer[i] OBVIOUS
    <3>1. CASE i = n + 1 BY <2>2, <2>3, <3>1
    <3>2. CASE i \in 2..n
      <4>1. live.events[i - 1] < live.events[i] BY <2>1, <3>2 DEF InOrder, n
      <4> QED BY <2>3, <3>2, <4>1
    <3> QED BY <2>3, <3>1, <3>2
  <2>7. InOrder(longer) BY <2>3, <2>5, <2>6 DEF InOrder
  <2> QED BY <1>3, <2>7 DEF longer
<1>6. IndexFollowsTrail' BY <1>5 DEF CheckpointInv, IndexFollowsTrail, InOrder
<1> QED BY <1>3, <1>4, <1>6
  DEF CheckpointInv, RecordedIsComplete, Complete, ManifestIsLast, TargetIsReached,
      VersionsAreCounted, LineIsNew

LEMMA VersionsAreNumbers ==
  ASSUME CheckpointInv
  PROVE  /\ changes \in Nat /\ live.version \in Nat
         /\ \A id \in Ids : dirs[id].snapshot.version \in Nat
<1>1. changes \in Nat BY CheckpointAssumption DEF CheckpointInv, TypeOK
<1> QED BY <1>1, CheckpointTypes, DatabaseFields

LEMMA MutateKeeps == ASSUME CheckpointInv, Mutate PROVE CheckpointInv'
<1> USE CheckpointTypes DEF Mutate, Count, Emit
<1>0. changes + 1 \in Nat BY DEF CheckpointInv, TypeOK
<1>1. /\ live' \in Databases(trail) /\ live'.events = live.events
      /\ live'.rows = live.rows /\ live'.version = changes + 1
  BY <1>0 DEF Databases
<1>2. TypeOK' BY <1>1, CheckpointAssumption DEF CheckpointInv, TypeOK, environment
<1>3. VersionsAreCounted'
  BY <1>1, VersionsAreNumbers DEF CheckpointInv, VersionsAreCounted
<1>4. RecordedIsComplete' /\ ManifestIsLast'
  BY <1>1 DEF CheckpointInv, RecordedIsComplete, Complete, ManifestIsLast
<1>5. TargetIsReached' /\ LineIsNew'
  BY <1>1 DEF CheckpointInv, TargetIsReached, LineIsNew
<1>6. IndexFollowsTrail'
  BY <1>1 DEF CheckpointInv, IndexFollowsTrail, InOrder
<1> QED BY <1>2, <1>3, <1>4, <1>5, <1>6 DEF CheckpointInv

LEMMA MakeDirectoryKeeps ==
  ASSUME CheckpointInv, NEW id \in Ids, MakeDirectory(id) PROVE CheckpointInv'
<1> USE CheckpointTypes DEF MakeDirectory
<1>1. /\ dirs' \in [Ids -> Directories(trail)] /\ dirs'[id].made
      /\ \A other \in Ids : /\ dirs'[other].snapshot = dirs[other].snapshot
                            /\ dirs'[other].manifest = dirs[other].manifest
                            /\ dirs[other].made => dirs'[other].made
  BY DEF Directories
<1>2. TypeOK' BY <1>1 DEF CheckpointInv, TypeOK, Directories, environment
<1>3. ~dirs'[id].manifest BY <1>1 DEF CheckpointInv, ManifestIsLast, Complete
<1>4. RecordedIsComplete' /\ ManifestIsLast'
  BY <1>1, <1>3 DEF CheckpointInv, RecordedIsComplete, Complete, ManifestIsLast
<1>5. TargetIsReached' /\ LineIsNew'
  BY <1>1, <1>3 DEF CheckpointInv, TargetIsReached, LineIsNew
<1>6. IndexFollowsTrail' /\ VersionsAreCounted'
  BY <1>1 DEF CheckpointInv, IndexFollowsTrail, InOrder, VersionsAreCounted
<1> QED BY <1>2, <1>4, <1>5, <1>6 DEF CheckpointInv

LEMMA BackupKeeps == ASSUME CheckpointInv, Backup PROVE CheckpointInv'
<1> USE CheckpointTypes DEF Backup, AfterBackup
<1>1. /\ dirs' \in [Ids -> Directories(trail)] /\ dirs'[target].snapshot = live
      /\ \A other \in Ids : /\ other # target => dirs'[other] = dirs[other]
                            /\ dirs'[other].manifest = dirs[other].manifest
                            /\ dirs'[other].made = dirs[other].made
  BY DEF Directories
<1>2. TypeOK' BY <1>1 DEF CheckpointInv, TypeOK, Directories, environment
<1>3. ~dirs[target].manifest /\ live.readable BY DEF CheckpointInv, TargetIsReached
<1>4. target \notin live.rows BY <1>3 DEF CheckpointInv, RecordedIsComplete, Complete
<1>5. \A id \in Ids : dirs[id].manifest => Complete(id)'
  BY <1>1, <1>3 DEF CheckpointInv, ManifestIsLast, Complete
<1>6. RecordedIsComplete' /\ ManifestIsLast'
  BY <1>1, <1>5, DatabaseFields DEF CheckpointInv, RecordedIsComplete, ManifestIsLast, Complete
<1>7. TargetIsReached' /\ LineIsNew'
  BY <1>1, <1>3, <1>4 DEF CheckpointInv, TargetIsReached, LineIsNew
<1>8. IndexFollowsTrail' /\ VersionsAreCounted'
  BY <1>1 DEF CheckpointInv, IndexFollowsTrail, InOrder, VersionsAreCounted
<1> QED BY <1>2, <1>6, <1>7, <1>8 DEF CheckpointInv

LEMMA WriteManifestKeeps == ASSUME CheckpointInv, WriteManifest PROVE CheckpointInv'
<1> USE CheckpointTypes DEF WriteManifest
<1>0. members \in Nat BY CheckpointAssumption DEF CheckpointInv, TypeOK
<1>1. /\ dirs' \in [Ids -> Directories(trail)] /\ dirs'[target].manifest
      /\ \A other \in Ids : /\ other # target => dirs'[other] = dirs[other]
                            /\ dirs'[other].snapshot = dirs[other].snapshot
                            /\ dirs'[other].made = dirs[other].made
  BY <1>0 DEF Directories
<1>2. TypeOK' BY <1>1 DEF CheckpointInv, TypeOK, Directories, environment
<1>3. Complete(target)' BY <1>1 DEF CheckpointInv, TargetIsReached, Complete
<1>4. \A id \in Ids : Complete(id) => Complete(id)' BY <1>1, <1>3 DEF Complete
<1>5. ManifestIsLast' BY <1>1, <1>3, <1>4 DEF CheckpointInv, ManifestIsLast, Complete
<1>6. RecordedIsComplete'
  BY <1>1, <1>4, DatabaseFields DEF CheckpointInv, RecordedIsComplete
<1>7. TargetIsReached' /\ LineIsNew'
  BY <1>1 DEF CheckpointInv, TargetIsReached, LineIsNew
<1>8. IndexFollowsTrail' BY <1>1 DEF CheckpointInv, IndexFollowsTrail, InOrder
<1>9. VersionsAreCounted' BY <1>1 DEF CheckpointInv, VersionsAreCounted
<1> QED BY <1>2, <1>5, <1>6, <1>7, <1>8, <1>9 DEF CheckpointInv

LEMMA RecordKeeps == ASSUME CheckpointInv, Record PROVE CheckpointInv'
<1> USE CheckpointTypes DEF Record, Count, Emit
<1>1. /\ live' \in Databases(trail) /\ live'.events = live.events
      /\ live'.rows = live.rows \cup {target} /\ live'.version = live.version
  BY DEF Databases
<1>2. TypeOK' BY <1>1, CheckpointAssumption DEF CheckpointInv, TypeOK, environment
<1>3. Complete(target) BY DEF CheckpointInv, TargetIsReached, ManifestIsLast
<1>4. RecordedIsComplete' BY <1>1, <1>3 DEF CheckpointInv, RecordedIsComplete, Complete
<1>5. VersionsAreCounted'
  BY <1>1, VersionsAreNumbers DEF CheckpointInv, VersionsAreCounted
<1>6. ManifestIsLast' BY DEF CheckpointInv, ManifestIsLast, Complete
<1>7. TargetIsReached' /\ LineIsNew'
  BY <1>1 DEF CheckpointInv, TargetIsReached, LineIsNew
<1>8. IndexFollowsTrail' BY <1>1 DEF CheckpointInv, IndexFollowsTrail, InOrder
<1> QED BY <1>2, <1>4, <1>5, <1>6, <1>7, <1>8 DEF CheckpointInv

LEMMA StartRestoreKeeps ==
  ASSUME CheckpointInv, NEW id \in Ids, StartRestore(id) PROVE CheckpointInv'
<1>1. TypeOK' BY DEF CheckpointInv, TypeOK, StartRestore
<1> QED BY <1>1, StoresUntouched DEF StartRestore, Verified, TargetIsReached, LineIsNew

\* A live file replaced by a database whose rows, events and version are in order.
LEMMA LiveReplaced ==
  ASSUME CheckpointInv, UNCHANGED <<trail, dirs, target, members, environment>>,
         NEW d \in Databases(trail), live' = d,
         \A id \in d.rows : Complete(id), InOrder(d.events), d.version <= changes,
         changes' \in 0..MaxChanges, changes <= changes',
         \/ pc = "copy" /\ pc' = "copying"
         \/ pc = "copying" /\ pc' \in {"append", "idle"}
  PROVE  CheckpointInv'
<1> USE CheckpointTypes
<1>1. TypeOK' BY DEF CheckpointInv, TypeOK, environment
<1>2. RecordedIsComplete' /\ ManifestIsLast'
  BY DEF CheckpointInv, RecordedIsComplete, ManifestIsLast, Complete
<1>3. TargetIsReached' /\ LineIsNew'
  BY DEF CheckpointInv, TargetIsReached, LineIsNew, environment
<1>4. VersionsAreCounted'
  <2>1. live.version <= changes /\ changes \in Nat /\ changes' \in Nat
    BY CheckpointAssumption DEF CheckpointInv, TypeOK, VersionsAreCounted
  <2>2. \A id \in Ids : dirs'[id].snapshot.version <= changes /\ dirs'[id].snapshot.version \in Nat
    BY DatabaseFields DEF CheckpointInv, VersionsAreCounted
  <2>3. live'.version <= changes' BY <2>1, DatabaseFields
  <2> QED BY <2>1, <2>2, <2>3 DEF VersionsAreCounted
<1>5. IndexFollowsTrail' BY DEF CheckpointInv, IndexFollowsTrail, InOrder
<1> QED BY <1>1, <1>2, <1>3, <1>4, <1>5 DEF CheckpointInv

LEMMA RestoreKeeps == ASSUME CheckpointInv, TruncateLive \/ FillLive PROVE CheckpointInv'
<1> USE CheckpointTypes
<1>0. changes \in 0..MaxChanges /\ InOrder(<<>>)
  BY DEF CheckpointInv, TypeOK, InOrder
<1>1. CASE TruncateLive
  BY <1>0, <1>1, LiveReplaced, LostIsEmpty DEF TruncateLive
<1>2. CASE FillLive
  <2>1. /\ dirs[target].snapshot \in Databases(trail)
        /\ \A id \in dirs[target].snapshot.rows : Complete(id)
        /\ InOrder(dirs[target].snapshot.events)
        /\ dirs[target].snapshot.version <= changes
    BY DEF CheckpointInv, RecordedIsComplete, IndexFollowsTrail, VersionsAreCounted
  <2>2. \A d \in {Lost, [Lost EXCEPT !.readable = TRUE]} :
          d \in Databases(trail) /\ d.rows = {} /\ d.events = <<>> /\ d.version = 0
    BY LostIsEmpty
  <2>3. PICK d \in {dirs[target].snapshot, Lost, [Lost EXCEPT !.readable = TRUE]} : live' = d
    BY <1>2 DEF FillLive, Copied
  <2>4. /\ d \in Databases(trail) /\ \A id \in d.rows : Complete(id)
        /\ InOrder(d.events) /\ d.version <= changes
    <3>1. CASE d = dirs[target].snapshot BY <2>1, <3>1
    <3>2. CASE d \in {Lost, [Lost EXCEPT !.readable = TRUE]}
      <4>1. d \in Databases(trail) /\ d.rows = {} /\ d.events = <<>> /\ d.version = 0
        BY <2>2, <3>2
      <4> QED BY <1>0, <4>1
    <3> QED BY <3>1, <3>2
  <2>5. pc = "copying" /\ pc' \in {"append", "idle"} BY <1>2 DEF FillLive, Emit
  <2>6. changes' \in 0..MaxChanges /\ changes <= changes'
    BY <1>0, <1>2, CheckpointAssumption DEF FillLive, Count
  <2>7. UNCHANGED <<trail, dirs, target, members, environment>> BY <1>2 DEF FillLive
  <2> QED BY <2>3, <2>4, <2>5, <2>6, <2>7, LiveReplaced
<1> QED BY <1>1, <1>2

LEMMA EnvironmentKeeps ==
  ASSUME CheckpointInv, EditMember \/ Crash \/ UNCHANGED vars PROVE CheckpointInv'
<1>1. CASE EditMember
  <2>1. TypeOK' BY <1>1, CheckpointAssumption DEF CheckpointInv, TypeOK, EditMember, environment
  <2> QED BY <1>1, <2>1, StoresUntouched
    DEF EditMember, CheckpointInv, TargetIsReached, LineIsNew, environment
<1>2. CASE Crash
  <2>1. TypeOK' BY <1>2 DEF CheckpointInv, TypeOK, Crash
  <2> QED BY <1>2, <2>1, StoresUntouched DEF Crash, TargetIsReached, LineIsNew
<1>3. CASE UNCHANGED vars
  <2>1. TypeOK' BY <1>3 DEF CheckpointInv, TypeOK, vars, environment
  <2> QED BY <1>3, <2>1, StoresUntouched
    DEF vars, environment, CheckpointInv, TargetIsReached, LineIsNew
<1> QED BY <1>1, <1>2, <1>3

LEMMA DamageKeeps ==
  ASSUME CheckpointInv, NEW id \in Ids, Damage(id) PROVE CheckpointInv'
<1> USE CheckpointTypes DEF Damage
<1>1. /\ dirs' \in [Ids -> Directories(trail)]
      /\ \A other \in Ids : /\ dirs'[other].snapshot = dirs[other].snapshot
                            /\ dirs'[other].manifest = dirs[other].manifest
                            /\ dirs'[other].made = dirs[other].made
  BY DEF Directories
<1>2. damagedSince' \in BOOLEAN OBVIOUS
<1>3. TypeOK' BY <1>1, <1>2 DEF CheckpointInv, TypeOK, Directories
<1>4. /\ id # target => dirs'[target] = dirs[target]
      /\ id = target /\ pc \in {"copy", "copying"} => damagedSince'
      /\ damagedSince => damagedSince'
  OBVIOUS
<1>5. TargetIsReached' BY <1>1, <1>4 DEF CheckpointInv, TargetIsReached
<1>6. RecordedIsComplete' /\ ManifestIsLast'
  BY <1>1 DEF CheckpointInv, RecordedIsComplete, Complete, ManifestIsLast
<1>7. LineIsNew' /\ IndexFollowsTrail' /\ VersionsAreCounted'
  BY <1>1 DEF CheckpointInv, LineIsNew, IndexFollowsTrail, InOrder, VersionsAreCounted
<1> QED BY <1>3, <1>5, <1>6, <1>7 DEF CheckpointInv

LEMMA StepKeepsCheckpoints == CheckpointInv /\ [Next]_vars => CheckpointInv'
  BY AppendLineKeeps, InsertEventKeeps, MutateKeeps, MakeDirectoryKeeps, BackupKeeps,
     WriteManifestKeeps, RecordKeeps, StartRestoreKeeps, RestoreKeeps, EnvironmentKeeps,
     DamageKeeps
  DEF Next

(***************************************************************************)
(* The theorems.                                                           *)
(***************************************************************************)
\* Whatever is killed between two writes, a row of the checkpoints table, live
\* or in a snapshot, has a complete directory; with what the proof needs of the
\* steps of checkpoints.py.
THEOREM CheckpointsAreComplete == Spec => []CheckpointInv
  BY InitCheckpoint, StepKeepsCheckpoints, PTL DEF Spec

\* The events of every database are lines of the trail, in its order and each
\* once, through any kills and restores.
THEOREM IndexIsBacked == Spec => []IndexFollowsTrail
<1>1. CheckpointInv => IndexFollowsTrail BY DEF CheckpointInv
<1> QED BY <1>1, CheckpointsAreComplete, PTL

\* No step lowers the version of the live state or makes it readable again but
\* the restore of a checkpoint that is intact, or was when it was verified.
LEMMA StepRestoresSaved ==
  ASSUME CheckpointInv, Next, GoesBack PROVE FromCheckpoint \/ damagedSince
<1> USE DEF GoesBack
<1>0. live \in Databases(trail) /\ target \in Ids BY CheckpointTypes
<1>1. live.version \in Nat /\ live.version <= changes /\ changes \in Nat
  BY <1>0, DatabaseFields DEF CheckpointInv, TypeOK, VersionsAreCounted
<1>2. live' # live BY <1>1
<1>3. ~Mutate
  <2>1. Mutate => live.readable /\ live'.version = changes + 1 BY <1>0 DEF Mutate, Count, Databases
  <2> QED BY <1>1, <2>1
<1>4. ~InsertEvent
  <2> SUFFICES ASSUME InsertEvent PROVE FALSE OBVIOUS
  <2>1. live'.version = live.version BY <1>0 DEF InsertEvent, Databases
  <2>2. live'.readable = live.readable BY <1>0 DEF InsertEvent, Databases
  <2> QED BY <1>1, <2>1, <2>2
<1>5. ~Record
  <2> SUFFICES ASSUME Record PROVE FALSE OBVIOUS
  <2>1. live'.version = live.version BY <1>0 DEF Record, Databases
  <2>2. live'.readable = live.readable BY <1>0 DEF Record, Databases
  <2> QED BY <1>1, <2>1, <2>2
<1>6. ~TruncateLive BY <1>0, LostIsEmpty, 0 \in Nat DEF TruncateLive
<1>7. FillLive
  BY <1>2, <1>3, <1>4, <1>5, <1>6
  DEF Next, AppendLine, MakeDirectory, Backup, WriteManifest, StartRestore, EditMember,
      Damage, Crash
<1>8. dirs[target].manifest /\ (dirs[target].intact \/ damagedSince)
  BY <1>0, <1>7 DEF CheckpointInv, TargetIsReached, FillLive
<1>9. dirs[target].intact => live' = dirs[target].snapshot BY <1>7 DEF FillLive, Copied
<1> QED BY <1>0, <1>8, <1>9 DEF FromCheckpoint

\* "Restoration verifies hashes before replacing live state": the live state only
\* goes back to what an intact checkpoint saved, unless a file of it is damaged
\* after verify has read it.
THEOREM RestoresAreVerified == Spec => RestoresWhatWasSaved
<1>1. CheckpointInv /\ [Next]_vars => [GoesBack => FromCheckpoint \/ damagedSince]_vars
  BY StepRestoresSaved
<1> QED BY <1>1, CheckpointsAreComplete, PTL DEF Spec, RestoresWhatWasSaved

(***************************************************************************)
(* What the documents say of restores holds of a command that comes to its *)
(* end and whose files stay as they were verified: only a kill in the      *)
(* middle of the copy, or damage during it, loses the live database.       *)
(***************************************************************************)
\* While no command is killed and no restored file was damaged after it was
\* verified, the live file is whole but for the middle of a copy.
LiveIsWhole ==
  /\ crashes = 0
  /\ pc = "copying" => ~live.readable
  /\ live.readable \/ pc = "copying" \/ damagedSince

LEMMA LiveIsWholeStep ==
  ASSUME MaxCrashes = 0, CheckpointInv, LiveIsWhole, [Next]_vars
  PROVE  LiveIsWhole'
<1> USE CheckpointTypes DEF environment
<1>0. [Lost EXCEPT !.readable = TRUE].readable /\ ~Lost.readable
  BY LostIsEmpty DEF CheckpointInv, TypeOK
<1>1. CASE Mutate
  <2>1. live'.readable = live.readable BY <1>1 DEF Mutate, Databases
  <2> QED BY <1>0, <1>1, <2>1 DEF Mutate, Emit, LiveIsWhole
<1>2. CASE Record
  <2>1. live'.readable = live.readable BY <1>2 DEF Record, Databases
  <2> QED BY <1>0, <1>2, <2>1 DEF Record, Emit, LiveIsWhole
<1>3. CASE InsertEvent
  <2>1. live'.readable = live.readable BY <1>3 DEF InsertEvent, Databases
  <2> QED BY <1>0, <1>3, <2>1 DEF InsertEvent, LiveIsWhole
<1>4. CASE AppendLine BY <1>0, <1>4 DEF AppendLine, LiveIsWhole
<1>5. CASE TruncateLive BY <1>0, <1>5 DEF TruncateLive, LiveIsWhole
<1>6. CASE FillLive
  <2>1. dirs[target].snapshot.readable /\ (dirs[target].intact \/ damagedSince)
    BY <1>6 DEF FillLive, CheckpointInv, TargetIsReached, ManifestIsLast, Complete
  <2>2. dirs[target].intact => live'.readable BY <1>6, <2>1 DEF FillLive, Copied
  <2> QED BY <1>6, <2>1, <2>2 DEF FillLive, Emit, LiveIsWhole
<1>7. CASE Backup \/ WriteManifest
  BY <1>0, <1>7 DEF Backup, AfterBackup, WriteManifest, LiveIsWhole
<1>8. CASE \E id \in Ids : MakeDirectory(id) \/ StartRestore(id)
  BY <1>0, <1>8 DEF MakeDirectory, StartRestore, LiveIsWhole
<1>9. CASE EditMember \/ (\E id \in Ids : Damage(id)) \/ UNCHANGED vars
  BY <1>0, <1>9 DEF EditMember, Damage, LiveIsWhole, vars
<1>10. ~Crash BY DEF Crash, LiveIsWhole
<1> QED
  BY <1>1, <1>2, <1>3, <1>4, <1>5, <1>6, <1>7, <1>8, <1>9, <1>10 DEF Next

\* operator-guide.md, "Checkpoints provide full state restoration if needed": a
\* restore that is neither killed nor has its files damaged between their
\* verification and the end of the copy leaves a live database that opens; damage
\* before, between commands included, never does harm.
THEOREM UndisturbedRestoresSurvive ==
  MaxCrashes = 0 => (Spec => [](LiveSurvives \/ damagedSince))
<1> SUFFICES ASSUME MaxCrashes = 0 PROVE Spec => [](LiveSurvives \/ damagedSince) OBVIOUS
<1>1. Init => LiveIsWhole BY LostIsEmpty, 0 \in Nat DEF Init, LiveIsWhole
<1>2. CheckpointInv /\ LiveIsWhole /\ [Next]_vars => LiveIsWhole' BY LiveIsWholeStep
<1>3. LiveIsWhole => LiveSurvives \/ damagedSince BY DEF LiveIsWhole, LiveSurvives
<1> QED BY <1>1, <1>2, <1>3, CheckpointsAreComplete, PTL DEF Spec

=============================================================================
