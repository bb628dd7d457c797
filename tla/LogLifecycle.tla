---------------------------- MODULE LogLifecycle ----------------------------
(***************************************************************************)
(* legacy_logs/lifecycle.py: build_lifecycle pairs the INI and FIN records *)
(* of a log and iterate_loop_runs collects the iterations of the           *)
(* exploitation loop.  Both walk the records once; here they take each     *)
(* record in the same step.  A record is what they read of it; its number  *)
(* stands for its id.                                                      *)
(***************************************************************************)
EXTENDS Naturals, Sequences, FiniteSets, SequencesExt

CONSTANTS
  Components, Entities, Iterations, Jobs,
  Events,       \* the records considered
  MaxRecords    \* bound: records of the log

None == "none"
\* marker is what DMF_ACTION_RE finds in the event, which is case-sensitive:
\* the event "Ini dmf_execution_expl" has written "Ini" and marker none.
Written == {"INI", "FIN", "Ini", "Fin", None}
EventFacts ==
  [type: {"TB_LOG", "TIME_SLEEP", "OTHER"}, component: Components \cup {None},
   job: Jobs, entity: Entities \cup {None}, iteration: Iterations \cup {None},
   written: Written, loop: BOOLEAN]

ASSUME LifecycleAssumption ==
  /\ MaxRecords \in Nat
  /\ None \notin Components \cup Entities \cup Iterations
  /\ Events \subseteq EventFacts

Marker(r) == IF r.written \in {"INI", "FIN"} THEN r.written ELSE None

VARIABLES
  records,    \* the records read, in order
  stages,     \* stages, start and end being record numbers
  opening,    \* the stages open under a key, the last opened last
  context,    \* iteration_context
  runs,       \* runs of iterate_loop_runs
  open        \* whether its last run is current

vars == <<records, stages, opening, context, runs, open>>

Keys == Components \X Jobs \X (Entities \cup {None}) \X (Iterations \cup {None})
NotEnded == 0

TypeOK ==
  /\ records \in Seq(Events)
  /\ stages \in Seq([start: Nat, end: Nat, orphan: BOOLEAN])
  /\ opening \in [Keys -> Seq(Nat)]
  /\ context \in Iterations \cup {None}
  /\ runs \in Seq([start: Nat, end: Nat, sleeps: Seq(Nat), stages: Seq(Nat)])
  /\ open \in BOOLEAN

Init ==
  /\ records = <<>> /\ stages = <<>>
  /\ opening = [key \in Keys |-> <<>>]
  /\ context = None
  /\ runs = <<>> /\ open = FALSE

Number == Len(records) + 1

(***************************************************************************)
(* build_lifecycle.                                                        *)
(***************************************************************************)
ContextAfter(r) == IF r.type = "TB_LOG" /\ r.iteration # None THEN r.iteration ELSE context

\* The fields of a record the document names as its key.
KeyOwn(r) == <<r.component, r.job, r.entity, r.iteration>>

\* _correlation_key: a record without iteration takes the last one seen.
Key(r) ==
  <<r.component, r.job, r.entity,
    IF r.iteration # None THEN r.iteration ELSE ContextAfter(r)>>

Correlates(r) == r.type = "TB_LOG" /\ Marker(r) # None /\ r.component # None

Ini(r) ==
  /\ Correlates(r) /\ Marker(r) = "INI"
  /\ stages' = Append(stages, [start |-> Number, end |-> NotEnded, orphan |-> FALSE])
  /\ opening' = [opening EXCEPT ![Key(r)] = Append(@, Len(stages) + 1)]

\* Variant: a FIN without INI is passed over.
OrphanFinDropped(r) ==
  /\ Correlates(r) /\ Marker(r) = "FIN"
  /\ opening[Key(r)] = <<>>
  /\ UNCHANGED <<stages, opening>>

OrphanFin(r) ==
  /\ Correlates(r) /\ Marker(r) = "FIN"
  /\ opening[Key(r)] = <<>>
  /\ stages' = Append(stages, [start |-> Number, end |-> NotEnded, orphan |-> TRUE])
  /\ UNCHANGED opening

StackAfterFin(stack) == Front(stack)

\* Variant: the stage opened first is closed.
StageClosedFirst(stack) == Head(stack)

StageClosed(stack) == Last(stack)

Fin(r) ==
  /\ Correlates(r) /\ Marker(r) = "FIN"
  /\ opening[Key(r)] # <<>>
  /\ stages' = [stages EXCEPT ![StageClosed(opening[Key(r)])].end = Number]
  /\ opening' = [opening EXCEPT ![Key(r)] = StackAfterFin(@)]

Passed(r) == ~Correlates(r) /\ UNCHANGED <<stages, opening>>

(***************************************************************************)
(* iterate_loop_runs; r.loop tells that the event, with its leading Ini or *)
(* Fin removed, starts with dmf_execution_expl.  TIME_SLEEP records are    *)
(* passed over before the branch that collects them.                       *)
(***************************************************************************)
IsLoopEvent(r) == r.type = "TB_LOG" /\ r.iteration # None /\ r.loop

LoopIni(r) ==
  /\ IsLoopEvent(r) /\ Marker(r) = "INI"
  /\ runs' = Append(runs, [start |-> Number, end |-> NotEnded, sleeps |-> <<>>, stages |-> <<>>])
  /\ open' = TRUE

LoopFin(r) ==
  /\ IsLoopEvent(r) /\ Marker(r) = "FIN" /\ open
  /\ runs' = [runs EXCEPT ![Len(runs)].end = Number]
  /\ open' = FALSE

\* Variant: a run collects whether or not it is open.
CollectsAlways(r) == r.type = "TB_LOG" /\ ~IsLoopEvent(r) /\ runs # <<>> /\ Marker(r) # None

Collects(r) == r.type = "TB_LOG" /\ ~IsLoopEvent(r) /\ open /\ Marker(r) # None

LoopStage(r) ==
  /\ Collects(r)
  /\ runs' = [runs EXCEPT ![Len(runs)].stages = Append(@, Number)]
  /\ UNCHANGED open

LoopPassed(r) ==
  /\ ~Collects(r)
  /\ IsLoopEvent(r) => Marker(r) = None \/ (Marker(r) = "FIN" /\ ~open)
  /\ UNCHANGED <<runs, open>>

Read(r) ==
  /\ Len(records) < MaxRecords
  /\ Ini(r) \/ OrphanFin(r) \/ Fin(r) \/ Passed(r)
  /\ LoopIni(r) \/ LoopFin(r) \/ LoopStage(r) \/ LoopPassed(r)
  /\ context' = ContextAfter(r)
  /\ records' = Append(records, r)

Next == \E r \in Events : Read(r)

Spec == Init /\ [][Next]_vars

(***************************************************************************)
(* Properties.                                                             *)
(***************************************************************************)
Ended(stage) == stage.end # NotEnded

(***************************************************************************)
(* Every INI record of a component is the start of one stage, every FIN    *)
(* record ends one stage or is the one record of an ORPHAN_FIN stage:      *)
(* "duplicated INIs each hold their lifecycle stage" and nothing is        *)
(* counted twice in incomplete_lifecycle_count and orphan_fin_count.       *)
(***************************************************************************)
EveryMarkCountsOnce ==
  \A n \in DOMAIN records :
    LET starts == {s \in DOMAIN stages : stages[s].start = n /\ ~stages[s].orphan}
        ends == {s \in DOMAIN stages : stages[s].end = n}
        orphans == {s \in DOMAIN stages : stages[s].start = n /\ stages[s].orphan}
        r == records[n]
    IN /\ Cardinality(starts) = IF Correlates(r) /\ r.written = "INI" THEN 1 ELSE 0
       /\ Cardinality(ends) + Cardinality(orphans) =
            IF Correlates(r) /\ r.written = "FIN" THEN 1 ELSE 0

(***************************************************************************)
(* A completed stage is one execution: it starts before it ends, with the  *)
(* same component, job and entity and never with two different iterations, *)
(* and an execution of the same key that starts inside it ends inside it.  *)
(***************************************************************************)
Same(a, b) ==
  /\ a.component = b.component /\ a.job = b.job /\ a.entity = b.entity
  /\ a.iteration = None \/ b.iteration = None \/ a.iteration = b.iteration

StagesNest ==
  \A s \in DOMAIN stages : Ended(stages[s]) =>
    LET first == records[stages[s].start] last == records[stages[s].end] IN
    /\ stages[s].start < stages[s].end
    /\ Same(first, last)
    /\ \A t \in DOMAIN stages :
         /\ KeyOwn(records[stages[t].start]) = KeyOwn(first)
         /\ stages[s].start < stages[t].start /\ stages[t].start < stages[s].end
         /\ first.iteration # None
         => Ended(stages[t]) /\ stages[t].end < stages[s].end

(***************************************************************************)
(* What the passes keep.  A stack holds the stages open under its key in   *)
(* the order they were opened in, and no stage is on two.                  *)
(***************************************************************************)
OpensUnder(r, key) ==
  /\ key[1] = r.component /\ key[2] = r.job /\ key[3] = r.entity
  /\ r.iteration # None => key[4] = r.iteration

OpenStage(s) == ~stages[s].orphan /\ ~Ended(stages[s])

StackedAreOpen ==
  \A key \in Keys : \A i \in DOMAIN opening[key] :
    /\ opening[key][i] \in DOMAIN stages /\ OpenStage(opening[key][i])
    /\ OpensUnder(records[stages[opening[key][i]].start], key)

StackedInOrder ==
  \A key \in Keys : \A i, j \in DOMAIN opening[key] :
    i < j => opening[key][i] < opening[key][j]

StackedOnce ==
  \A key, other \in Keys : \A i \in DOMAIN opening[key], j \in DOMAIN opening[other] :
    opening[key][i] = opening[other][j] => key = other

OpenAreStacked ==
  \A s \in DOMAIN stages : OpenStage(s) =>
    \E key \in Keys : \E i \in DOMAIN opening[key] : opening[key][i] = s

StacksHoldOpenStages == StackedAreOpen /\ StackedInOrder /\ StackedOnce /\ OpenAreStacked

\* A stage starts at an INI and ends at a FIN of its own, or is a lone FIN; the
\* stages start in the order of their numbers.
Marks(n, marker) == n \in DOMAIN records /\ Correlates(records[n]) /\ records[n].written = marker

StagesAreMarked ==
  /\ \A s \in DOMAIN stages :
       /\ Marks(stages[s].start, IF stages[s].orphan THEN "FIN" ELSE "INI")
       /\ Ended(stages[s]) => ~stages[s].orphan /\ Marks(stages[s].end, "FIN")
  /\ \A s, t \in DOMAIN stages :
       /\ s < t => stages[s].start < stages[t].start
       /\ Ended(stages[s]) /\ s # t => stages[s].end # stages[t].end
       /\ Ended(stages[s]) /\ stages[t].orphan => stages[s].end # stages[t].start

MarksAreStaged ==
  \A n \in DOMAIN records : Correlates(records[n]) =>
    \E s \in DOMAIN stages : stages[s].start = n \/ stages[s].end = n

\* While a stage is open, no FIN of its own key is an orphan.
OrphansAreOutside ==
  \A s, o \in DOMAIN stages :
    /\ OpenStage(s) /\ stages[o].orphan
    /\ KeyOwn(records[stages[s].start]) = KeyOwn(records[stages[o].start])
    /\ records[stages[s].start].iteration # None
    => stages[o].start < stages[s].start

\* Only the last run is open, and runs speak of records that were read.
RunsAreRead ==
  /\ open => runs # <<>> /\ ~Ended(runs[Len(runs)])
  /\ \A i \in DOMAIN runs :
       /\ runs[i].start \in DOMAIN records
       /\ Ended(runs[i]) => runs[i].end \in DOMAIN records
       /\ \A k \in DOMAIN runs[i].stages : runs[i].stages[k] \in DOMAIN records

(***************************************************************************)
(* A stage belongs to at most one iteration of the loop, the one it ran    *)
(* in: it lies between the start and the end of the run that collects it,  *)
(* and only the last run may be open.                                      *)
(***************************************************************************)
RunsAreDisjoint ==
  \A i \in DOMAIN runs :
    /\ \A k \in DOMAIN runs[i].stages :
         /\ runs[i].start < runs[i].stages[k]
         /\ Ended(runs[i]) => runs[i].stages[k] < runs[i].end
         /\ i < Len(runs) => runs[i].stages[k] < runs[i + 1].start
    /\ i < Len(runs) /\ Ended(runs[i]) => runs[i].end < runs[i + 1].start

(***************************************************************************)
(* Statements of legacy-log-parser.md the code does not keep.              *)
(***************************************************************************)
\* "Nested events pair FIFO": of the stages of one key the first to start is
\* the first to end.
NestedPairFifo ==
  \A s, t \in DOMAIN stages :
    /\ s < t /\ Ended(stages[t]) /\ ~stages[s].orphan
    /\ KeyOwn(records[stages[s].start]) = KeyOwn(records[stages[t].start])
    => Ended(stages[s]) /\ stages[s].end < stages[t].end

\* "Open/close keys: (component, job_id, entity, iteration)": a FIN is an
\* orphan only when no open INI has its key.
OrphanHasNoOpenIni ==
  \A o \in DOMAIN stages : stages[o].orphan =>
    ~\E s \in DOMAIN stages :
       /\ s < o /\ ~stages[s].orphan /\ ~Ended(stages[s])
       /\ KeyOwn(records[stages[s].start]) = KeyOwn(records[stages[o].start])

\* "Ini/Fin dmf_execution_expl events produce iteration_runs".
LoopEventsMakeRuns ==
  \A n \in DOMAIN records :
    IsLoopEvent(records[n]) /\ records[n].written = "Ini" =>
      \E i \in DOMAIN runs : runs[i].start = n

\* "time_sleep: rows feed loop summaries".
SleepsFeedRuns ==
  \A n \in DOMAIN records : \A i \in DOMAIN runs :
    /\ records[n].type = "TIME_SLEEP"
    /\ runs[i].start < n /\ n < runs[i].end
    => n \in ToSet(runs[i].sleeps)

=============================================================================
