--------------------------- MODULE LogAssembler ----------------------------
(***************************************************************************)
(* legacy_logs/assembler.py: physical lines of a log become draft records. *)
(* A line is what the code looks at: the anchor detect_anchor finds and    *)
(* the few tests the continuation rules make; a record is its anchor and   *)
(* the numbers of the lines its raw_text joins, so start_line and end_line *)
(* are the first and the last of them.                                     *)
(***************************************************************************)
EXTENDS Integers, Sequences, FiniteSets

CONSTANTS
  Lines,      \* the lines considered
  MaxLines    \* bound: lines of the log

Anchors ==
  {"PAGE_HEADER", "TB_LOG", "SAS_SOURCE", "SAS_SOURCE_CONT", "SAS_MESSAGE",
   "CHECKPOINT", "TIME_SLEEP", "CALL_DMF", "FRAMEWORK_STATUS", "SAS_AUTOVAR", "none"}

\* blank: nothing but spaces; date: the localized date of a page header;
\* echo: "<number> !+", which no anchor matches; odd: an odd number of quotes;
\* dash: ends with "-"; lead: starts with a quote or "-".
LineFacts ==
  [anchor: Anchors, blank: BOOLEAN, date: BOOLEAN, echo: BOOLEAN,
   odd: BOOLEAN, dash: BOOLEAN, lead: BOOLEAN]

ASSUME LogAssumption ==
  /\ MaxLines \in Nat
  /\ \A l \in Lines :
       /\ l \in LineFacts
       /\ l.blank => l.anchor = "none" /\ ~(l.date \/ l.echo \/ l.odd \/ l.dash \/ l.lead)
       /\ l.date \/ l.echo => l.anchor = "none"

VARIABLES
  read,      \* the lines consumed, in order
  stack,     \* LogAssembler.stack
  current,   \* LogAssembler.current
  pending,   \* page_date_pending
  done       \* finish has been called

assemblyVars == <<read, stack, current, pending, done>>

Nothing == [anchor |-> "none", lines |-> <<>>]
\* Anchors whose record stays open for continuation lines.
OpenAnchors == {"TB_LOG", "SAS_SOURCE", "SAS_MESSAGE", "SAS_AUTOVAR"}
RecordAnchors == (Anchors \ {"none"}) \cup {"RAW_UNKNOWN"}

AssemblyTypeOK ==
  /\ read \in Seq(Lines)
  /\ stack \in Seq([anchor: RecordAnchors, lines: Seq(Nat)])
  /\ current = Nothing \/ current \in [anchor: OpenAnchors, lines: Seq(Nat)]
  /\ pending \in BOOLEAN
  /\ done \in BOOLEAN

AssemblyInit ==
  /\ read = <<>> /\ stack = <<>>
  /\ current = Nothing /\ pending = FALSE /\ done = FALSE

LineNumber == Len(read) + 1

\* The quotes of a record's text balance; its last line with text ends in "-".
OddQuotes(record) ==
  Cardinality({i \in DOMAIN record.lines : read[record.lines[i]].odd}) % 2 = 1
EndsWithDash(record) ==
  \E i \in DOMAIN record.lines :
    /\ read[record.lines[i]].dash
    /\ \A j \in i + 1 .. Len(record.lines) : read[record.lines[j]].blank

\* Variant: a wrapped TB_LOG is recognised by its dashes alone.
TbLogContinuesUnquoted(l) == EndsWithDash(current) \/ l.lead

TbLogContinues(l) == OddQuotes(current) \/ EndsWithDash(current) \/ l.lead

\* The branch of the code for FRAMEWORK_STATUS, CHECKPOINT, TIME_SLEEP and
\* CALL_DMF is never taken: such a record is never current.
Continues(l) ==
  \/ current.anchor = "TB_LOG" /\ TbLogContinues(l)
  \/ current.anchor = "SAS_SOURCE" /\ (l.anchor = "SAS_SOURCE_CONT" \/ l.echo)
  \/ current.anchor \in {"SAS_MESSAGE", "SAS_AUTOVAR"} /\ l.anchor = "none"

\* Variant: the open record is forgotten.
FlushedForgotten == stack

Flushed == IF current = Nothing THEN stack ELSE Append(stack, current)

Joined(record) == [record EXCEPT !.lines = Append(@, LineNumber)]

(***************************************************************************)
(* consume, by the returns it takes.                                       *)
(***************************************************************************)
ReadBlank(l) ==
  /\ l.blank
  /\ current' = IF pending \/ current = Nothing THEN current ELSE Joined(current)
  /\ UNCHANGED <<stack, pending>>

\* Variant: a date is joined to the last record, whatever it is.
JoinsDateAnywhere(l) == stack # <<>> /\ l.date

JoinsDate(l) == pending /\ l.date

JoinDate(l) ==
  /\ ~l.blank /\ JoinsDate(l)
  /\ stack' = [stack EXCEPT ![Len(stack)] = Joined(@)]
  /\ pending' = FALSE
  /\ UNCHANGED current

OpenPage(l) ==
  /\ l.anchor = "PAGE_HEADER"
  /\ stack' = Append(Flushed, [anchor |-> "PAGE_HEADER", lines |-> <<LineNumber>>])
  /\ current' = Nothing
  /\ pending' = TRUE

Continue(l) ==
  /\ ~l.blank /\ ~JoinsDate(l) /\ l.anchor # "PAGE_HEADER"
  /\ Continues(l)
  /\ current' = Joined(current)
  /\ pending' = FALSE
  /\ UNCHANGED stack

StartRecord(l) ==
  /\ ~l.blank /\ ~JoinsDate(l) /\ l.anchor # "PAGE_HEADER"
  /\ ~Continues(l)
  /\ pending' = FALSE
  /\ LET anchor == IF l.anchor = "none" THEN "RAW_UNKNOWN" ELSE l.anchor
         record == [anchor |-> anchor, lines |-> <<LineNumber>>]
     IN IF anchor \in OpenAnchors
          THEN stack' = Flushed /\ current' = record
          ELSE stack' = Append(Flushed, record) /\ current' = Nothing

Consume(l) ==
  /\ ~done /\ Len(read) < MaxLines
  /\ ReadBlank(l) \/ JoinDate(l) \/ OpenPage(l) \/ Continue(l) \/ StartRecord(l)
  /\ read' = Append(read, l)
  /\ UNCHANGED done

Finish ==
  /\ ~done
  /\ stack' = Flushed /\ current' = Nothing
  /\ done' = TRUE
  /\ UNCHANGED <<read, pending>>

AssemblyNext == (\E l \in Lines : Consume(l)) \/ Finish

AssemblySpec == AssemblyInit /\ [][AssemblyNext]_assemblyVars

(***************************************************************************)
(* Properties.                                                             *)
(***************************************************************************)
Drafts == IF current = Nothing THEN stack ELSE Append(stack, current)

\* Every line with text is in a record, and the records list their lines in
\* the order of the file.
TextIsListed ==
  \A n \in DOMAIN read :
    ~read[n].blank =>
      \E i \in DOMAIN Drafts :
        \E k \in DOMAIN Drafts[i].lines : Drafts[i].lines[k] = n

LinesInOrder ==
  \A i, j \in DOMAIN Drafts :
    \A k \in DOMAIN Drafts[i].lines, l \in DOMAIN Drafts[j].lines :
      i < j \/ (i = j /\ k < l) => Drafts[i].lines[k] < Drafts[j].lines[l]

(***************************************************************************)
(* legacy-log-parser.md, rule 6, "never silently dropped": every line with *)
(* text is in a record, and the records list their lines in the order of   *)
(* the file, none of them twice; at the end of the log none is left open.  *)
(***************************************************************************)
NothingDropped == TextIsListed /\ LinesInOrder /\ (done => current = Nothing)

\* A record lists at least one line, and only lines that were read.
LinesWereRead ==
  \A i \in DOMAIN Drafts :
    /\ Drafts[i].lines # <<>>
    /\ \A k \in DOMAIN Drafts[i].lines : Drafts[i].lines[k] \in DOMAIN read

\* While a date is awaited, the last record is a page header and what was
\* read after it is blank.
DateIsAwaited ==
  pending =>
    /\ current = Nothing
    /\ stack # <<>>
    /\ LET page == stack[Len(stack)] IN
         /\ page.anchor = "PAGE_HEADER"
         /\ Len(page.lines) = 1
         /\ \A n \in page.lines[1] + 1 .. Len(read) : read[n].blank

(***************************************************************************)
(* Rule 2: a TB_LOG record closes when its quotes balance and its last     *)
(* line does not end with "-"; only a page header or the end of the log    *)
(* cuts it short.                                                          *)
(***************************************************************************)
TbLogIsWhole ==
  \A i \in DOMAIN stack :
    /\ stack[i].anchor = "TB_LOG"
    /\ IF i = Len(stack) THEN ~done ELSE stack[i + 1].anchor # "PAGE_HEADER"
    => ~OddQuotes(stack[i]) /\ ~EndsWithDash(stack[i])

(***************************************************************************)
(* Rule 1: a page header and its date are "not part of any runtime event", *)
(* and a header has no line but itself and that date.                      *)
(***************************************************************************)
PagesAreIsolated ==
  \A i \in DOMAIN Drafts : LET record == Drafts[i] IN
    /\ \A k \in DOMAIN record.lines :
         read[record.lines[k]].anchor = "PAGE_HEADER" =>
           record.anchor = "PAGE_HEADER" /\ k = 1
    /\ record.anchor = "PAGE_HEADER" =>
         /\ Len(record.lines) <= 2
         /\ Len(record.lines) = 2 =>
              /\ read[record.lines[2]].date
              /\ \A n \in record.lines[1] + 1 .. record.lines[2] - 1 : read[n].blank

\* What holds after every line, for the records as they are so far.
AssemblyInv ==
  /\ AssemblyTypeOK /\ LinesWereRead /\ DateIsAwaited
  /\ TbLogIsWhole /\ PagesAreIsolated

(***************************************************************************)
(* A record on the stack is final but for the date its page header may     *)
(* still get: the ids the records are given by position stand.             *)
(***************************************************************************)
RecordsAreFinal ==
  [][/\ Len(stack') >= Len(stack)
     /\ \A i \in DOMAIN stack :
          stack'[i] # stack[i] => stack[i].anchor = "PAGE_HEADER" /\ i = Len(stack')]_assemblyVars

(***************************************************************************)
(* Statements of the document the code does not keep.                      *)
(***************************************************************************)
\* Rule 4: the "checkpoint three-lines attach as one block".
CheckpointIsOneBlock ==
  \A i \in 1..(Len(read) - 2) :
    (\A n \in i..(i + 2) : read[n].anchor = "CHECKPOINT") =>
      \E r \in DOMAIN stack :
        \A n \in i..(i + 2) : \E k \in DOMAIN stack[r].lines : stack[r].lines[k] = n

\* Rule 3: a "page header interrupts without forcing the previous message to
\* be stale": what continues the message after the page still belongs to it.
MessageSurvivesPage ==
  \A i \in 1..(Len(stack) - 2) :
    ~(/\ stack[i].anchor = "SAS_MESSAGE"
      /\ stack[i + 1].anchor = "PAGE_HEADER"
      /\ stack[i + 2].anchor = "RAW_UNKNOWN")

=============================================================================
