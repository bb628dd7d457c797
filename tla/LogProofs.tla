------------------------------ MODULE LogProofs ------------------------------
(***************************************************************************)
(* Machine-checked proofs about the log parser, for logs of any length and *)
(* lines of any kind: the assembler of legacy_logs/assembler.py loses no   *)
(* line, keeps the order of the file and isolates its pages; the stages,   *)
(* the loop runs and the outcome that legacy_logs/lifecycle.py and         *)
(* engine.py make of the records.                                          *)
(***************************************************************************)
EXTENDS LogAssembler, LogReport, FiniteSetTheorems, TLAPS

AnyRecord == [anchor: RecordAnchors, lines: Seq(Nat)]

LEMMA RecordTypes ==
  ASSUME AssemblyTypeOK
  PROVE  /\ stack \in Seq(AnyRecord)
         /\ current # Nothing => current \in AnyRecord /\ current.anchor \in OpenAnchors
         /\ Drafts \in Seq(AnyRecord)
         /\ LineNumber \in Nat \ {0}
<1>1. stack \in Seq(AnyRecord)
  BY DEF AssemblyTypeOK, AnyRecord
<1>2. current # Nothing => current \in AnyRecord /\ current.anchor \in OpenAnchors
  BY DEF AssemblyTypeOK, AnyRecord, RecordAnchors, OpenAnchors, Anchors
<1>3. Drafts \in Seq(AnyRecord)
  <2> HIDE DEF AnyRecord
  <2> QED BY <1>1, <1>2 DEF Drafts
<1>4. LineNumber \in Nat \ {0}
  BY DEF AssemblyTypeOK, LineNumber
<1> QED BY <1>1, <1>2, <1>3, <1>4

\* The same of the records after a step.
LEMMA RecordsStayTyped ==
  ASSUME AssemblyTypeOK'
  PROVE  Drafts' \in Seq(AnyRecord)
<1>1. stack' \in Seq(AnyRecord)
  BY DEF AssemblyTypeOK, AnyRecord
<1>2. current' # Nothing => current' \in AnyRecord
  BY DEF AssemblyTypeOK, AnyRecord, RecordAnchors, OpenAnchors, Anchors
<1> HIDE DEF AnyRecord
<1> QED BY <1>1, <1>2 DEF Drafts

LEMMA JoinedType ==
  ASSUME NEW r \in AnyRecord, LineNumber \in Nat
  PROVE  /\ Joined(r) \in AnyRecord
         /\ Joined(r).anchor = r.anchor
         /\ Joined(r).lines = Append(r.lines, LineNumber)
<1>1. r.lines \in Seq(Nat) /\ Append(r.lines, LineNumber) \in Seq(Nat)
  BY DEF AnyRecord
<1> HIDE DEF LineNumber
<1> QED BY <1>1 DEF Joined, AnyRecord

(***************************************************************************)
(* What a line does to the records: it is joined to the last, it starts    *)
(* one, or nothing changes because the line is blank or the log has ended. *)
(***************************************************************************)
JoinsLast ==
  /\ Len(Drafts) > 0 /\ Len(Drafts') = Len(Drafts)
  /\ \A i \in 1..Len(Drafts) :
       Drafts'[i] = IF i = Len(Drafts) THEN Joined(Drafts[i]) ELSE Drafts[i]

Starts(anchor) ==
  /\ Len(Drafts') = Len(Drafts) + 1
  /\ \A i \in 1..Len(Drafts) : Drafts'[i] = Drafts[i]
  /\ Drafts'[Len(Drafts) + 1] = [anchor |-> anchor, lines |-> <<LineNumber>>]

LEMMA FlushedIsRecords == Flushed = Drafts
  BY DEF Flushed, Drafts

\* What is appended to a sequence is its last element.
LEMMA LastOfAppend ==
  ASSUME NEW S, NEW s \in Seq(S), NEW e \in S
  PROVE  /\ Append(s, e) \in Seq(S)
         /\ Len(Append(s, e)) = Len(s) + 1
         /\ Append(s, e)[Len(s) + 1] = e
         /\ \A i \in 1..Len(s) : Append(s, e)[i] = s[i]
  OBVIOUS

LEMMA JoinsCurrent ==
  ASSUME AssemblyTypeOK, current # Nothing, UNCHANGED stack, current' = Joined(current)
  PROVE  JoinsLast /\ Drafts[Len(Drafts)] = current
<1>1. current \in AnyRecord /\ Joined(current) \in AnyRecord /\ stack \in Seq(AnyRecord)
  BY RecordTypes, JoinedType
<1>2. Joined(current) # Nothing
  <2>1. Joined(current).anchor \in OpenAnchors
    BY <1>1, RecordTypes, JoinedType
  <2> QED BY <2>1 DEF OpenAnchors, Nothing
<1>3. Drafts = Append(stack, current) /\ Drafts' = Append(stack, Joined(current))
  BY <1>2 DEF Drafts
<1> HIDE DEF AnyRecord
<1>4. Len(stack) \in Nat
  BY <1>1
<1> QED BY <1>1, <1>3, <1>4, LastOfAppend DEF JoinsLast

LEMMA StartsRecord ==
  ASSUME AssemblyTypeOK, NEW a \in RecordAnchors,
         LET record == [anchor |-> a, lines |-> <<LineNumber>>] IN
           \/ a \in OpenAnchors /\ stack' = Flushed /\ current' = record
           \/ stack' = Append(Flushed, record) /\ current' = Nothing
  PROVE  Starts(a)
<1> DEFINE record == [anchor |-> a, lines |-> <<LineNumber>>]
<1>1. record \in AnyRecord /\ Drafts \in Seq(AnyRecord)
  BY RecordTypes DEF AnyRecord
<1>2. a \in OpenAnchors => record # Nothing
  <2>1. record.anchor = a
    OBVIOUS
  <2> QED BY <2>1 DEF OpenAnchors, Nothing
<1>3. Drafts' = Append(Drafts, record)
  BY <1>2, FlushedIsRecords DEF Drafts
<1> HIDE DEF AnyRecord, record
<1>4. Starts(a) <=>
        /\ Len(Drafts') = Len(Drafts) + 1
        /\ \A i \in 1..Len(Drafts) : Drafts'[i] = Drafts[i]
        /\ Drafts'[Len(Drafts) + 1] = record
  BY DEF Starts, record
<1> QED BY <1>1, <1>3, <1>4, LastOfAppend

LEMMA JoinsPage ==
  ASSUME AssemblyTypeOK, DateIsAwaited, NEW l \in Lines, JoinDate(l)
  PROVE  JoinsLast /\ Drafts = stack /\ Drafts' = stack'
<1>1. current = Nothing /\ current' = Nothing /\ stack # <<>>
  BY DEF JoinDate, JoinsDate, DateIsAwaited
<1>2. Drafts = stack /\ Drafts' = stack' /\ stack \in Seq(AnyRecord)
  BY <1>1, RecordTypes DEF Drafts
<1>3. stack' = [stack EXCEPT ![Len(stack)] = Joined(@)]
  BY DEF JoinDate
<1> HIDE DEF AnyRecord
<1> QED BY <1>1, <1>2, <1>3 DEF JoinsLast

LEMMA RecordsStep ==
  ASSUME AssemblyTypeOK, DateIsAwaited, NEW l \in Lines, Consume(l)
  PROVE  \/ l.blank /\ UNCHANGED Drafts
         \/ /\ JoinsLast /\ l.anchor # "PAGE_HEADER"
            /\ Drafts[Len(Drafts)].anchor = "PAGE_HEADER" => JoinDate(l)
         \/ \E a \in RecordAnchors : Starts(a) /\ (a = "PAGE_HEADER" <=> l.anchor = "PAGE_HEADER")
<1>1. l.anchor \in Anchors /\ (l.blank \/ l.date => l.anchor # "PAGE_HEADER")
  BY LogAssumption DEF LineFacts
<1>a. ASSUME current # Nothing, UNCHANGED stack, current' = Joined(current)
      PROVE  JoinsLast /\ Drafts[Len(Drafts)].anchor # "PAGE_HEADER"
  <2>1. current.anchor # "PAGE_HEADER"
    BY <1>a, RecordTypes DEF OpenAnchors
  <2> QED BY <1>a, <2>1, JoinsCurrent
<1>2. CASE ReadBlank(l)
  <2>1. CASE pending \/ current = Nothing
    BY <1>2, <2>1 DEF ReadBlank, Drafts
  <2>2. CASE ~(pending \/ current = Nothing)
    BY <1>1, <1>2, <2>2, <1>a DEF ReadBlank
  <2> QED BY <2>1, <2>2
<1>3. CASE JoinDate(l)
  BY <1>1, <1>3, JoinsPage DEF JoinDate, JoinsDate
<1>4. CASE OpenPage(l)
  <2>1. "PAGE_HEADER" \in RecordAnchors
    BY DEF RecordAnchors, Anchors
  <2>2. Starts("PAGE_HEADER")
    BY <1>4, <2>1, StartsRecord DEF OpenPage
  <2> QED BY <1>4, <2>1, <2>2 DEF OpenPage
<1>5. CASE Continue(l)
  <2>1. current # Nothing
    BY <1>5 DEF Continue, Continues, Nothing
  <2> QED BY <1>5, <2>1, <1>a DEF Continue
<1>6. CASE StartRecord(l)
  <2> DEFINE a == IF l.anchor = "none" THEN "RAW_UNKNOWN" ELSE l.anchor
  <2>1. a \in RecordAnchors /\ a # "PAGE_HEADER" /\ l.anchor # "PAGE_HEADER"
    BY <1>1, <1>6 DEF StartRecord, RecordAnchors
  <2>2. LET record == [anchor |-> a, lines |-> <<LineNumber>>] IN
          IF a \in OpenAnchors
            THEN stack' = Flushed /\ current' = record
            ELSE stack' = Append(Flushed, record) /\ current' = Nothing
    BY <1>6 DEF StartRecord
  <2> HIDE DEF a
  <2>3. Starts(a)
    BY <2>1, <2>2, StartsRecord
  <2> QED BY <2>1, <2>3
<1> QED BY <1>2, <1>3, <1>4, <1>5, <1>6 DEF Consume

(***************************************************************************)
(* Types.                                                                  *)
(***************************************************************************)
LEMMA TypeInit == AssemblyInit => AssemblyInv /\ NothingDropped
<1> SUFFICES ASSUME AssemblyInit PROVE AssemblyInv /\ NothingDropped
  OBVIOUS
<1>1. Drafts = <<>> /\ stack = <<>> /\ read = <<>>
  BY DEF AssemblyInit, Drafts
<1>2. pending = FALSE /\ done = FALSE /\ current = Nothing
  BY DEF AssemblyInit
<1>3. AssemblyTypeOK
  <2>1. pending \in BOOLEAN /\ done \in BOOLEAN
    BY <1>2
  <2> QED BY <1>1, <1>2, <2>1 DEF AssemblyTypeOK
<1>4. LinesWereRead /\ DateIsAwaited /\ TbLogIsWhole /\ PagesAreIsolated
  BY <1>1, <1>2 DEF LinesWereRead, DateIsAwaited, TbLogIsWhole, PagesAreIsolated
<1>5. NothingDropped
  BY <1>1, <1>2 DEF NothingDropped, TextIsListed, LinesInOrder
<1> QED BY <1>3, <1>4, <1>5 DEF AssemblyInv

LEMMA TypeStep ==
  ASSUME AssemblyTypeOK, DateIsAwaited, [AssemblyNext]_assemblyVars
  PROVE  AssemblyTypeOK'
<1>a. ASSUME stack' \in Seq(AnyRecord),
             current' = Nothing \/ current' \in [anchor: OpenAnchors, lines: Seq(Nat)],
             read' \in Seq(Lines), pending' \in BOOLEAN, done' \in BOOLEAN
      PROVE  AssemblyTypeOK'
  BY <1>a DEF AssemblyTypeOK, AnyRecord
<1>b. Flushed \in Seq(AnyRecord)
  BY RecordTypes, FlushedIsRecords
<1>1. ASSUME NEW l \in Lines, Consume(l) PROVE AssemblyTypeOK'
  <2>1. read' \in Seq(Lines) /\ done' \in BOOLEAN
    BY <1>1 DEF Consume, AssemblyTypeOK
  <2>2. /\ stack' \in Seq(AnyRecord) /\ pending' \in BOOLEAN
        /\ current' = Nothing \/ current' \in [anchor: OpenAnchors, lines: Seq(Nat)]
    <3>1. ASSUME current # Nothing
          PROVE  Joined(current) \in [anchor: OpenAnchors, lines: Seq(Nat)]
      <4>1. Joined(current) \in AnyRecord /\ Joined(current).anchor \in OpenAnchors
        BY <3>1, RecordTypes, JoinedType
      <4> QED BY <4>1 DEF AnyRecord
    <3>2. CASE ReadBlank(l)
      BY <3>1, <3>2, RecordTypes DEF ReadBlank, AssemblyTypeOK
    <3>3. CASE JoinDate(l)
      <4>1. stack # <<>> /\ UNCHANGED current
        BY <3>3 DEF JoinDate, JoinsDate, DateIsAwaited
      <4>2. Joined(stack[Len(stack)]) \in AnyRecord
        BY <4>1, RecordTypes, JoinedType
      <4>3. stack' \in Seq(AnyRecord)
        BY <3>3, <4>1, <4>2, RecordTypes DEF JoinDate
      <4> QED BY <3>3, <4>1, <4>3 DEF JoinDate, AssemblyTypeOK
    <3>4. CASE OpenPage(l)
      <4>1. [anchor |-> "PAGE_HEADER", lines |-> <<LineNumber>>] \in AnyRecord
        BY RecordTypes DEF AnyRecord, RecordAnchors, Anchors
      <4> HIDE DEF AnyRecord
      <4> QED BY <1>b, <3>4, <4>1 DEF OpenPage
    <3>5. CASE Continue(l)
      <4>1. current # Nothing
        BY <3>5 DEF Continue, Continues, Nothing
      <4> QED BY <3>1, <3>5, <4>1, RecordTypes DEF Continue
    <3>6. CASE StartRecord(l)
      <4> DEFINE a == IF l.anchor = "none" THEN "RAW_UNKNOWN" ELSE l.anchor
                 record == [anchor |-> a, lines |-> <<LineNumber>>]
      <4>1. record \in AnyRecord /\ record.anchor = a /\ record.lines \in Seq(Nat)
        BY RecordTypes, LogAssumption DEF LineFacts, AnyRecord, RecordAnchors
      <4>2. a \in OpenAnchors => record \in [anchor: OpenAnchors, lines: Seq(Nat)]
        BY <4>1
      <4>3. pending' = FALSE
            /\ IF a \in OpenAnchors THEN stack' = Flushed /\ current' = record
               ELSE stack' = Append(Flushed, record) /\ current' = Nothing
        BY <3>6 DEF StartRecord
      <4>4. pending' \in BOOLEAN
        BY <4>3
      <4> HIDE DEF AnyRecord, a, record
      <4>5. CASE a \in OpenAnchors
        BY <1>b, <4>2, <4>3, <4>4, <4>5
      <4>6. CASE a \notin OpenAnchors
        BY <1>b, <4>1, <4>3, <4>4, <4>6
      <4> QED BY <4>5, <4>6
    <3> QED BY <1>1, <3>2, <3>3, <3>4, <3>5, <3>6 DEF Consume
  <2> QED BY <1>a, <2>1, <2>2
<1>2. CASE Finish
  BY <1>2, <1>a, <1>b DEF Finish, AssemblyTypeOK
<1>3. CASE UNCHANGED assemblyVars
  BY <1>3 DEF assemblyVars, AssemblyTypeOK
<1> QED BY <1>1, <1>2, <1>3 DEF AssemblyNext

(***************************************************************************)
(* No line is dropped and none is listed out of order.                     *)
(***************************************************************************)
\* The records after a line was joined or started a record.
LEMMA JoinedLines ==
  ASSUME AssemblyTypeOK, AssemblyTypeOK', JoinsLast, NEW i \in DOMAIN Drafts
  PROVE  /\ DOMAIN Drafts' = DOMAIN Drafts /\ Len(Drafts) \in DOMAIN Drafts
         /\ Drafts'[i].anchor = Drafts[i].anchor
         /\ Drafts[i].lines \in Seq(Nat)
         /\ i # Len(Drafts) => Drafts'[i].lines = Drafts[i].lines
         /\ i = Len(Drafts) => Drafts'[i].lines = Append(Drafts[i].lines, LineNumber)
<1>1. Drafts \in Seq(AnyRecord) /\ Drafts' \in Seq(AnyRecord)
  BY RecordTypes, RecordsStayTyped
<1>2. Drafts[i] \in AnyRecord
  BY <1>1
<1>3. /\ Joined(Drafts[i]).anchor = Drafts[i].anchor
      /\ Joined(Drafts[i]).lines = Append(Drafts[i].lines, LineNumber)
  BY <1>2, RecordTypes, JoinedType
<1>4. Drafts[i].lines \in Seq(Nat)
  BY <1>2 DEF AnyRecord
<1> HIDE DEF AnyRecord
<1>5. DOMAIN Drafts = 1..Len(Drafts) /\ DOMAIN Drafts' = 1..Len(Drafts') /\ Len(Drafts) \in Nat
  BY <1>1
<1>6. Drafts'[i] = IF i = Len(Drafts) THEN Joined(Drafts[i]) ELSE Drafts[i]
  BY <1>5 DEF JoinsLast
<1>7. DOMAIN Drafts' = DOMAIN Drafts /\ Len(Drafts) \in DOMAIN Drafts
  <2>1. Len(Drafts') = Len(Drafts) /\ Len(Drafts) > 0
    BY DEF JoinsLast
  <2>2. DOMAIN Drafts' = DOMAIN Drafts
    BY <1>5, <2>1, Zenon
  <2> QED BY <1>5, <2>1, <2>2
<1> QED BY <1>3, <1>4, <1>6, <1>7

LEMMA StartedLines ==
  ASSUME AssemblyTypeOK, AssemblyTypeOK', NEW a \in RecordAnchors, Starts(a)
  PROVE  LET last == Len(Drafts) + 1 IN
           /\ DOMAIN Drafts' = DOMAIN Drafts \cup {last} /\ last \notin DOMAIN Drafts
           /\ \A i \in DOMAIN Drafts : Drafts'[i] = Drafts[i] /\ i < last
           /\ Drafts'[last].anchor = a /\ Drafts'[last].lines = <<LineNumber>>
<1>1. Drafts \in Seq(AnyRecord) /\ Drafts' \in Seq(AnyRecord)
  BY RecordTypes, RecordsStayTyped
<1> HIDE DEF AnyRecord
<1>2. Len(Drafts) \in Nat /\ DOMAIN Drafts = 1..Len(Drafts) /\ DOMAIN Drafts' = 1..Len(Drafts')
  BY <1>1
<1>3. DOMAIN Drafts' = 1..(Len(Drafts) + 1)
  BY <1>2 DEF Starts
<1>4. Drafts'[Len(Drafts) + 1] = [anchor |-> a, lines |-> <<LineNumber>>]
  BY DEF Starts
<1>5. \A i \in DOMAIN Drafts : Drafts'[i] = Drafts[i]
  BY <1>2 DEF Starts
<1> QED BY <1>2, <1>3, <1>4, <1>5

\* A line after all those that were read keeps the order and is listed.
LEMMA LinesStep ==
  ASSUME AssemblyInv, NothingDropped, AssemblyTypeOK', NEW l \in Lines, Consume(l)
  PROVE  TextIsListed' /\ LinesInOrder' /\ LinesWereRead'
<1> USE DEF AssemblyInv
<1>1. read' = Append(read, l) /\ read \in Seq(Lines) /\ LineNumber = Len(read) + 1
  BY DEF Consume, AssemblyTypeOK, LineNumber
<1>2. /\ DOMAIN read = 1..Len(read) /\ Len(read) \in Nat
      /\ DOMAIN read' = DOMAIN read \cup {LineNumber}
      /\ LineNumber \notin DOMAIN read /\ read'[LineNumber] = l
      /\ \A n \in DOMAIN read : read'[n] = read[n]
  BY <1>1
<1>3. ASSUME NEW i \in DOMAIN Drafts, NEW k \in DOMAIN Drafts[i].lines
      PROVE  Drafts[i].lines[k] \in DOMAIN read
             /\ Drafts[i].lines[k] \in Nat /\ Drafts[i].lines[k] < LineNumber
  BY <1>1, <1>2 DEF LinesWereRead
<1>4. CASE l.blank /\ UNCHANGED Drafts
  <2>1. TextIsListed'
    BY <1>2, <1>4 DEF NothingDropped, TextIsListed
  <2> QED BY <1>2, <1>4, <2>1 DEF NothingDropped, LinesInOrder, LinesWereRead
<1>5. CASE JoinsLast
  <2>1. ASSUME NEW i \in DOMAIN Drafts
        PROVE  /\ DOMAIN Drafts[i].lines \subseteq DOMAIN Drafts'[i].lines
               /\ \A k \in DOMAIN Drafts[i].lines : Drafts'[i].lines[k] = Drafts[i].lines[k]
               /\ \A k \in DOMAIN Drafts'[i].lines \ DOMAIN Drafts[i].lines :
                    /\ i = Len(Drafts) /\ Drafts'[i].lines[k] = LineNumber
                    /\ \A m \in DOMAIN Drafts[i].lines : m < k
                    /\ k = Len(Drafts[i].lines) + 1
               /\ i = Len(Drafts) => Len(Drafts[i].lines) + 1 \in DOMAIN Drafts'[i].lines
                                      \ DOMAIN Drafts[i].lines
               /\ Drafts'[i].lines # <<>>
               /\ DOMAIN Drafts'[i].lines \subseteq Nat
    <3>1. Drafts[i].lines \in Seq(Nat) /\ Drafts[i].lines # <<>>
      BY <1>5, JoinedLines DEF LinesWereRead
    <3>2. CASE i # Len(Drafts)
      <4>1. Drafts'[i].lines = Drafts[i].lines
        BY <1>5, <3>2, JoinedLines
      <4> QED BY <3>1, <3>2, <4>1
    <3>3. CASE i = Len(Drafts)
      <4>1. Drafts'[i].lines = Append(Drafts[i].lines, LineNumber) /\ LineNumber \in Nat
        BY <1>5, <3>3, JoinedLines, RecordTypes
      <4> HIDE DEF LineNumber
      <4>2. /\ Drafts'[i].lines \in Seq(Nat)
            /\ Len(Drafts'[i].lines) = Len(Drafts[i].lines) + 1
            /\ Drafts'[i].lines[Len(Drafts[i].lines) + 1] = LineNumber
            /\ \A k \in 1..Len(Drafts[i].lines) : Drafts'[i].lines[k] = Drafts[i].lines[k]
        BY <3>1, <4>1, LastOfAppend
      <4>3. /\ DOMAIN Drafts[i].lines = 1..Len(Drafts[i].lines)
            /\ DOMAIN Drafts'[i].lines = 1..(Len(Drafts[i].lines) + 1)
            /\ Len(Drafts[i].lines) \in Nat
        BY <3>1, <4>2
      <4>4. Drafts'[i].lines # <<>>
        BY <4>3
      <4> DEFINE old == Drafts[i].lines
                 new == Drafts'[i].lines
      <4>5. /\ DOMAIN old = 1..Len(old) /\ DOMAIN new = 1..(Len(old) + 1) /\ Len(old) \in Nat
            /\ new[Len(old) + 1] = LineNumber
            /\ \A k \in 1..Len(old) : new[k] = old[k]
        BY <4>2, <4>3
      <4> HIDE DEF old, new, LineNumber
      <4>6. /\ DOMAIN old \subseteq DOMAIN new /\ DOMAIN new \subseteq Nat
            /\ \A k \in DOMAIN old : new[k] = old[k]
            /\ \A k \in DOMAIN new \ DOMAIN old :
                 k = Len(old) + 1 /\ new[k] = LineNumber /\ \A m \in DOMAIN old : m < k
            /\ Len(old) + 1 \in DOMAIN new \ DOMAIN old
        BY <4>5
      <4> QED BY <3>3, <4>4, <4>6 DEF old, new
    <3> QED BY <3>2, <3>3
  <2>2. DOMAIN Drafts' = DOMAIN Drafts /\ Len(Drafts) \in DOMAIN Drafts
        /\ DOMAIN Drafts = 1..Len(Drafts) /\ Len(Drafts) \in Nat
    BY <1>5, JoinedLines, RecordTypes DEF JoinsLast
  <2>3. TextIsListed'
    <3>1. \E k \in DOMAIN Drafts'[Len(Drafts)].lines : Drafts'[Len(Drafts)].lines[k] = LineNumber
      BY <2>1, <2>2
    <3>2. ASSUME NEW n \in DOMAIN read, ~read[n].blank
          PROVE  \E i \in DOMAIN Drafts' :
                   \E k \in DOMAIN Drafts'[i].lines : Drafts'[i].lines[k] = n
      BY <2>1, <2>2, <3>2 DEF NothingDropped, TextIsListed
    <3> QED BY <1>2, <2>2, <3>1, <3>2 DEF TextIsListed
  <2>4. LinesInOrder'
    <3> SUFFICES ASSUME NEW i \in DOMAIN Drafts, NEW j \in DOMAIN Drafts,
                        NEW k \in DOMAIN Drafts'[i].lines, NEW m \in DOMAIN Drafts'[j].lines,
                        i < j \/ (i = j /\ k < m)
                 PROVE  Drafts'[i].lines[k] < Drafts'[j].lines[m]
      BY <2>2 DEF LinesInOrder
    <3>1. k \in DOMAIN Drafts[i].lines
      <4>1. ASSUME k \notin DOMAIN Drafts[i].lines PROVE FALSE
        <5>1. i = Len(Drafts) /\ i = j /\ k < m
          BY <2>1, <2>2, <4>1
        <5>2. m \notin DOMAIN Drafts[i].lines
          BY <2>1, <4>1, <5>1 DEF LinesWereRead
        <5> QED BY <2>1, <4>1, <5>1, <5>2
      <4> QED BY <4>1
    <3>2. CASE m \in DOMAIN Drafts[j].lines
      BY <2>1, <3>1, <3>2 DEF NothingDropped, LinesInOrder
    <3>3. CASE m \notin DOMAIN Drafts[j].lines
      BY <1>3, <2>1, <3>1, <3>3
    <3> QED BY <3>2, <3>3
  <2>5. LinesWereRead'
    BY <1>2, <1>3, <2>1, <2>2 DEF LinesWereRead
  <2> QED BY <2>3, <2>4, <2>5
<1>6. ASSUME NEW a \in RecordAnchors, Starts(a)
      PROVE  TextIsListed' /\ LinesInOrder' /\ LinesWereRead'
  <2> DEFINE last == Len(Drafts) + 1
  <2>1. /\ DOMAIN Drafts' = DOMAIN Drafts \cup {last} /\ last \notin DOMAIN Drafts
        /\ \A i \in DOMAIN Drafts : Drafts'[i] = Drafts[i] /\ i < last
        /\ Drafts'[last].lines = <<LineNumber>>
    BY <1>6, StartedLines
  <2>2. last \in Nat /\ DOMAIN Drafts = 1..Len(Drafts)
    BY RecordTypes
  <2>3. DOMAIN Drafts'[last].lines = {1} /\ Drafts'[last].lines[1] = LineNumber
    BY <2>1
  <2> HIDE DEF last
  <2>4. TextIsListed'
    <3>1. ASSUME NEW n \in DOMAIN read, ~read[n].blank
          PROVE  \E i \in DOMAIN Drafts' :
                   \E k \in DOMAIN Drafts'[i].lines : Drafts'[i].lines[k] = n
      BY <2>1, <3>1 DEF NothingDropped, TextIsListed
    <3> QED BY <1>2, <2>1, <2>3, <3>1 DEF TextIsListed
  <2>5. LinesInOrder'
    BY <1>3, <2>1, <2>2, <2>3 DEF NothingDropped, LinesInOrder
  <2>6. LinesWereRead'
    BY <1>2, <1>3, <2>1, <2>3 DEF LinesWereRead
  <2> QED BY <2>4, <2>5, <2>6
<1> QED BY <1>4, <1>5, <1>6, RecordsStep

(***************************************************************************)
(* Pages.                                                                  *)
(***************************************************************************)
\* A record is isolated, and whole, as the lines of a log say.
IsolatedIn(record, log) ==
  /\ \A k \in DOMAIN record.lines :
       log[record.lines[k]].anchor = "PAGE_HEADER" => record.anchor = "PAGE_HEADER" /\ k = 1
  /\ record.anchor = "PAGE_HEADER" =>
       /\ Len(record.lines) <= 2
       /\ Len(record.lines) = 2 =>
            /\ log[record.lines[2]].date
            /\ \A n \in record.lines[1] + 1 .. record.lines[2] - 1 : log[n].blank

WholeIn(record, log) ==
  /\ ~(Cardinality({k \in DOMAIN record.lines : log[record.lines[k]].odd}) % 2 = 1)
  /\ ~\E k \in DOMAIN record.lines :
       /\ log[record.lines[k]].dash
       /\ \A j \in k + 1 .. Len(record.lines) : log[record.lines[j]].blank

LEMMA PagesByRecord ==
  /\ PagesAreIsolated <=> \A i \in DOMAIN Drafts : IsolatedIn(Drafts[i], read)
  /\ PagesAreIsolated' <=> \A i \in DOMAIN Drafts' : IsolatedIn(Drafts'[i], read')
  BY DEF PagesAreIsolated, IsolatedIn

\* A log that grows says nothing new of the lines it had.
LEMMA IsolatedStands ==
  ASSUME NEW log \in Seq(Lines), NEW l \in Lines, NEW record \in AnyRecord,
         \A k \in DOMAIN record.lines : record.lines[k] \in DOMAIN log,
         IsolatedIn(record, log)
  PROVE  IsolatedIn(record, Append(log, l))
<1> DEFINE longer == Append(log, l)
<1>1. DOMAIN log = 1..Len(log) /\ Len(log) \in Nat /\ \A n \in 1..Len(log) : longer[n] = log[n]
  OBVIOUS
<1>2. record.lines \in Seq(Nat)
  BY DEF AnyRecord
<1> HIDE DEF longer, AnyRecord
<1>3. \A k \in DOMAIN record.lines : longer[record.lines[k]] = log[record.lines[k]]
  BY <1>1
<1>4. ASSUME Len(record.lines) = 2, NEW n \in record.lines[1] + 1 .. record.lines[2] - 1
      PROVE  longer[n] = log[n]
  <2>1. 1 \in DOMAIN record.lines /\ 2 \in DOMAIN record.lines
    BY <1>2, <1>4
  <2>2. record.lines[1] \in 1..Len(log) /\ record.lines[2] \in 1..Len(log)
    BY <1>1, <2>1
  <2> QED BY <1>1, <1>4, <2>2
<1>5. Len(record.lines) = 2 => 2 \in DOMAIN record.lines
  BY <1>2
<1>6. IsolatedIn(record, longer)
  BY <1>3, <1>4, <1>5 DEF IsolatedIn
<1> QED BY <1>6 DEF longer

LEMMA WholeStands ==
  ASSUME NEW log \in Seq(Lines), NEW l \in Lines, NEW record \in AnyRecord,
         \A k \in DOMAIN record.lines : record.lines[k] \in DOMAIN log,
         WholeIn(record, log)
  PROVE  WholeIn(record, Append(log, l))
<1> DEFINE longer == Append(log, l)
           Odd(g) == {k \in DOMAIN record.lines : g[record.lines[k]].odd}
<1>1. \A n \in DOMAIN log : longer[n] = log[n]
  OBVIOUS
<1>2. record.lines \in Seq(Nat)
  BY DEF AnyRecord
<1> HIDE DEF longer, AnyRecord
<1>3. \A k \in DOMAIN record.lines : longer[record.lines[k]] = log[record.lines[k]]
  BY <1>1
<1>4. Odd(longer) = Odd(log)
  BY <1>3
<1>5. \A k \in DOMAIN record.lines : \A j \in k + 1 .. Len(record.lines) : j \in DOMAIN record.lines
  BY <1>2
<1>6. ~(Cardinality(Odd(log)) % 2 = 1)
  BY DEF WholeIn
<1> HIDE DEF Odd
<1>7. ~(Cardinality(Odd(longer)) % 2 = 1)
  BY <1>4, <1>6
<1>8. WholeIn(record, longer)
  BY <1>3, <1>5, <1>7 DEF WholeIn, Odd
<1> QED BY <1>8 DEF longer

LEMMA PairOfAppend ==
  ASSUME NEW S, NEW s \in Seq(S), NEW e \in S, Len(s) = 1
  PROVE  /\ DOMAIN Append(s, e) = 1..2 /\ Len(Append(s, e)) = 2
         /\ Append(s, e)[1] = s[1] /\ Append(s, e)[2] = e
<1> DEFINE t == Append(s, e)
<1>1. /\ t \in Seq(S) /\ Len(t) = Len(s) + 1
      /\ t[Len(s) + 1] = e /\ \A i \in 1..Len(s) : t[i] = s[i]
  <2>1. t \in Seq(S)
    BY LastOfAppend
  <2>2. Len(t) = Len(s) + 1
    BY LastOfAppend
  <2>3. t[Len(s) + 1] = e
    BY LastOfAppend
  <2>4. \A i \in 1..Len(s) : t[i] = s[i]
    BY LastOfAppend
  <2> QED BY <2>1, <2>2, <2>3, <2>4
<1> HIDE DEF t
<1>2. DOMAIN t = 1..Len(t)
  BY <1>1
<1>3. Len(t) = 2 /\ t[1] = s[1] /\ t[2] = e
  BY <1>1
<1>4. DOMAIN t = 1..2 /\ Len(t) = 2 /\ t[1] = s[1] /\ t[2] = e
  BY <1>2, <1>3
<1> QED BY <1>4 DEF t

LEMMA PagesStep ==
  ASSUME AssemblyInv, AssemblyTypeOK', NEW l \in Lines, Consume(l)
  PROVE  PagesAreIsolated'
<1> USE DEF AssemblyInv
<1>1. read' = Append(read, l) /\ read \in Seq(Lines) /\ LineNumber = Len(read) + 1
  BY DEF Consume, AssemblyTypeOK, LineNumber
<1>2. ASSUME NEW i \in DOMAIN Drafts
      PROVE  IsolatedIn(Drafts[i], read) /\ IsolatedIn(Drafts[i], read')
  <2>1. Drafts[i] \in AnyRecord /\ \A k \in DOMAIN Drafts[i].lines : Drafts[i].lines[k] \in DOMAIN read
    BY RecordTypes DEF LinesWereRead
  <2>2. IsolatedIn(Drafts[i], read)
    BY PagesByRecord
  <2> QED BY <1>1, <2>1, <2>2, IsolatedStands
<1>3. CASE UNCHANGED Drafts
  BY <1>2, <1>3, PagesByRecord
<1>4. CASE /\ JoinsLast /\ l.anchor # "PAGE_HEADER"
           /\ Drafts[Len(Drafts)].anchor = "PAGE_HEADER" => JoinDate(l)
  <2> SUFFICES ASSUME NEW i \in DOMAIN Drafts PROVE IsolatedIn(Drafts'[i], read')
    BY <1>4, JoinedLines, PagesByRecord, RecordTypes DEF JoinsLast
  <2>1. CASE i # Len(Drafts)
    <3>1. Drafts'[i] = Drafts[i]
      BY <1>4, <2>1, RecordTypes DEF JoinsLast
    <3> QED BY <1>2, <3>1
  <2>2. CASE i = Len(Drafts)
    <3> DEFINE old == Drafts[i].lines
               new == Drafts'[i].lines
    <3>1. /\ Drafts'[i].anchor = Drafts[i].anchor
          /\ old \in Seq(Nat) /\ new = Append(old, LineNumber) /\ LineNumber \in Nat
      BY <1>4, <2>2, JoinedLines, RecordTypes
    <3>2. read'[LineNumber] = l
      BY <1>1
    <3>3. CASE Drafts[i].anchor # "PAGE_HEADER"
      <4>1. \A k \in DOMAIN old : read'[old[k]].anchor # "PAGE_HEADER"
        BY <1>2, <3>3 DEF IsolatedIn
      <4> HIDE DEF old, LineNumber
      <4>2. \A k \in DOMAIN new : read'[new[k]].anchor # "PAGE_HEADER"
        BY <1>4, <3>1, <3>2, <4>1
      <4> QED BY <3>1, <3>3, <4>2 DEF IsolatedIn, old
    <3>4. CASE Drafts[i].anchor = "PAGE_HEADER"
      <4>1. JoinDate(l)
        BY <1>4, <2>2, <3>4
      <4>2. Drafts[i] = stack[Len(stack)] /\ pending /\ l.date
        BY <2>2, <4>1, JoinsPage DEF JoinDate, JoinsDate
      <4>3. Len(old) = 1 /\ \A n \in old[1] + 1 .. Len(read) : read[n].blank
        BY <4>2 DEF DateIsAwaited
      <4>4. old[1] \in 1..Len(read)
        BY <3>1, <4>3 DEF LinesWereRead
      <4>5. \A n \in old[1] + 1 .. LineNumber - 1 : read'[n].blank
        BY <1>1, <4>3, <4>4
      <4> HIDE DEF LineNumber, old
      <4>6. DOMAIN new = 1..2 /\ Len(new) = 2 /\ new[1] = old[1] /\ new[2] = LineNumber
        <5>1. /\ DOMAIN Append(old, LineNumber) = 1..2 /\ Len(Append(old, LineNumber)) = 2
              /\ Append(old, LineNumber)[1] = old[1] /\ Append(old, LineNumber)[2] = LineNumber
          BY <3>1, <4>3, PairOfAppend
        <5> QED BY <3>1, <5>1, Zenon
      <4>7. \A k \in DOMAIN new : read'[new[k]].anchor = "PAGE_HEADER" => k = 1
        BY <1>4, <3>2, <4>6
      <4> HIDE DEF new
      <4> QED BY <3>1, <3>2, <3>4, <4>2, <4>5, <4>6, <4>7 DEF IsolatedIn, new
    <3> QED BY <3>3, <3>4
  <2> QED BY <2>1, <2>2
<1>5. ASSUME NEW a \in RecordAnchors, Starts(a),
             a = "PAGE_HEADER" <=> l.anchor = "PAGE_HEADER"
      PROVE  PagesAreIsolated'
  <2> DEFINE last == Len(Drafts) + 1
  <2>1. /\ DOMAIN Drafts' = DOMAIN Drafts \cup {last}
        /\ \A i \in DOMAIN Drafts : Drafts'[i] = Drafts[i]
        /\ Drafts'[last].anchor = a /\ Drafts'[last].lines = <<LineNumber>>
    BY <1>5, StartedLines
  <2>2. read'[LineNumber] = l
    BY <1>1
  <2> HIDE DEF last
  <2>3. IsolatedIn(Drafts'[last], read')
    BY <1>5, <2>1, <2>2 DEF IsolatedIn
  <2> QED BY <1>2, <2>1, <2>3, PagesByRecord
<1> QED BY <1>3, <1>4, <1>5, RecordsStep

LEMMA DateStep ==
  ASSUME AssemblyInv, AssemblyTypeOK', AssemblyNext
  PROVE  DateIsAwaited'
<1> USE DEF AssemblyInv
<1>1. ASSUME NEW l \in Lines, Consume(l) PROVE DateIsAwaited'
  <2>1. read' = Append(read, l) /\ read \in Seq(Lines) /\ LineNumber = Len(read) + 1
    BY <1>1 DEF Consume, AssemblyTypeOK, LineNumber
  <2>2. CASE ReadBlank(l) /\ pending
    <3>1. /\ current = Nothing /\ stack # <<>> /\ UNCHANGED <<stack, pending, current>>
          /\ stack[Len(stack)].anchor = "PAGE_HEADER" /\ Len(stack[Len(stack)].lines) = 1
          /\ \A n \in stack[Len(stack)].lines[1] + 1 .. Len(read) : read[n].blank
      BY <2>2 DEF ReadBlank, DateIsAwaited
    <3>2. stack[Len(stack)].lines[1] \in 1..Len(read)
      <4>1. Drafts = stack /\ Len(stack) \in DOMAIN stack /\ stack[Len(stack)] \in AnyRecord
        BY <3>1, RecordTypes DEF Drafts
      <4>2. stack[Len(stack)].lines \in Seq(Nat)
        BY <4>1 DEF AnyRecord
      <4>3. 1 \in DOMAIN stack[Len(stack)].lines
        BY <3>1, <4>2
      <4> QED BY <4>1, <4>3 DEF LinesWereRead, AssemblyTypeOK
    <3>3. \A n \in stack[Len(stack)].lines[1] + 1 .. Len(read') : read'[n].blank
      BY <2>1, <2>2, <3>1, <3>2 DEF ReadBlank
    <3> QED BY <3>1, <3>3 DEF DateIsAwaited
  <2>3. CASE OpenPage(l)
    <3> DEFINE page == [anchor |-> "PAGE_HEADER", lines |-> <<LineNumber>>]
    <3>1. stack' = Append(Flushed, page) /\ current' = Nothing
      BY <2>3 DEF OpenPage
    <3>2. Flushed \in Seq(AnyRecord) /\ page \in AnyRecord
      BY FlushedIsRecords, RecordTypes DEF AnyRecord, RecordAnchors, Anchors
    <3>3. page.anchor = "PAGE_HEADER" /\ Len(page.lines) = 1 /\ page.lines[1] = LineNumber
      OBVIOUS
    <3> HIDE DEF AnyRecord, page
    <3>4. stack' # <<>> /\ stack'[Len(stack')] = page
      BY <3>1, <3>2
    <3>5. \A n \in LineNumber + 1 .. Len(read') : read'[n].blank
      BY <2>1
    <3> QED BY <3>1, <3>3, <3>4, <3>5 DEF DateIsAwaited
  <2>4. CASE ~pending'
    BY <2>4 DEF DateIsAwaited
  <2> QED
    BY <1>1, <2>2, <2>3, <2>4 DEF Consume, ReadBlank, JoinDate, Continue, StartRecord
<1>2. CASE Finish
  BY <1>2 DEF Finish, Flushed, DateIsAwaited
<1> QED BY <1>1, <1>2 DEF AssemblyNext

(***************************************************************************)
(* Wrapped TB_LOG records.                                                 *)
(***************************************************************************)
LEMMA TbLogByRecord ==
  /\ TbLogIsWhole <=>
       \A i \in DOMAIN stack :
         /\ stack[i].anchor = "TB_LOG"
         /\ IF i = Len(stack) THEN ~done ELSE stack[i + 1].anchor # "PAGE_HEADER"
         => WholeIn(stack[i], read)
  /\ TbLogIsWhole' <=>
       \A i \in DOMAIN stack' :
         /\ stack'[i].anchor = "TB_LOG"
         /\ IF i = Len(stack') THEN ~done' ELSE stack'[i + 1].anchor # "PAGE_HEADER"
         => WholeIn(stack'[i], read')
  BY DEF TbLogIsWhole, WholeIn, OddQuotes, EndsWithDash

LEMMA FlushedElements ==
  ASSUME AssemblyTypeOK
  PROVE  /\ stack \in Seq(AnyRecord) /\ Flushed \in Seq(AnyRecord)
         /\ \A i \in 1..Len(stack) : Flushed[i] = stack[i]
         /\ current = Nothing => Len(Flushed) = Len(stack)
         /\ current # Nothing =>
              Len(Flushed) = Len(stack) + 1 /\ Flushed[Len(stack) + 1] = current
<1>1. stack \in Seq(AnyRecord) /\ (current # Nothing => current \in AnyRecord)
  BY RecordTypes
<1> HIDE DEF AnyRecord
<1>2. CASE current = Nothing
  BY <1>1, <1>2 DEF Flushed
<1>3. CASE current # Nothing
  BY <1>1, <1>3, LastOfAppend DEF Flushed
<1> QED BY <1>2, <1>3

\* A whole record stays whole while the log grows.
LEMMA WholeStays ==
  ASSUME AssemblyInv, read' = read \/ \E l \in Lines : read' = Append(read, l)
  PROVE  /\ \A i \in DOMAIN stack : WholeIn(stack[i], read) => WholeIn(stack[i], read')
         /\ current # Nothing => (WholeIn(current, read) => WholeIn(current, read'))
<1> USE DEF AssemblyInv
<1>1. ASSUME NEW i \in DOMAIN Drafts, WholeIn(Drafts[i], read)
      PROVE  WholeIn(Drafts[i], read')
  <2>1. /\ Drafts[i] \in AnyRecord /\ read \in Seq(Lines)
        /\ \A k \in DOMAIN Drafts[i].lines : Drafts[i].lines[k] \in DOMAIN read
    BY RecordTypes DEF LinesWereRead, AssemblyTypeOK
  <2> QED BY <1>1, <2>1, WholeStands
<1>2. /\ \A i \in DOMAIN stack : i \in DOMAIN Drafts /\ Drafts[i] = stack[i]
      /\ current # Nothing => /\ Len(stack) + 1 \in DOMAIN Drafts
                              /\ Drafts[Len(stack) + 1] = current
  <2>1. Drafts \in Seq(AnyRecord) /\ stack \in Seq(AnyRecord)
    BY RecordTypes
  <2> HIDE DEF AnyRecord
  <2>2. DOMAIN Drafts = 1..Len(Drafts) /\ DOMAIN stack = 1..Len(stack) /\ Len(stack) \in Nat
    BY <2>1
  <2>3. /\ \A i \in 1..Len(stack) : Drafts[i] = stack[i]
        /\ current = Nothing => Len(Drafts) = Len(stack)
        /\ current # Nothing =>
             Len(Drafts) = Len(stack) + 1 /\ Drafts[Len(stack) + 1] = current
    BY FlushedElements, FlushedIsRecords, Zenon
  <2>4. Len(Drafts) = Len(stack) \/ Len(Drafts) = Len(stack) + 1
    BY <2>3
  <2>5. Len(Drafts) \in Nat /\ Len(stack) \in Nat
    BY <2>1
  <2>6. /\ \A i \in 1..Len(stack) : i \in 1..Len(Drafts)
        /\ current # Nothing => Len(stack) + 1 \in 1..Len(Drafts)
    BY <2>3, <2>4, <2>5
  <2> QED BY <2>2, <2>3, <2>6, Zenon
<1> QED BY <1>1, <1>2

\* The stack after the open record, if any, and a new one were pushed.
LEMMA PushedElements ==
  ASSUME AssemblyTypeOK, NEW record \in AnyRecord,
         stack' = Flushed \/ stack' = Append(Flushed, record)
  PROVE  /\ \A i \in 1..Len(stack) : stack'[i] = stack[i]
         /\ Len(stack') \in Nat
         /\ stack' = Flushed => Len(stack') = Len(Flushed)
         /\ stack' # Flushed => Len(stack') = Len(Flushed) + 1 /\ stack'[Len(Flushed) + 1] = record
         /\ current = Nothing => Len(Flushed) = Len(stack)
         /\ current # Nothing =>
              Len(Flushed) = Len(stack) + 1 /\ stack'[Len(stack) + 1] = current
<1>1. stack \in Seq(AnyRecord) /\ Flushed \in Seq(AnyRecord)
  BY FlushedElements
<1> HIDE DEF AnyRecord
<1>2. Len(stack) \in Nat /\ Len(Flushed) \in Nat
  BY <1>1
<1>3. CASE stack' = Flushed
  BY <1>2, <1>3, FlushedElements
<1>4. CASE stack' = Append(Flushed, record)
  <2>1. /\ Len(stack') = Len(Flushed) + 1 /\ stack'[Len(Flushed) + 1] = record
        /\ \A i \in 1..Len(Flushed) : stack'[i] = Flushed[i]
    BY <1>1, <1>4, LastOfAppend
  <2>2. \A i \in 1..Len(stack) : stack'[i] = stack[i]
    BY <1>2, <2>1, FlushedElements
  <2>3. current # Nothing => stack'[Len(stack) + 1] = current
    BY <1>2, <2>1, FlushedElements
  <2> QED BY <1>2, <2>1, <2>2, <2>3, FlushedElements
<1> QED BY <1>3, <1>4

\* A date changes the last record only, and that is a page header.
LEMMA PageJoined ==
  ASSUME AssemblyTypeOK, AssemblyTypeOK', DateIsAwaited, NEW l \in Lines, JoinDate(l)
  PROVE  /\ Len(stack') = Len(stack) /\ Len(stack) \in DOMAIN stack
         /\ \A i \in DOMAIN stack : stack'[i].anchor = stack[i].anchor
         /\ \A i \in DOMAIN stack : i # Len(stack) => stack'[i] = stack[i]
         /\ stack[Len(stack)].anchor = "PAGE_HEADER"
<1>0. DOMAIN stack = 1..Len(stack) /\ Len(stack) \in Nat
  <2>1. stack \in Seq(AnyRecord)
    BY RecordTypes
  <2> HIDE DEF AnyRecord
  <2> QED BY <2>1
<1>1. JoinsLast /\ Drafts = stack /\ Drafts' = stack'
  BY JoinsPage
<1>2. pending
  BY DEF JoinDate, JoinsDate
<1>3. Len(stack') = Len(stack) /\ Len(stack) \in DOMAIN stack
  <2>1. Len(Drafts') = Len(Drafts) /\ Len(Drafts) > 0
    BY <1>1 DEF JoinsLast
  <2>2. Len(stack') = Len(stack) /\ Len(stack) > 0
    BY <1>1, <2>1, Zenon
  <2> QED BY <1>0, <2>2
<1>4. \A i \in DOMAIN stack : stack'[i].anchor = stack[i].anchor
  BY <1>1, JoinedLines
<1>5. \A i \in DOMAIN stack : i # Len(stack) => stack'[i] = stack[i]
  BY <1>0, <1>1 DEF JoinsLast
<1>6. stack[Len(stack)].anchor = "PAGE_HEADER"
  BY <1>2 DEF DateIsAwaited
<1> QED BY <1>3, <1>4, <1>5, <1>6

LEMMA TbLogStep ==
  ASSUME AssemblyInv, AssemblyTypeOK', AssemblyNext
  PROVE  TbLogIsWhole'
<1> USE DEF AssemblyInv
<1>1. /\ stack \in Seq(AnyRecord) /\ stack' \in Seq(AnyRecord)
      /\ DOMAIN stack = 1..Len(stack) /\ DOMAIN stack' = 1..Len(stack')
      /\ Len(stack) \in Nat /\ Len(stack') \in Nat
  <2>1. stack \in Seq(AnyRecord) /\ stack' \in Seq(AnyRecord)
    BY RecordTypes DEF AssemblyTypeOK, AnyRecord
  <2> HIDE DEF AnyRecord
  <2> QED BY <2>1
<1>2. ~done
  BY DEF AssemblyNext, Consume, Finish
\* What is cut short by nothing was whole, and so it still is.
<1>3. ASSUME read' = read \/ \E l \in Lines : read' = Append(read, l),
             NEW i \in DOMAIN stack, i \in DOMAIN stack', stack'[i] = stack[i],
             i + 1 \in DOMAIN stack => i # Len(stack') /\ stack'[i + 1].anchor = stack[i + 1].anchor,
             stack'[i].anchor = "TB_LOG",
             IF i = Len(stack') THEN ~done' ELSE stack'[i + 1].anchor # "PAGE_HEADER"
      PROVE  WholeIn(stack'[i], read')
  <2>1. i # Len(stack) => i + 1 \in DOMAIN stack
    BY <1>1
  <2>2. IF i = Len(stack) THEN ~done ELSE stack[i + 1].anchor # "PAGE_HEADER"
    BY <1>2, <1>3, <2>1
  <2>3. WholeIn(stack[i], read)
    BY <1>3, <2>2, TbLogByRecord
  <2> QED BY <1>3, <2>3, WholeStays
<1>4. ASSUME NEW l \in Lines, Consume(l) PROVE TbLogIsWhole'
  <2>1. read' = Append(read, l) /\ ~done'
    BY <1>2, <1>4 DEF Consume
  <2>2. CASE UNCHANGED stack
    <3>1. ASSUME NEW i \in DOMAIN stack,
                 stack'[i].anchor = "TB_LOG",
                 IF i = Len(stack') THEN ~done' ELSE stack'[i + 1].anchor # "PAGE_HEADER"
          PROVE  WholeIn(stack'[i], read')
      BY <1>1, <1>3, <2>1, <2>2, <3>1
    <3> QED BY <2>2, <3>1, TbLogByRecord
  <2>3. CASE JoinDate(l)
    <3>1. /\ Len(stack') = Len(stack) /\ Len(stack) \in DOMAIN stack
          /\ \A i \in DOMAIN stack : stack'[i].anchor = stack[i].anchor
          /\ \A i \in DOMAIN stack : i # Len(stack) => stack'[i] = stack[i]
          /\ stack[Len(stack)].anchor = "PAGE_HEADER"
      BY <2>3, PageJoined
    <3>2. ASSUME NEW i \in DOMAIN stack',
                 stack'[i].anchor = "TB_LOG",
                 IF i = Len(stack') THEN ~done' ELSE stack'[i + 1].anchor # "PAGE_HEADER"
          PROVE  WholeIn(stack'[i], read')
      <4>1. i \in DOMAIN stack /\ i # Len(stack) /\ stack'[i] = stack[i]
        BY <1>1, <3>1, <3>2
      <4>2. i + 1 \in DOMAIN stack => i # Len(stack') /\ stack'[i + 1].anchor = stack[i + 1].anchor
        BY <3>1, <4>1
      <4> QED BY <1>3, <2>1, <3>2, <4>1, <4>2
    <3> QED BY <3>2, TbLogByRecord
  <2>4. ASSUME NEW record \in AnyRecord, record.anchor # "TB_LOG",
               stack' = Flushed \/ stack' = Append(Flushed, record),
               \/ stack' # Flushed /\ record.anchor = "PAGE_HEADER"
               \/ current # Nothing /\ current.anchor = "TB_LOG" => WholeIn(current, read)
        PROVE  TbLogIsWhole'
    <3> DEFINE n == Len(Flushed)
    <3>1. /\ \A i \in 1..Len(stack) : stack'[i] = stack[i]
          /\ stack' = Flushed => Len(stack') = n
          /\ stack' # Flushed => Len(stack') = n + 1 /\ stack'[n + 1] = record
          /\ current = Nothing => n = Len(stack)
          /\ current # Nothing => n = Len(stack) + 1 /\ stack'[Len(stack) + 1] = current
      BY <2>4, PushedElements
    <3> HIDE DEF n
    <3>2. CASE stack' = Flushed /\ current = Nothing
      <4>1. Len(stack') = Len(stack)
        BY <3>1, <3>2
      <4> QED BY <1>1, <1>3, <2>1, <2>2, <3>1, <4>1, TbLogByRecord
    <3>3. ASSUME current # Nothing \/ stack' # Flushed
          PROVE  /\ Len(stack) + 1 \in DOMAIN stack'
                 /\ \A i \in DOMAIN stack' :
                      \/ i \in DOMAIN stack
                      \/ /\ current # Nothing /\ stack'[i] = current
                         /\ stack' # Flushed => i # Len(stack') /\ stack'[i + 1] = record
                      \/ stack'[i] = record
      <4>1. CASE stack' = Flushed
        <5>1. Len(stack') = Len(stack) + 1 /\ stack'[Len(stack) + 1] = current /\ current # Nothing
          BY <3>1, <3>3, <4>1
        <5>2. \A i \in 1..Len(stack') : i \in 1..Len(stack) \/ i = Len(stack) + 1
          BY <1>1, <5>1
        <5>3. Len(stack) + 1 \in 1..Len(stack')
          BY <1>1, <5>1
        <5> QED BY <1>1, <4>1, <5>1, <5>2, <5>3, Zenon
      <4>2. CASE stack' # Flushed /\ current = Nothing
        <5>1. Len(stack') = Len(stack) + 1 /\ stack'[Len(stack) + 1] = record
          BY <3>1, <4>2
        <5>2. \A i \in 1..Len(stack') : i \in 1..Len(stack) \/ i = Len(stack) + 1
          BY <1>1, <5>1
        <5>3. Len(stack) + 1 \in 1..Len(stack')
          BY <1>1, <5>1
        <5> QED BY <1>1, <5>1, <5>2, <5>3, Zenon
      <4>3. CASE stack' # Flushed /\ current # Nothing
        <5>1. /\ Len(stack') = n + 1 /\ stack'[n + 1] = record
              /\ n = Len(stack) + 1 /\ stack'[n] = current
          BY <3>1, <4>3
        <5>2. \A i \in 1..Len(stack') : i \in 1..Len(stack) \/ i = n \/ i = n + 1
          BY <1>1, <5>1
        <5>3. n \in 1..Len(stack') /\ n # Len(stack')
          BY <1>1, <5>1
        <5> QED BY <1>1, <4>3, <5>1, <5>2, <5>3, Zenon
      <4> QED BY <3>3, <4>1, <4>2, <4>3
    <3>4. ASSUME current # Nothing \/ stack' # Flushed,
                 NEW i \in DOMAIN stack',
                 stack'[i].anchor = "TB_LOG",
                 IF i = Len(stack') THEN ~done' ELSE stack'[i + 1].anchor # "PAGE_HEADER"
          PROVE  WholeIn(stack'[i], read')
      <4>1. CASE i \in DOMAIN stack
        <5>1. stack'[i] = stack[i]
          BY <1>1, <3>1, <4>1
        <5>2. i + 1 \in DOMAIN stack => i # Len(stack') /\ stack'[i + 1].anchor = stack[i + 1].anchor
          BY <1>1, <3>1, <3>3, <3>4, <4>1
        <5> QED BY <1>3, <2>1, <3>4, <4>1, <5>1, <5>2
      <4>2. CASE i \notin DOMAIN stack
        <5>1. /\ current # Nothing /\ stack'[i] = current
              /\ stack' # Flushed => i # Len(stack') /\ stack'[i + 1] = record
          BY <2>4, <3>3, <3>4, <4>2
        <5>2. WholeIn(current, read)
          BY <2>4, <3>4, <5>1
        <5> QED BY <2>1, <5>1, <5>2, WholeStays
      <4> QED BY <4>1, <4>2
    <3> QED BY <3>2, <3>4, TbLogByRecord
  <2>5. CASE OpenPage(l)
    <3> DEFINE page == [anchor |-> "PAGE_HEADER", lines |-> <<LineNumber>>]
    <3>1. page \in AnyRecord /\ page.anchor = "PAGE_HEADER"
      BY RecordTypes DEF AnyRecord, RecordAnchors, Anchors
    <3>2. stack' = Append(Flushed, page) /\ current' = Nothing
      BY <2>5 DEF OpenPage
    <3>3. stack' # Flushed
      <4> HIDE DEF page, AnyRecord
      <4>1. Flushed \in Seq(AnyRecord)
        BY FlushedElements
      <4>2. Len(stack') = Len(Flushed) + 1 /\ Len(Flushed) \in Nat
        BY <3>1, <3>2, <4>1
      <4> QED BY <4>2
    <3> HIDE DEF page
    <3> QED BY <2>4, <3>1, <3>2, <3>3
  <2>6. CASE StartRecord(l)
    <3> DEFINE a == IF l.anchor = "none" THEN "RAW_UNKNOWN" ELSE l.anchor
               record == [anchor |-> a, lines |-> <<LineNumber>>]
               other == [anchor |-> "RAW_UNKNOWN", lines |-> <<LineNumber>>]
    <3>1. /\ record \in AnyRecord /\ record.anchor = a
          /\ other \in AnyRecord /\ other.anchor = "RAW_UNKNOWN"
      BY RecordTypes, LogAssumption DEF LineFacts, AnyRecord, RecordAnchors
    <3>2. current # Nothing /\ current.anchor = "TB_LOG" => WholeIn(current, read)
      BY <2>6 DEF StartRecord, Continues, TbLogContinues, OddQuotes, EndsWithDash, WholeIn
    <3>3. IF a \in OpenAnchors THEN stack' = Flushed ELSE stack' = Append(Flushed, record)
      BY <2>6 DEF StartRecord
    <3> HIDE DEF a, record, other
    <3>4. CASE a \in OpenAnchors
      BY <2>4, <3>1, <3>2, <3>3, <3>4
    <3>5. CASE a \notin OpenAnchors
      BY <2>4, <3>1, <3>2, <3>3, <3>5 DEF OpenAnchors
    <3> QED BY <3>4, <3>5
  <2> QED BY <1>4, <2>2, <2>3, <2>5, <2>6 DEF Consume, ReadBlank, Continue
<1>5. CASE Finish
  <2>1. stack' = Flushed /\ read' = read /\ done'
    BY <1>5 DEF Finish
  <2>2. /\ \A i \in 1..Len(stack) : stack'[i] = stack[i]
        /\ Len(stack') = Len(stack) \/ Len(stack') = Len(stack) + 1
    <3>1. Len(Flushed) = Len(stack) \/ Len(Flushed) = Len(stack) + 1
      BY FlushedElements
    <3> QED BY <2>1, <3>1, FlushedElements, Zenon
  <2>3. ASSUME NEW i \in DOMAIN stack',
               stack'[i].anchor = "TB_LOG",
               IF i = Len(stack') THEN ~done' ELSE stack'[i + 1].anchor # "PAGE_HEADER"
        PROVE  WholeIn(stack'[i], read')
    <3>1. i # Len(stack') /\ i \in 1..Len(stack')
      BY <1>1, <2>1, <2>3
    <3>2. i \in 1..Len(stack)
      <4> DEFINE m == Len(stack)
                 n == Len(stack')
      <4>1. m \in Nat /\ n \in Nat /\ (n = m \/ n = m + 1) /\ i \in 1..n /\ i # n
        BY <1>1, <2>2, <3>1
      <4> HIDE DEF m, n
      <4>2. i \in 1..m
        BY <4>1
      <4> QED BY <4>2 DEF m
    <3>3. i \in DOMAIN stack
      BY <1>1, <3>2
    <3>4. stack'[i] = stack[i]
      BY <2>2, <3>2
    <3>5. i + 1 \in DOMAIN stack => stack'[i + 1].anchor = stack[i + 1].anchor
      BY <1>1, <2>2
    <3> QED BY <1>3, <2>1, <2>3, <3>1, <3>3, <3>4, <3>5
  <2> QED BY <2>3, TbLogByRecord
<1> QED BY <1>4, <1>5 DEF AssemblyNext

(***************************************************************************)
(* The theorems.                                                           *)
(***************************************************************************)
\* The end of the log leaves the records as they are.
LEMMA RecordsKept ==
  ASSUME Finish
  PROVE  UNCHANGED <<Drafts, read>> /\ current' = Nothing
<1>1. stack' = Drafts /\ current' = Nothing /\ UNCHANGED read
  BY FlushedIsRecords DEF Finish
<1> QED BY <1>1 DEF Drafts

LEMMA AssemblyStep ==
  ASSUME AssemblyInv, NothingDropped, [AssemblyNext]_assemblyVars
  PROVE  AssemblyInv' /\ NothingDropped'
<1>1. AssemblyTypeOK'
  BY TypeStep DEF AssemblyInv
<1>2. CASE UNCHANGED assemblyVars
  <2>1. /\ read' = read /\ stack' = stack /\ current' = current
        /\ pending' = pending /\ done' = done
    BY <1>2 DEF assemblyVars
  <2>2. Drafts' = Drafts
    BY <2>1 DEF Drafts
  <2>3. TextIsListed' /\ LinesInOrder' /\ LinesWereRead' /\ PagesAreIsolated'
    BY <2>1, <2>2
    DEF AssemblyInv, NothingDropped, TextIsListed, LinesInOrder, LinesWereRead, PagesAreIsolated
  <2>4. TbLogIsWhole' /\ DateIsAwaited'
    BY <2>1, TbLogByRecord DEF AssemblyInv, DateIsAwaited
  <2> QED BY <1>1, <2>1, <2>3, <2>4 DEF AssemblyInv, NothingDropped
<1>3. ASSUME NEW l \in Lines, Consume(l)
      PROVE  AssemblyInv' /\ NothingDropped'
  <2>1. TextIsListed' /\ LinesInOrder' /\ LinesWereRead'
    BY <1>1, <1>3, LinesStep
  <2>2. PagesAreIsolated'
    BY <1>1, <1>3, PagesStep
  <2>3. DateIsAwaited' /\ TbLogIsWhole'
    BY <1>1, <1>3, DateStep, TbLogStep DEF AssemblyNext
  <2>4. ~done'
    BY <1>3 DEF Consume
  <2> QED BY <1>1, <2>1, <2>2, <2>3, <2>4 DEF AssemblyInv, NothingDropped
<1>4. CASE Finish
  <2>1. UNCHANGED <<Drafts, read>> /\ current' = Nothing
    BY <1>4, RecordsKept
  <2>2. TextIsListed' /\ LinesInOrder' /\ LinesWereRead' /\ PagesAreIsolated'
    BY <2>1
    DEF AssemblyInv, NothingDropped, TextIsListed, LinesInOrder, LinesWereRead, PagesAreIsolated
  <2>3. DateIsAwaited' /\ TbLogIsWhole'
    BY <1>1, <1>4, DateStep, TbLogStep DEF AssemblyNext
  <2> QED BY <1>1, <2>1, <2>2, <2>3 DEF AssemblyInv, NothingDropped
<1> QED BY <1>2, <1>3, <1>4 DEF AssemblyNext

LEMMA RecordsStandStep ==
  ASSUME AssemblyInv, [AssemblyNext]_assemblyVars
  PROVE  /\ Len(stack') >= Len(stack)
         /\ \A i \in DOMAIN stack :
              stack'[i] # stack[i] => stack[i].anchor = "PAGE_HEADER" /\ i = Len(stack')
<1>1. AssemblyTypeOK /\ AssemblyTypeOK' /\ DateIsAwaited
  BY TypeStep DEF AssemblyInv
<1>2. DOMAIN stack = 1..Len(stack) /\ Len(stack) \in Nat
  <2>1. stack \in Seq(AnyRecord)
    BY <1>1, RecordTypes
  <2> HIDE DEF AnyRecord
  <2> QED BY <2>1
<1>3. CASE UNCHANGED stack
  BY <1>2, <1>3
<1>4. ASSUME NEW l \in Lines, JoinDate(l)
      PROVE  /\ Len(stack') = Len(stack)
             /\ \A i \in DOMAIN stack :
                  stack'[i] # stack[i] => stack[i].anchor = "PAGE_HEADER" /\ i = Len(stack')
  <2>1. /\ Len(stack') = Len(stack) /\ stack[Len(stack)].anchor = "PAGE_HEADER"
        /\ \A i \in DOMAIN stack : i # Len(stack) => stack'[i] = stack[i]
    BY <1>1, <1>4, PageJoined
  <2> QED BY <2>1
<1>5. ASSUME NEW record \in AnyRecord, stack' = Flushed \/ stack' = Append(Flushed, record)
      PROVE  Len(stack') >= Len(stack) /\ \A i \in DOMAIN stack : stack'[i] = stack[i]
  <2>1. /\ \A i \in 1..Len(stack) : stack'[i] = stack[i]
        /\ Len(stack') = Len(Flushed) \/ Len(stack') = Len(Flushed) + 1
        /\ Len(Flushed) = Len(stack) \/ Len(Flushed) = Len(stack) + 1
    BY <1>1, <1>5, PushedElements
  <2>2. Len(stack') >= Len(stack)
    BY <1>2, <2>1
  <2> QED BY <1>2, <2>1, <2>2, Zenon
<1>6. [anchor |-> "RAW_UNKNOWN", lines |-> <<LineNumber>>] \in AnyRecord
  BY <1>1, RecordTypes DEF AnyRecord, RecordAnchors
<1>7. ASSUME NEW l \in Lines, OpenPage(l) \/ StartRecord(l)
      PROVE  \E record \in AnyRecord : stack' = Flushed \/ stack' = Append(Flushed, record)
  <2>1. CASE OpenPage(l)
    <3>1. [anchor |-> "PAGE_HEADER", lines |-> <<LineNumber>>] \in AnyRecord
      BY <1>1, RecordTypes DEF AnyRecord, RecordAnchors, Anchors
    <3> QED BY <2>1, <3>1 DEF OpenPage
  <2>2. CASE StartRecord(l)
    <3> DEFINE a == IF l.anchor = "none" THEN "RAW_UNKNOWN" ELSE l.anchor
               record == [anchor |-> a, lines |-> <<LineNumber>>]
    <3>1. record \in AnyRecord
      BY <1>1, RecordTypes, LogAssumption DEF LineFacts, AnyRecord, RecordAnchors
    <3>2. IF a \in OpenAnchors THEN stack' = Flushed ELSE stack' = Append(Flushed, record)
      BY <2>2 DEF StartRecord
    <3> HIDE DEF record
    <3> QED BY <3>1, <3>2
  <2> QED BY <1>7, <2>1, <2>2
<1>8. ASSUME NEW l \in Lines, Consume(l)
      PROVE  /\ Len(stack') >= Len(stack)
             /\ \A i \in DOMAIN stack :
                  stack'[i] # stack[i] => stack[i].anchor = "PAGE_HEADER" /\ i = Len(stack')
  <2>1. CASE JoinDate(l)
    BY <1>2, <1>4, <2>1
  <2>2. CASE OpenPage(l) \/ StartRecord(l)
    BY <1>5, <1>7, <2>2
  <2> QED BY <1>3, <1>8, <2>1, <2>2 DEF Consume, ReadBlank, Continue
<1>9. CASE Finish
  BY <1>5, <1>6, <1>9 DEF Finish
<1> QED BY <1>3, <1>8, <1>9 DEF AssemblyNext, assemblyVars

\* No line with text is dropped and none is listed twice or out of order,
\* whatever a log of any length consists of: LogAssembler.consume and finish.
THEOREM LinesAreKept == AssemblySpec => []NothingDropped
<1>1. AssemblyInit => AssemblyInv /\ NothingDropped
  BY TypeInit
<1>2. AssemblyInv /\ NothingDropped /\ [AssemblyNext]_assemblyVars => AssemblyInv' /\ NothingDropped'
  BY AssemblyStep
<1> QED BY <1>1, <1>2, PTL DEF AssemblySpec

\* After every line a wrapped TB_LOG is whole unless a page cut it short and a
\* page holds nothing but its header and its date.
THEOREM AssemblyIsSafe == AssemblySpec => []AssemblyInv
<1>1. AssemblyInit => AssemblyInv /\ NothingDropped
  BY TypeInit
<1>2. AssemblyInv /\ NothingDropped /\ [AssemblyNext]_assemblyVars => AssemblyInv' /\ NothingDropped'
  BY AssemblyStep
<1> QED BY <1>1, <1>2, PTL DEF AssemblySpec

\* No record on the stack is changed but the last page header, by its date:
\* the ids given to the records by position stand.
THEOREM RecordsStand == AssemblySpec => RecordsAreFinal
<1>1. AssemblyInv /\ [AssemblyNext]_assemblyVars =>
        [/\ Len(stack') >= Len(stack)
         /\ \A i \in DOMAIN stack :
              stack'[i] # stack[i] => stack[i].anchor = "PAGE_HEADER" /\ i = Len(stack')]_assemblyVars
  BY RecordsStandStep
<1> QED BY <1>1, AssemblyIsSafe, PTL DEF AssemblySpec, RecordsAreFinal

(***************************************************************************)
(* Sequences that grow or shrink at their end.                             *)
(***************************************************************************)
LEMMA AppendFacts ==
  ASSUME NEW S, NEW s \in Seq(S), NEW x \in S
  PROVE  /\ Append(s, x) \in Seq(S) /\ Len(s) \in Nat
         /\ DOMAIN s = 1..Len(s) /\ DOMAIN Append(s, x) = 1..(Len(s) + 1)
         /\ Append(s, x)[Len(s) + 1] = x
         /\ \A i \in 1..Len(s) : Append(s, x)[i] = s[i]
  OBVIOUS

LEMMA FrontFacts ==
  ASSUME NEW S, NEW s \in Seq(S), s # <<>>
  PROVE  /\ Front(s) \in Seq(S) /\ Len(s) \in Nat \ {0}
         /\ DOMAIN s = 1..Len(s) /\ DOMAIN Front(s) = 1..(Len(s) - 1)
         /\ \A i \in 1..(Len(s) - 1) : Front(s)[i] = s[i]
         /\ Last(s) = s[Len(s)] /\ Last(s) \in S
  BY DEF Front, Last

(***************************************************************************)
(* One record is read: what was read before stays, and r comes after it.   *)
(***************************************************************************)
Reads(r, n) ==
  /\ n \in Nat /\ Number = n + 1 /\ r \in Events
  /\ records' \in Seq(Events)
  /\ DOMAIN records = 1..n /\ DOMAIN records' = 1..(n + 1)
  /\ records'[n + 1] = r
  /\ \A i \in 1..n : records'[i] = records[i]

LEMMA ReadReads ==
  ASSUME TypeOK, NEW r \in Events, records' = Append(records, r)
  PROVE  Reads(r, Len(records))
<1>1. records \in Seq(Events) BY DEF TypeOK
<1> QED BY <1>1, AppendFacts DEF Reads, Number

\* The key of a record that correlates is one of the keys, and its own.
LEMMA KeyIsOwn ==
  ASSUME TypeOK, NEW r \in Events, Correlates(r)
  PROVE  Key(r) \in Keys /\ OpensUnder(r, Key(r))
<1>1. r \in EventFacts BY LifecycleAssumption
<1>2. /\ r.component \in Components /\ r.job \in Jobs
      /\ r.entity \in Entities \cup {None} /\ r.iteration \in Iterations \cup {None}
  BY <1>1 DEF EventFacts, Correlates
<1>3. ContextAfter(r) \in Iterations \cup {None}
  BY <1>2 DEF ContextAfter, TypeOK
<1> QED BY <1>2, <1>3 DEF Key, Keys, OpensUnder

(***************************************************************************)
(* build_lifecycle.                                                        *)
(***************************************************************************)
StagesInv ==
  /\ TypeOK /\ StacksHoldOpenStages /\ StagesAreMarked /\ MarksAreStaged
  /\ StagesNest /\ OrphansAreOutside

StagesKept ==
  /\ StacksHoldOpenStages /\ StagesAreMarked /\ MarksAreStaged
  /\ StagesNest /\ OrphansAreOutside

\* A stage speaks of records that were read.
LEMMA StagesAreRead ==
  ASSUME StagesInv
  PROVE  /\ \A s \in DOMAIN stages :
              /\ stages[s].start \in DOMAIN records /\ stages[s].start # NotEnded
              /\ Ended(stages[s]) => stages[s].end \in DOMAIN records /\ stages[s].end \in Nat
  <1>1. records \in Seq(Events) BY DEF StagesInv, TypeOK
  <1>2. DOMAIN records = 1..Len(records) /\ Len(records) \in Nat BY <1>1
  <1> QED BY <1>2 DEF StagesInv, StagesAreMarked, Marks, NotEnded

\* The four parts of StacksHoldOpenStages, by name.
LEMMA Stacked ==
  ASSUME StagesInv
  PROVE  /\ \A key \in Keys : /\ opening[key] \in Seq(Nat) /\ Len(opening[key]) \in Nat
                              /\ DOMAIN opening[key] = 1..Len(opening[key])
         /\ \A key \in Keys : \A i \in DOMAIN opening[key] :
              /\ opening[key][i] \in DOMAIN stages /\ OpenStage(opening[key][i])
              /\ OpensUnder(records[stages[opening[key][i]].start], key)
         /\ \A key \in Keys : \A i, j \in DOMAIN opening[key] :
              i < j => opening[key][i] < opening[key][j]
         /\ \A key, other \in Keys : \A i \in DOMAIN opening[key], j \in DOMAIN opening[other] :
              opening[key][i] = opening[other][j] => key = other
         /\ \A s \in DOMAIN stages : OpenStage(s) =>
              \E key \in Keys : \E i \in DOMAIN opening[key] : opening[key][i] = s
<1>1. \A key \in Keys : opening[key] \in Seq(Nat) BY DEF StagesInv, TypeOK
<1>2. \A key \in Keys : Len(opening[key]) \in Nat /\ DOMAIN opening[key] = 1..Len(opening[key])
  BY <1>1
<1> QED BY <1>1, <1>2
  DEF StagesInv, StacksHoldOpenStages, StackedAreOpen, StackedInOrder, StackedOnce,
      OpenAreStacked

LEMMA PassedKeeps ==
  ASSUME StagesInv, NEW n, NEW r, Reads(r, n), Passed(r)
  PROVE  StagesKept'
<1> USE DEF Passed, StagesInv
<1>1. \A s \in DOMAIN stages :
        /\ stages[s].start \in 1..n /\ records'[stages[s].start] = records[stages[s].start]
        /\ Ended(stages[s]) => /\ stages[s].end \in 1..n
                               /\ records'[stages[s].end] = records[stages[s].end]
  BY StagesAreRead DEF Reads
<1>2. StacksHoldOpenStages'
  <2>1. StackedAreOpen /\ StackedInOrder /\ StackedOnce /\ OpenAreStacked
    BY DEF StacksHoldOpenStages
  <2>2. StackedAreOpen'
    <3>1. \A key \in Keys : \A i \in DOMAIN opening[key] :
            /\ opening[key][i] \in DOMAIN stages
            /\ ~stages[opening[key][i]].orphan /\ ~Ended(stages[opening[key][i]])
            /\ OpensUnder(records'[stages[opening[key][i]].start], key)
      BY <1>1, Stacked DEF OpenStage
    <3> QED BY <3>1 DEF StackedAreOpen, OpensUnder, OpenStage, Ended
  <2>3. StackedInOrder' /\ StackedOnce' BY <2>1 DEF StackedInOrder, StackedOnce
  <2>4. OpenAreStacked' BY <2>1 DEF OpenAreStacked, OpenStage, Ended
  <2> QED BY <2>2, <2>3, <2>4 DEF StacksHoldOpenStages
<1>3. StagesAreMarked'
  BY <1>1 DEF StagesAreMarked, Marks, Ended, Reads, Correlates, Marker
<1>4. MarksAreStaged'
  BY <1>1 DEF MarksAreStaged, Reads, Correlates, Marker
<1>5. StagesNest'
  BY <1>1 DEF StagesNest, Ended, Same, KeyOwn
<1>6. OrphansAreOutside'
  BY <1>1 DEF OrphansAreOutside, OpenStage, Ended, KeyOwn
<1> QED BY <1>2, <1>3, <1>4, <1>5, <1>6 DEF StagesKept

\* A stage is opened with the record n + 1: the stages before it stay.
Opens(n, m, orphan) ==
  /\ m \in Nat /\ DOMAIN stages = 1..m /\ DOMAIN stages' = 1..(m + 1)
  /\ stages' \in Seq([start: Nat, end: Nat, orphan: BOOLEAN])
  /\ stages'[m + 1].start = n + 1 /\ stages'[m + 1].end = NotEnded
  /\ stages'[m + 1].orphan = orphan
  /\ \A s \in 1..m : stages'[s] = stages[s]

LEMMA StageOpens ==
  ASSUME TypeOK, NEW n \in Nat, NEW orphan \in BOOLEAN,
         stages' = Append(stages, [start |-> n + 1, end |-> NotEnded, orphan |-> orphan])
  PROVE  Opens(n, Len(stages), orphan)
<1> DEFINE Stage == [start: Nat, end: Nat, orphan: BOOLEAN]
           stage == [start |-> n + 1, end |-> NotEnded, orphan |-> orphan]
<1>1. stages \in Seq(Stage) /\ stage \in Stage BY DEF TypeOK, NotEnded
<1>2. stage.start = n + 1 /\ stage.end = NotEnded /\ stage.orphan = orphan OBVIOUS
<1>3. stages' = Append(stages, stage) OBVIOUS
<1> HIDE DEF Stage, stage
<1>4. /\ Append(stages, stage) \in Seq(Stage) /\ Len(stages) \in Nat
      /\ DOMAIN stages = 1..Len(stages)
      /\ DOMAIN Append(stages, stage) = 1..(Len(stages) + 1)
      /\ Append(stages, stage)[Len(stages) + 1] = stage
      /\ \A i \in 1..Len(stages) : Append(stages, stage)[i] = stages[i]
  BY <1>1, AppendFacts
<1> QED BY <1>2, <1>3, <1>4 DEF Opens, Stage

\* What opening a stage keeps, whichever it is.
LEMMA OpeningKeeps ==
  ASSUME StagesInv, NEW n, NEW r, Reads(r, n), NEW m, NEW orphan \in BOOLEAN,
         Opens(n, m, orphan), Correlates(r), r.written = IF orphan THEN "FIN" ELSE "INI"
  PROVE  StagesAreMarked' /\ MarksAreStaged' /\ StagesNest'
<1>1. \A s \in 1..m :
        /\ stages[s].start \in 1..n /\ records'[stages[s].start] = records[stages[s].start]
        /\ Ended(stages[s]) => /\ stages[s].end \in 1..n
                               /\ records'[stages[s].end] = records[stages[s].end]
  BY StagesAreRead DEF Reads, Opens
<1>2. records'[n + 1] = r /\ n + 1 \in DOMAIN records' /\ n \in Nat /\ ~Ended(stages[m + 1])'
  BY DEF Reads, Opens, Ended
<1>3. StagesAreMarked'
  <2>0. /\ \A s \in DOMAIN stages :
             /\ Marks(stages[s].start, IF stages[s].orphan THEN "FIN" ELSE "INI")
             /\ Ended(stages[s]) => ~stages[s].orphan /\ Marks(stages[s].end, "FIN")
        /\ \A s, t \in DOMAIN stages :
             /\ s < t => stages[s].start < stages[t].start
             /\ Ended(stages[s]) /\ s # t => stages[s].end # stages[t].end
             /\ Ended(stages[s]) /\ stages[t].orphan => stages[s].end # stages[t].start
    BY DEF StagesInv, StagesAreMarked
  <2>1. ASSUME NEW s \in 1..(m + 1)
        PROVE  /\ stages'[s].start \in DOMAIN records' /\ Correlates(records'[stages'[s].start])
               /\ records'[stages'[s].start].written = IF stages'[s].orphan THEN "FIN" ELSE "INI"
               /\ Ended(stages'[s]) =>
                    /\ ~stages'[s].orphan
                    /\ stages'[s].end \in DOMAIN records' /\ Correlates(records'[stages'[s].end])
                    /\ records'[stages'[s].end].written = "FIN"
    <3>1. CASE s \in 1..m
      <4>1. stages'[s] = stages[s] /\ s \in DOMAIN stages BY <3>1 DEF Opens
      <4>2. DOMAIN records' = 1..(n + 1) /\ n \in Nat /\ DOMAIN records = 1..n BY DEF Reads
      <4>3. /\ stages[s].start \in DOMAIN records' /\ Correlates(records'[stages[s].start])
            /\ records'[stages[s].start].written = IF stages[s].orphan THEN "FIN" ELSE "INI"
        BY <1>1, <2>0, <3>1, <4>1, <4>2 DEF Marks
      <4>4. Ended(stages[s]) =>
              /\ ~stages[s].orphan
              /\ stages[s].end \in DOMAIN records' /\ Correlates(records'[stages[s].end])
              /\ records'[stages[s].end].written = "FIN"
        BY <1>1, <2>0, <3>1, <4>1, <4>2 DEF Marks
      <4> QED BY <4>1, <4>3, <4>4
    <3>2. CASE s = m + 1
      <4>1. ~Ended(stages'[s]) /\ stages'[s].start = n + 1 /\ stages'[s].orphan = orphan
        BY <3>2 DEF Opens, Ended
      <4> QED BY <1>2, <4>1
    <3> QED BY <3>1, <3>2 DEF Opens
  <2>2. ASSUME NEW s \in 1..(m + 1), NEW t \in 1..(m + 1)
        PROVE  /\ s < t => stages'[s].start < stages'[t].start
               /\ Ended(stages'[s]) /\ s # t => stages'[s].end # stages'[t].end
               /\ Ended(stages'[s]) /\ stages'[t].orphan => stages'[s].end # stages'[t].start
    <3>1. CASE s \in 1..m /\ t \in 1..m
      <4>1. /\ stages'[s] = stages[s] /\ s \in DOMAIN stages
            /\ stages'[t] = stages[t] /\ t \in DOMAIN stages
        BY <3>1 DEF Opens
      <4> QED BY <2>0, <4>1
    <3>2. CASE s \in 1..m /\ t = m + 1
      <4>1. stages'[s] = stages[s] /\ stages'[t].start = n + 1 /\ stages'[t].end = 0
        BY <3>2 DEF Opens, NotEnded
      <4>2. stages[s].start \in 1..n /\ (Ended(stages[s]) => stages[s].end \in 1..n)
        BY <1>1, <3>2
      <4> QED BY <1>2, <4>1, <4>2
    <3>3. CASE s = m + 1
      <4>1. ~Ended(stages'[s]) /\ ~(s < t) BY <3>3 DEF Opens, Ended
      <4> QED BY <4>1
    <3> QED BY <3>1, <3>2, <3>3 DEF Opens
  <2>3. DOMAIN stages' = 1..(m + 1) BY DEF Opens
  <2> QED BY <2>1, <2>2, <2>3 DEF StagesAreMarked, Marks, Ended, Correlates, Marker
<1>4. MarksAreStaged'
  <2> SUFFICES ASSUME NEW k \in DOMAIN records', Correlates(records'[k])
               PROVE  \E s \in DOMAIN stages' : stages'[s].start = k \/ stages'[s].end = k
    BY DEF MarksAreStaged, Correlates, Marker
  <2>1. CASE k \in 1..n
    <3>1. PICK s \in DOMAIN stages : stages[s].start = k \/ stages[s].end = k
      BY <2>1 DEF StagesInv, MarksAreStaged, Reads
    <3> QED BY <3>1 DEF Opens
  <2>2. CASE k = n + 1
    BY <2>2 DEF Opens
  <2> QED BY <2>1, <2>2 DEF Reads
<1>5. StagesNest'
  <2> SUFFICES ASSUME NEW s \in DOMAIN stages', Ended(stages'[s])
               PROVE  /\ stages'[s].start < stages'[s].end
                      /\ Same(records'[stages'[s].start], records'[stages'[s].end])
                      /\ \A t \in DOMAIN stages' :
                           /\ KeyOwn(records'[stages'[t].start]) = KeyOwn(records'[stages'[s].start])
                           /\ stages'[s].start < stages'[t].start
                           /\ stages'[t].start < stages'[s].end
                           /\ records'[stages'[s].start].iteration # None
                           => Ended(stages'[t]) /\ stages'[t].end < stages'[s].end
    BY DEF StagesNest, Ended, Same, KeyOwn
  <2>1. s \in 1..m BY <1>2 DEF Opens, Ended
  <2>2. /\ stages'[s] = stages[s] /\ Ended(stages[s])
        /\ stages[s].end \in 1..n
        /\ records'[stages[s].start] = records[stages[s].start]
        /\ records'[stages[s].end] = records[stages[s].end]
    BY <1>1, <2>1 DEF Opens
  <2>3. ASSUME NEW t \in 1..m
        PROVE  stages'[t] = stages[t] /\ records'[stages[t].start] = records[stages[t].start]
    BY <1>1 DEF Opens
  <2>4. ~(stages'[m + 1].start < stages'[s].end)
    BY <1>2, <2>2 DEF Opens
  <2>5. \A t \in DOMAIN stages' : t \in 1..m \/ t = m + 1
    BY DEF Opens
  <2>6. s \in DOMAIN stages BY <2>1 DEF Opens
  <2>7. \A t \in 1..m : t \in DOMAIN stages BY DEF Opens
  <2> QED BY <2>2, <2>3, <2>4, <2>5, <2>6, <2>7 DEF StagesInv, StagesNest
<1> QED BY <1>3, <1>4, <1>5

\* An open stage with an iteration of its own is on the stack of its key.
LEMMA OnItsStack ==
  ASSUME StagesInv, NEW s \in DOMAIN stages, OpenStage(s),
         NEW r, r.iteration # None, KeyOwn(records[stages[s].start]) = KeyOwn(r)
  PROVE  Key(r) \in Keys /\ \E i \in DOMAIN opening[Key(r)] : opening[Key(r)][i] = s
<1>1. PICK key \in Keys : \E i \in DOMAIN opening[key] : opening[key][i] = s
  BY Stacked
<1>2. OpensUnder(records[stages[s].start], key) BY <1>1, Stacked
<1>3. key = <<key[1], key[2], key[3], key[4]>> BY DEF Keys
<1>4. key = KeyOwn(r) BY <1>2, <1>3 DEF OpensUnder, KeyOwn
<1>5. Key(r) = KeyOwn(r) BY DEF Key, KeyOwn
<1> QED BY <1>1, <1>4, <1>5

LEMMA OrphanFinKeeps ==
  ASSUME StagesInv, NEW n, NEW r, Reads(r, n), OrphanFin(r)
  PROVE  StagesKept'
<1> DEFINE m == Len(stages)
<1>1. Opens(n, m, TRUE)
  BY StageOpens DEF OrphanFin, Reads, StagesInv
<1>2. Correlates(r) /\ r.written = "FIN" /\ opening[Key(r)] = <<>> /\ opening' = opening
  BY DEF OrphanFin, Correlates, Marker, None
<1> HIDE DEF m
<1>3. StagesAreMarked' /\ MarksAreStaged' /\ StagesNest'
  BY <1>1, <1>2, OpeningKeeps
<1>4. /\ DOMAIN stages = 1..m /\ DOMAIN stages' = 1..(m + 1) /\ m \in Nat
      /\ \A s \in 1..m : stages'[s] = stages[s]
      /\ stages'[m + 1].orphan
  BY <1>1 DEF Opens
<1>5. \A s \in DOMAIN stages :
        /\ stages[s].start \in 1..n /\ records'[stages[s].start] = records[stages[s].start]
        /\ stages'[s] = stages[s] /\ s \in DOMAIN stages'
  BY <1>4, StagesAreRead DEF Reads
<1>6. \A s \in DOMAIN stages' : s \in DOMAIN stages \/ s = m + 1 BY <1>4
<1>7. StacksHoldOpenStages'
  <2>1. \A key \in Keys : \A i \in DOMAIN opening[key] :
          /\ opening[key][i] \in DOMAIN stages'
          /\ ~stages'[opening[key][i]].orphan /\ ~Ended(stages'[opening[key][i]])
          /\ OpensUnder(records'[stages'[opening[key][i]].start], key)
    BY <1>5, Stacked DEF OpenStage
  <2>2. ASSUME NEW s \in DOMAIN stages', ~stages'[s].orphan, ~Ended(stages'[s])
        PROVE  \E key \in Keys : \E i \in DOMAIN opening[key] : opening[key][i] = s
    <3>1. s \in DOMAIN stages BY <1>4, <1>6, <2>2
    <3> QED BY <1>5, <2>2, <3>1, Stacked DEF OpenStage
  <2>3. StackedAreOpen' BY <1>2, <2>1 DEF StackedAreOpen, OpenStage, Ended, OpensUnder
  <2>4. OpenAreStacked' BY <1>2, <2>2 DEF OpenAreStacked, OpenStage, Ended
  <2>5. StackedInOrder' /\ StackedOnce'
    BY <1>2 DEF StagesInv, StacksHoldOpenStages, StackedInOrder, StackedOnce
  <2> QED BY <2>3, <2>4, <2>5 DEF StacksHoldOpenStages
<1>8. OrphansAreOutside'
  <2> SUFFICES ASSUME NEW s \in DOMAIN stages', NEW o \in DOMAIN stages',
                      ~stages'[s].orphan, ~Ended(stages'[s]), stages'[o].orphan,
                      KeyOwn(records'[stages'[s].start]) = KeyOwn(records'[stages'[o].start]),
                      records'[stages'[s].start].iteration # None
               PROVE  stages'[o].start < stages'[s].start
    BY DEF OrphansAreOutside, OpenStage, Ended, KeyOwn
  <2>1. s \in DOMAIN stages BY <1>4, <1>6
  <2>2. OpenStage(s) /\ stages'[s] = stages[s]
        /\ records'[stages[s].start] = records[stages[s].start]
    BY <1>5, <2>1 DEF OpenStage
  <2>3. CASE o \in DOMAIN stages
    BY <1>5, <2>1, <2>2, <2>3 DEF StagesInv, OrphansAreOutside
  <2>4. CASE o = m + 1
    <3>1. records'[stages'[o].start] = r BY <1>1, <2>4 DEF Opens, Reads
    <3>2. r.iteration # None BY <2>2, <3>1 DEF KeyOwn
    <3>3. \E i \in DOMAIN opening[Key(r)] : opening[Key(r)][i] = s
      BY <2>1, <2>2, <3>1, <3>2, OnItsStack
    <3> QED BY <1>2, <3>3
  <2> QED BY <1>6, <2>3, <2>4
<1> QED BY <1>3, <1>7, <1>8 DEF StagesKept

LEMMA IniKeeps ==
  ASSUME StagesInv, NEW n, NEW r, Reads(r, n), Ini(r)
  PROVE  StagesKept'
<1> DEFINE m == Len(stages)
           key0 == Key(r)
           p == Len(opening[key0])
<1>1. Opens(n, m, FALSE)
  BY StageOpens DEF Ini, Reads, StagesInv
<1>2. Correlates(r) /\ r.written = "INI"
  BY DEF Ini, Correlates, Marker, None
<1>3. key0 \in Keys /\ OpensUnder(r, key0)
  BY <1>2, KeyIsOwn DEF StagesInv, Reads
<1>4. opening \in [Keys -> Seq(Nat)] /\ opening' = [opening EXCEPT ![key0] = Append(@, m + 1)]
  BY DEF StagesInv, TypeOK, Ini
<1>5. m + 1 \in Nat BY <1>1 DEF Opens
<1>6. /\ p \in Nat /\ DOMAIN opening[key0] = 1..p
      /\ DOMAIN opening'[key0] = 1..(p + 1) /\ opening'[key0][p + 1] = m + 1
      /\ \A i \in 1..p : opening'[key0][i] = opening[key0][i]
  <2>1. opening[key0] \in Seq(Nat) /\ opening'[key0] = Append(opening[key0], m + 1)
    BY <1>3, <1>4
  <2> HIDE DEF key0, m
  <2> QED BY <1>5, <2>1, AppendFacts
<1>7. \A key \in Keys : key # key0 => opening'[key] = opening[key]
  BY <1>4
<1> HIDE DEF m, p, key0
<1>8. StagesAreMarked' /\ MarksAreStaged' /\ StagesNest'
  BY <1>1, <1>2, OpeningKeeps
<1>9. /\ DOMAIN stages = 1..m /\ DOMAIN stages' = 1..(m + 1) /\ m \in Nat
      /\ \A s \in 1..m : stages'[s] = stages[s]
      /\ ~stages'[m + 1].orphan /\ ~Ended(stages'[m + 1])
      /\ stages'[m + 1].start = n + 1 /\ records'[n + 1] = r
  BY <1>1 DEF Opens, Ended, Reads
<1>10. \A s \in DOMAIN stages :
        /\ stages[s].start \in 1..n /\ records'[stages[s].start] = records[stages[s].start]
        /\ stages'[s] = stages[s] /\ s \in DOMAIN stages'
  BY <1>9, StagesAreRead DEF Reads
<1>11. \A s \in DOMAIN stages' : s \in DOMAIN stages \/ s = m + 1 BY <1>9
<1>12. ASSUME NEW key \in Keys, NEW i \in DOMAIN opening'[key]
       PROVE  \/ i \in DOMAIN opening[key] /\ opening'[key][i] = opening[key][i]
              \/ key = key0 /\ i = p + 1 /\ opening'[key][i] = m + 1
  <2>1. CASE key # key0 BY <1>7, <2>1
  <2>2. CASE key = key0
    <3>1. i \in 1..(p + 1) BY <1>6, <2>2
    <3>2. i \in 1..p \/ i = p + 1 BY <1>6, <3>1
    <3> QED BY <1>6, <2>2, <3>2
  <2> QED BY <2>1, <2>2
<1>13. \A key \in Keys : \A i \in DOMAIN opening[key] :
         i \in DOMAIN opening'[key] /\ opening'[key][i] = opening[key][i]
  BY <1>6, <1>7
<1>14. StacksHoldOpenStages'
  <2>1. ASSUME NEW key \in Keys, NEW i \in DOMAIN opening'[key]
        PROVE  /\ opening'[key][i] \in DOMAIN stages'
               /\ ~stages'[opening'[key][i]].orphan /\ ~Ended(stages'[opening'[key][i]])
               /\ OpensUnder(records'[stages'[opening'[key][i]].start], key)
    <3>1. CASE i \in DOMAIN opening[key] /\ opening'[key][i] = opening[key][i]
      BY <1>10, <3>1, Stacked DEF OpenStage
    <3>2. CASE key = key0 /\ opening'[key][i] = m + 1
      BY <1>3, <1>9, <3>2
    <3> QED BY <1>12, <3>1, <3>2
  <2>2. ASSUME NEW key \in Keys, NEW i \in DOMAIN opening'[key], NEW j \in DOMAIN opening'[key],
               i < j
        PROVE  opening'[key][i] < opening'[key][j]
    <3>1. CASE /\ i \in DOMAIN opening[key] /\ opening'[key][i] = opening[key][i]
               /\ j \in DOMAIN opening[key] /\ opening'[key][j] = opening[key][j]
      BY <2>2, <3>1, Stacked
    <3>2. CASE i \in DOMAIN opening[key] /\ opening'[key][i] = opening[key][i]
               /\ opening'[key][j] = m + 1
      BY <1>9, <3>2, Stacked
    <3>3. CASE key = key0 /\ i = p + 1
      BY <1>6, <2>2, <3>3
    <3> QED BY <1>12, <3>1, <3>2, <3>3
  <2>3. ASSUME NEW key \in Keys, NEW other \in Keys,
               NEW i \in DOMAIN opening'[key], NEW j \in DOMAIN opening'[other],
               opening'[key][i] = opening'[other][j]
        PROVE  key = other
    <3>1. \A k \in Keys : \A l \in DOMAIN opening[k] : opening[k][l] \in 1..m
      BY <1>9, Stacked
    <3>2. m + 1 \notin 1..m BY <1>9
    <3> QED BY <1>12, <2>3, <3>1, <3>2, Stacked
  <2>4. ASSUME NEW s \in DOMAIN stages', ~stages'[s].orphan, ~Ended(stages'[s])
        PROVE  \E key \in Keys : \E i \in DOMAIN opening'[key] : opening'[key][i] = s
    <3>1. CASE s \in DOMAIN stages
      <4>1. OpenStage(s) BY <1>10, <2>4, <3>1 DEF OpenStage
      <4>2. PICK key \in Keys : \E i \in DOMAIN opening[key] : opening[key][i] = s
        BY <3>1, <4>1, Stacked
      <4> QED BY <1>13, <4>2
    <3>2. CASE s = m + 1
      <4>1. p + 1 \in DOMAIN opening'[key0] /\ opening'[key0][p + 1] = s BY <1>6, <3>2
      <4> QED BY <1>3, <4>1
    <3> QED BY <1>11, <3>1, <3>2
  <2>5. StackedAreOpen' BY <2>1 DEF StackedAreOpen, OpenStage, Ended, OpensUnder
  <2>6. StackedInOrder' /\ StackedOnce' BY <2>2, <2>3 DEF StackedInOrder, StackedOnce
  <2>7. OpenAreStacked' BY <2>4 DEF OpenAreStacked, OpenStage, Ended
  <2> QED BY <2>5, <2>6, <2>7 DEF StacksHoldOpenStages
<1>15. OrphansAreOutside'
  <2> SUFFICES ASSUME NEW s \in DOMAIN stages', NEW o \in DOMAIN stages',
                      ~stages'[s].orphan, ~Ended(stages'[s]), stages'[o].orphan,
                      KeyOwn(records'[stages'[s].start]) = KeyOwn(records'[stages'[o].start]),
                      records'[stages'[s].start].iteration # None
               PROVE  stages'[o].start < stages'[s].start
    BY DEF OrphansAreOutside, OpenStage, Ended, KeyOwn
  <2>1. o \in DOMAIN stages BY <1>9, <1>11
  <2>2. CASE s \in DOMAIN stages
    <3>1. OpenStage(s) BY <1>10, <2>2 DEF OpenStage
    <3> QED BY <1>10, <2>1, <2>2, <3>1 DEF StagesInv, OrphansAreOutside
  <2>3. CASE s = m + 1
    <3>1. stages'[o].start \in 1..n /\ stages'[s].start = n + 1 BY <1>9, <1>10, <2>1, <2>3
    <3> QED BY <3>1 DEF Reads
  <2> QED BY <1>11, <2>2, <2>3
<1> QED BY <1>8, <1>14, <1>15 DEF StagesKept

\* A FIN closes the stage c on top of its stack.
LEMMA FinKeeps ==
  ASSUME StagesInv, NEW n, NEW r, Reads(r, n), Fin(r)
  PROVE  StagesKept' /\ stages' \in Seq([start: Nat, end: Nat, orphan: BOOLEAN])
<1> DEFINE Stage == [start: Nat, end: Nat, orphan: BOOLEAN]
           key0 == Key(r)
           p == Len(opening[key0])
           c == Last(opening[key0])
<1>1. Correlates(r) /\ r.written = "FIN" /\ opening[key0] # <<>>
  BY DEF Fin, Correlates, Marker, None
<1>2. key0 \in Keys /\ OpensUnder(r, key0)
  BY <1>1, KeyIsOwn DEF StagesInv, Reads
<1>3. /\ opening[key0] \in Seq(Nat) /\ opening \in [Keys -> Seq(Nat)]
      /\ opening' = [opening EXCEPT ![key0] = Front(@)]
      /\ stages \in Seq(Stage) /\ stages' = [stages EXCEPT ![c].end = n + 1]
  BY <1>2 DEF StagesInv, TypeOK, Fin, StackAfterFin, StageClosed, Reads
<1>4. /\ p \in Nat \ {0} /\ DOMAIN opening[key0] = 1..p /\ c = opening[key0][p]
      /\ DOMAIN opening'[key0] = 1..(p - 1)
      /\ \A i \in 1..(p - 1) : opening'[key0][i] = opening[key0][i]
  <2>1. opening'[key0] = Front(opening[key0]) BY <1>2, <1>3
  <2> HIDE DEF key0
  <2>2. opening[key0] \in Seq(Nat) /\ opening[key0] # <<>> BY <1>1, <1>3
  <2>3. p \in Nat \ {0} /\ DOMAIN opening[key0] = 1..p BY <2>2, FrontFacts
  <2>4. c = opening[key0][p] BY <2>2, FrontFacts
  <2>5. /\ DOMAIN Front(opening[key0]) = 1..(p - 1)
        /\ \A i \in 1..(p - 1) : Front(opening[key0])[i] = opening[key0][i]
    BY <2>2, FrontFacts
  <2> QED BY <2>1, <2>3, <2>4, <2>5
<1>5. \A key \in Keys : key # key0 => opening'[key] = opening[key]
  BY <1>3
<1> HIDE DEF p, c, key0
<1>6. p \in DOMAIN opening[key0] BY <1>4
<1>7. /\ c \in DOMAIN stages /\ OpenStage(c) /\ OpensUnder(records[stages[c].start], key0)
  BY <1>2, <1>4, <1>6, Stacked
<1>8. ~stages[c].orphan /\ ~Ended(stages[c]) BY <1>7 DEF OpenStage
<1>9. /\ DOMAIN stages' = DOMAIN stages
      /\ \A s \in DOMAIN stages : s # c => stages'[s] = stages[s]
      /\ stages'[c] = [stages[c] EXCEPT !.end = n + 1]
  BY <1>3, <1>7
<1>10. n + 1 \in Nat /\ n \in Nat /\ records'[n + 1] = r /\ n + 1 \in DOMAIN records'
  BY DEF Reads
<1>24. stages[c] \in Stage
  <2> HIDE DEF Stage
  <2> QED BY <1>3, <1>7
<1>11. /\ stages'[c].start = stages[c].start /\ stages'[c].end = n + 1
       /\ stages'[c].orphan = stages[c].orphan /\ stages'[c] \in Stage
  BY <1>9, <1>10, <1>24
<1>12. Ended(stages'[c]) BY <1>10, <1>11 DEF Ended, NotEnded
<1>13. stages' \in Seq(Stage)
  <2> HIDE DEF Stage
  <2>1. Len(stages) \in Nat /\ stages \in [1..Len(stages) -> Stage] BY <1>3
  <2>2. stages' \in [1..Len(stages) -> Stage] BY <1>3, <1>9, <1>11, <2>1
  <2> QED BY <2>1, <2>2
<1> HIDE DEF Stage
<1>14. \A s \in DOMAIN stages :
        /\ stages[s].start \in 1..n /\ records'[stages[s].start] = records[stages[s].start]
        /\ Ended(stages[s]) =>
             stages[s].end \in 1..n /\ records'[stages[s].end] = records[stages[s].end]
        /\ stages'[s].start = stages[s].start
        /\ stages'[s].orphan = stages[s].orphan
  BY <1>9, <1>11, StagesAreRead DEF Reads
<1>15. ASSUME NEW key \in Keys, NEW i \in DOMAIN opening'[key]
       PROVE  /\ i \in DOMAIN opening[key] /\ opening'[key][i] = opening[key][i]
              /\ opening[key][i] # c
  <2>1. CASE key # key0
    BY <1>2, <1>4, <1>5, <1>6, <2>1, Stacked
  <2>2. CASE key = key0
    <3>1. i \in 1..(p - 1) BY <1>4, <2>2
    <3>2. i \in 1..p /\ i < p BY <1>4, <3>1
    <3>3. opening[key0][i] < opening[key0][p] BY <1>2, <1>4, <1>6, <3>2, Stacked
    <3>4. opening[key0][i] \in Nat /\ opening[key0][p] \in Nat
      BY <1>3, <1>4, <1>6, <3>2
    <3> QED BY <1>4, <2>2, <3>1, <3>2, <3>3, <3>4
  <2> QED BY <2>1, <2>2
<1>16. ASSUME NEW key \in Keys, NEW i \in DOMAIN opening[key], opening[key][i] # c
       PROVE  i \in DOMAIN opening'[key] /\ opening'[key][i] = opening[key][i]
  <2>1. CASE key # key0 BY <1>5, <2>1
  <2>2. CASE key = key0
    <3>1. i \in 1..p /\ i # p BY <1>4, <1>16, <2>2
    <3>2. i \in 1..(p - 1) BY <1>4, <3>1
    <3> QED BY <1>4, <2>2, <3>2
  <2> QED BY <2>1, <2>2
<1>17. StacksHoldOpenStages'
  <2>1. \A key \in Keys : \A i \in DOMAIN opening'[key] :
          /\ opening'[key][i] \in DOMAIN stages'
          /\ ~stages'[opening'[key][i]].orphan /\ ~Ended(stages'[opening'[key][i]])
          /\ OpensUnder(records'[stages'[opening'[key][i]].start], key)
    BY <1>9, <1>14, <1>15, Stacked DEF OpenStage
  <2>2. \A key \in Keys : \A i, j \in DOMAIN opening'[key] :
          i < j => opening'[key][i] < opening'[key][j]
    BY <1>15, Stacked
  <2>3. \A key, other \in Keys : \A i \in DOMAIN opening'[key], j \in DOMAIN opening'[other] :
          opening'[key][i] = opening'[other][j] => key = other
    BY <1>15, Stacked
  <2>4. ASSUME NEW s \in DOMAIN stages', ~stages'[s].orphan, ~Ended(stages'[s])
        PROVE  \E key \in Keys : \E i \in DOMAIN opening'[key] : opening'[key][i] = s
    <3>1. s # c /\ s \in DOMAIN stages BY <1>9, <1>12, <2>4
    <3>2. OpenStage(s) BY <1>9, <2>4, <3>1 DEF OpenStage
    <3>3. PICK key \in Keys : \E i \in DOMAIN opening[key] : opening[key][i] = s
      BY <3>1, <3>2, Stacked
    <3> QED BY <1>16, <3>1, <3>3
  <2>5. StackedAreOpen' BY <2>1 DEF StackedAreOpen, OpenStage, Ended, OpensUnder
  <2>6. StackedInOrder' /\ StackedOnce' BY <2>2, <2>3 DEF StackedInOrder, StackedOnce
  <2>7. OpenAreStacked' BY <2>4 DEF OpenAreStacked, OpenStage, Ended
  <2> QED BY <2>5, <2>6, <2>7 DEF StacksHoldOpenStages
<1>18. /\ \A s \in DOMAIN stages :
            /\ Marks(stages[s].start, IF stages[s].orphan THEN "FIN" ELSE "INI")
            /\ Ended(stages[s]) => ~stages[s].orphan /\ Marks(stages[s].end, "FIN")
       /\ \A s, t \in DOMAIN stages :
            /\ s < t => stages[s].start < stages[t].start
            /\ Ended(stages[s]) /\ s # t => stages[s].end # stages[t].end
            /\ Ended(stages[s]) /\ stages[t].orphan => stages[s].end # stages[t].start
  BY DEF StagesInv, StagesAreMarked
<1>19. \A k \in 1..n : k \in DOMAIN records' /\ records'[k] = records[k] BY DEF Reads
<1>20. StagesAreMarked'
  <2>1. ASSUME NEW s \in DOMAIN stages
        PROVE  /\ stages'[s].start \in DOMAIN records' /\ Correlates(records'[stages'[s].start])
               /\ records'[stages'[s].start].written = IF stages'[s].orphan THEN "FIN" ELSE "INI"
               /\ Ended(stages'[s]) =>
                    /\ ~stages'[s].orphan
                    /\ stages'[s].end \in DOMAIN records' /\ Correlates(records'[stages'[s].end])
                    /\ records'[stages'[s].end].written = "FIN"
    <3>1. /\ stages[s].start \in DOMAIN records' /\ Correlates(records'[stages[s].start])
          /\ records'[stages[s].start].written = IF stages[s].orphan THEN "FIN" ELSE "INI"
      BY <1>14, <1>18, <1>19 DEF Marks
    <3>2. CASE s = c
      BY <1>1, <1>8, <1>10, <1>11, <1>14, <3>1, <3>2
    <3>3. CASE s # c
      <4>1. Ended(stages[s]) =>
              /\ ~stages[s].orphan
              /\ stages[s].end \in DOMAIN records' /\ Correlates(records'[stages[s].end])
              /\ records'[stages[s].end].written = "FIN"
        BY <1>14, <1>18, <1>19 DEF Marks
      <4> QED BY <1>9, <3>1, <3>3, <4>1
    <3> QED BY <3>2, <3>3
  <2>2. ASSUME NEW s \in DOMAIN stages, NEW t \in DOMAIN stages
        PROVE  /\ s < t => stages'[s].start < stages'[t].start
               /\ Ended(stages'[s]) /\ s # t => stages'[s].end # stages'[t].end
               /\ Ended(stages'[s]) /\ stages'[t].orphan => stages'[s].end # stages'[t].start
    <3>1. s < t => stages'[s].start < stages'[t].start BY <1>14, <1>18
    <3>2. \A x \in DOMAIN stages : stages[x].end \in 0..n
      BY <1>10, <1>14 DEF Ended, NotEnded
    <3>5. \A x \in DOMAIN stages : x # c => stages'[x].end # n + 1
      <4>1. \A k \in 0..n : k # n + 1 BY <1>10
      <4> QED BY <1>9, <3>2, <4>1
    <3>3. Ended(stages'[s]) /\ s # t => stages'[s].end # stages'[t].end
      <4>1. CASE s = c BY <1>11, <3>5, <4>1
      <4>2. CASE s # c /\ t = c BY <1>11, <3>5, <4>2
      <4>3. CASE s # c /\ t # c BY <1>9, <1>18, <4>3
      <4> QED BY <4>1, <4>2, <4>3
    <3>4. Ended(stages'[s]) /\ stages'[t].orphan => stages'[s].end # stages'[t].start
      <4>1. CASE s = c BY <1>10, <1>11, <1>14, <4>1
      <4>2. CASE s # c BY <1>9, <1>14, <1>18, <4>2
      <4> QED BY <4>1, <4>2
    <3> QED BY <3>1, <3>3, <3>4
  <2> QED BY <1>9, <2>1, <2>2 DEF StagesAreMarked, Marks, Ended, Correlates, Marker
<1>21. MarksAreStaged'
  <2> SUFFICES ASSUME NEW k \in DOMAIN records', Correlates(records'[k])
               PROVE  \E s \in DOMAIN stages' : stages'[s].start = k \/ stages'[s].end = k
    BY DEF MarksAreStaged, Correlates, Marker
  <2>1. CASE k \in 1..n
    <3>1. PICK s \in DOMAIN stages : stages[s].start = k \/ stages[s].end = k
      BY <2>1 DEF StagesInv, MarksAreStaged, Reads
    <3>2. s = c => stages[s].end # k BY <1>8, <2>1 DEF Ended, NotEnded
    <3> QED BY <1>9, <1>14, <3>1, <3>2
  <2>2. CASE k = n + 1
    BY <1>7, <1>9, <1>11, <2>2
  <2> QED BY <2>1, <2>2 DEF Reads
<1>22. StagesNest'
  <2> SUFFICES ASSUME NEW s \in DOMAIN stages, Ended(stages'[s])
               PROVE  /\ stages'[s].start < stages'[s].end
                      /\ Same(records'[stages'[s].start], records'[stages'[s].end])
                      /\ \A t \in DOMAIN stages :
                           /\ KeyOwn(records'[stages'[t].start]) = KeyOwn(records'[stages'[s].start])
                           /\ stages'[s].start < stages'[t].start
                           /\ stages'[t].start < stages'[s].end
                           /\ records'[stages'[s].start].iteration # None
                           => Ended(stages'[t]) /\ stages'[t].end < stages'[s].end
    BY <1>9 DEF StagesNest, Ended, Same, KeyOwn
  <2>1. CASE s = c
    <3>1. stages'[s].start < stages'[s].end BY <1>10, <1>11, <1>14, <2>1
    <3>2. Same(records'[stages'[s].start], records'[stages'[s].end])
      <4>1. records'[stages'[s].start] = records[stages[c].start] BY <1>7, <1>14, <2>1
      <4>2. records'[stages'[s].end] = r BY <1>10, <1>11, <2>1
      <4> QED BY <1>2, <1>7, <4>1, <4>2 DEF Same, OpensUnder
    <3>3. ASSUME NEW t \in DOMAIN stages,
                 KeyOwn(records[stages[t].start]) = KeyOwn(records[stages[c].start]),
                 stages[c].start < stages[t].start,
                 records[stages[c].start].iteration # None
          PROVE  Ended(stages'[t]) /\ stages'[t].end < n + 1
      <4>1. t # c BY <1>10, <1>14, <3>3
      <4>2. CASE Ended(stages[t]) BY <1>9, <1>10, <1>14, <4>1, <4>2
      <4>3. CASE ~Ended(stages[t]) /\ stages[t].orphan
        <5>1. stages[t].start < stages[c].start
          BY <1>7, <3>3, <4>3 DEF StagesInv, OrphansAreOutside
        <5>2. stages[t].start \in Nat /\ stages[c].start \in Nat BY <1>7, <1>10, <1>14
        <5> QED BY <3>3, <5>1, <5>2
      <4>4. CASE OpenStage(t)
        <5> DEFINE key1 == Key(records[stages[c].start])
        <5>1. key1 \in Keys /\ \E i \in DOMAIN opening[key1] : opening[key1][i] = t
          BY <3>3, <4>4, OnItsStack
        <5>2. key1 \in Keys /\ \E i \in DOMAIN opening[key1] : opening[key1][i] = c
          BY <1>7, <3>3, OnItsStack
        <5> HIDE DEF key1
        <5>3. key1 = key0 BY <1>2, <1>4, <1>6, <5>2, Stacked
        <5>4. PICK i \in DOMAIN opening[key0] : opening[key0][i] = t BY <5>1, <5>3
        <5>5. i \in 1..p /\ i # p BY <1>4, <4>1, <5>4
        <5>6. i < p BY <1>4, <5>5
        <5>7. t < c BY <1>2, <1>4, <1>6, <5>4, <5>6, Stacked
        <5>8. stages[t].start < stages[c].start BY <1>7, <1>18, <5>7
        <5> QED BY <1>10, <1>14, <1>7, <3>3, <5>8
      <4> QED BY <4>2, <4>3, <4>4 DEF OpenStage
    <3>4. \A t \in DOMAIN stages :
            /\ records'[stages'[t].start] = records[stages[t].start]
            /\ stages'[t].start = stages[t].start
      BY <1>14
    <3> QED BY <1>7, <1>11, <2>1, <3>1, <3>2, <3>3, <3>4
  <2>2. CASE s # c
    <3>1. stages'[s] = stages[s] /\ Ended(stages[s]) BY <1>9, <2>2
    <3>2. /\ stages[s].start < stages[s].end
          /\ Same(records[stages[s].start], records[stages[s].end])
          /\ \A t \in DOMAIN stages :
               /\ KeyOwn(records[stages[t].start]) = KeyOwn(records[stages[s].start])
               /\ stages[s].start < stages[t].start
               /\ stages[t].start < stages[s].end
               /\ records[stages[s].start].iteration # None
               => Ended(stages[t]) /\ stages[t].end < stages[s].end
      BY <3>1 DEF StagesInv, StagesNest
    <3>3. \A t \in DOMAIN stages : t = c \/ stages'[t] = stages[t] BY <1>9
    <3> QED BY <1>8, <1>14, <3>1, <3>2, <3>3
  <2> QED BY <2>1, <2>2
<1>23. OrphansAreOutside'
  <2> SUFFICES ASSUME NEW s \in DOMAIN stages, NEW o \in DOMAIN stages,
                      ~stages'[s].orphan, ~Ended(stages'[s]), stages'[o].orphan,
                      KeyOwn(records'[stages'[s].start]) = KeyOwn(records'[stages'[o].start]),
                      records'[stages'[s].start].iteration # None
               PROVE  stages'[o].start < stages'[s].start
    BY <1>9 DEF OrphansAreOutside, OpenStage, Ended, KeyOwn
  <2>1. s # c BY <1>12
  <2>2. OpenStage(s) BY <1>9, <2>1 DEF OpenStage
  <2>3. stages[o].orphan BY <1>14
  <2>4. /\ records'[stages'[s].start] = records[stages[s].start]
        /\ records'[stages'[o].start] = records[stages[o].start]
    BY <1>14
  <2>5. stages[o].start < stages[s].start
    BY <2>2, <2>3, <2>4 DEF StagesInv, OrphansAreOutside
  <2> QED BY <1>14, <2>5
<1> QED BY <1>13, <1>17, <1>20, <1>21, <1>22, <1>23 DEF StagesKept, Stage

(***************************************************************************)
(* iterate_loop_runs.                                                      *)
(***************************************************************************)
Run == [start: Nat, end: Nat, sleeps: Seq(Nat), stages: Seq(Nat)]

RunsInv == TypeOK /\ RunsAreRead /\ RunsAreDisjoint

RunsKept ==
  /\ runs' \in Seq(Run) /\ open' \in BOOLEAN
  /\ RunsAreRead' /\ RunsAreDisjoint'

\* The runs so far, with n records read.
LEMMA RunsSoFar ==
  ASSUME RunsInv, NEW n, NEW r, Reads(r, n)
  PROVE  /\ runs \in Seq(Run) /\ Len(runs) \in Nat /\ DOMAIN runs = 1..Len(runs)
         /\ n \in Nat /\ (open => Len(runs) \in DOMAIN runs /\ ~Ended(runs[Len(runs)]))
         /\ \A i \in DOMAIN runs :
              /\ runs[i] \in Run /\ runs[i].start \in 1..n
              /\ Ended(runs[i]) => runs[i].end \in 1..n
              /\ runs[i].stages \in Seq(Nat)
              /\ \A k \in DOMAIN runs[i].stages :
                   runs[i].stages[k] \in 1..n /\ runs[i].start < runs[i].stages[k]
<1>1. runs \in Seq(Run) BY DEF RunsInv, TypeOK, Run
<1>2. DOMAIN records = 1..n /\ n \in Nat BY DEF Reads
<1>3. Len(runs) \in Nat /\ DOMAIN runs = 1..Len(runs) BY <1>1
<1>4. open => Len(runs) \in DOMAIN runs /\ ~Ended(runs[Len(runs)])
  BY <1>1, <1>3 DEF RunsInv, RunsAreRead
<1>5. \A i \in DOMAIN runs : runs[i] \in Run BY <1>1
<1>6. \A i \in DOMAIN runs : runs[i].stages \in Seq(Nat) BY <1>5 DEF Run
<1>7. \A i \in DOMAIN runs :
        /\ runs[i].start \in 1..n
        /\ Ended(runs[i]) => runs[i].end \in 1..n
        /\ \A k \in DOMAIN runs[i].stages :
             runs[i].stages[k] \in 1..n /\ runs[i].start < runs[i].stages[k]
  BY <1>2 DEF RunsInv, RunsAreRead, RunsAreDisjoint
<1> QED BY <1>1, <1>2, <1>3, <1>4, <1>5, <1>6, <1>7

LEMMA RunsDisjointNow ==
  ASSUME RunsInv
  PROVE  \A i \in DOMAIN runs :
           /\ \A k \in DOMAIN runs[i].stages :
                /\ Ended(runs[i]) => runs[i].stages[k] < runs[i].end
                /\ i < Len(runs) => runs[i].stages[k] < runs[i + 1].start
           /\ i < Len(runs) /\ Ended(runs[i]) => runs[i].end < runs[i + 1].start
  BY DEF RunsInv, RunsAreDisjoint

LEMMA LoopPassedKeeps ==
  ASSUME RunsInv, NEW n, NEW r, Reads(r, n), UNCHANGED <<runs, open>>
  PROVE  RunsKept
<1>1. DOMAIN records \subseteq DOMAIN records' BY DEF Reads
<1>2. RunsAreRead' BY <1>1 DEF RunsInv, RunsAreRead, Ended
<1>3. RunsAreDisjoint' BY DEF RunsInv, RunsAreDisjoint, Ended
<1> QED BY <1>2, <1>3 DEF RunsKept, RunsInv, TypeOK, Run

LEMMA LoopIniKeeps ==
  ASSUME RunsInv, NEW n, NEW r, Reads(r, n), LoopIni(r)
  PROVE  RunsKept
<1> DEFINE q == Len(runs)
           new == [start |-> n + 1, end |-> NotEnded, sleeps |-> <<>>, stages |-> <<>>]
<1>1. runs' = Append(runs, new) /\ open' = TRUE BY DEF LoopIni, Reads
<1>2. /\ runs \in Seq(Run) /\ q \in Nat /\ DOMAIN runs = 1..q /\ n \in Nat
      /\ \A i \in DOMAIN runs :
           /\ runs[i] \in Run /\ runs[i].start \in 1..n
           /\ Ended(runs[i]) => runs[i].end \in 1..n
           /\ \A k \in DOMAIN runs[i].stages :
                runs[i].stages[k] \in 1..n /\ runs[i].start < runs[i].stages[k]
  BY RunsSoFar
<1>3. new \in Run BY <1>2 DEF Run, NotEnded
<1>4. new.start = n + 1 /\ ~Ended(new) /\ DOMAIN new.stages = {} BY DEF Ended
<1> HIDE DEF new
<1>5. /\ runs' \in Seq(Run) /\ DOMAIN runs' = 1..(q + 1) /\ runs'[q + 1] = new
      /\ \A i \in 1..q : runs'[i] = runs[i]
  BY <1>1, <1>2, <1>3, AppendFacts
<1>6. Len(runs') = q + 1 BY <1>2, <1>5
<1> HIDE DEF q
<1>7. 1..n \subseteq DOMAIN records' /\ n + 1 \in DOMAIN records' BY DEF Reads
<1>8. \A i \in 1..(q + 1) : i \in 1..q \/ i = q + 1 BY <1>2
<1>9. RunsAreRead'
  <2>1. runs' # <<>> /\ ~Ended(runs'[Len(runs')]) BY <1>2, <1>4, <1>5, <1>6
  <2>2. ASSUME NEW i \in DOMAIN runs'
        PROVE  /\ runs'[i].start \in DOMAIN records'
               /\ Ended(runs'[i]) => runs'[i].end \in DOMAIN records'
               /\ \A k \in DOMAIN runs'[i].stages : runs'[i].stages[k] \in DOMAIN records'
    <3>1. CASE i \in 1..q
      <4>1. runs'[i] = runs[i] /\ i \in DOMAIN runs BY <1>2, <1>5, <3>1
      <4> QED BY <1>2, <1>7, <4>1
    <3>2. CASE i = q + 1 BY <1>4, <1>5, <1>7, <3>2
    <3> QED BY <1>5, <1>8, <3>1, <3>2
  <2> QED BY <2>1, <2>2 DEF RunsAreRead, Ended
<1>10. RunsAreDisjoint'
  <2>1. ASSUME NEW i \in DOMAIN runs'
        PROVE  /\ \A k \in DOMAIN runs'[i].stages :
                    /\ runs'[i].start < runs'[i].stages[k]
                    /\ Ended(runs'[i]) => runs'[i].stages[k] < runs'[i].end
                    /\ i < q + 1 => runs'[i].stages[k] < runs'[i + 1].start
               /\ i < q + 1 /\ Ended(runs'[i]) => runs'[i].end < runs'[i + 1].start
    <3>1. CASE i \in 1..q
      <4>1. runs'[i] = runs[i] /\ i \in DOMAIN runs BY <1>2, <1>5, <3>1
      <4>2. \/ i < q /\ i + 1 \in 1..q /\ runs'[i + 1] = runs[i + 1]
            \/ i = q /\ runs'[i + 1].start = n + 1
        BY <1>2, <1>4, <1>5, <3>1
      <4>3. ASSUME NEW k \in DOMAIN runs[i].stages
            PROVE  /\ runs[i].start < runs[i].stages[k]
                   /\ Ended(runs[i]) => runs[i].stages[k] < runs[i].end
                   /\ runs[i].stages[k] < runs'[i + 1].start
        <5>1. runs[i].stages[k] \in 1..n /\ runs[i].start < runs[i].stages[k]
          BY <1>2, <4>1
        <5>2. /\ Ended(runs[i]) => runs[i].stages[k] < runs[i].end
              /\ i < q => runs[i].stages[k] < runs[i + 1].start
          BY <4>1, RunsDisjointNow DEF q
        <5>3. runs[i].stages[k] < n + 1 BY <1>2, <5>1
        <5> QED BY <4>2, <5>1, <5>2, <5>3
      <4>4. Ended(runs[i]) => runs[i].end < runs'[i + 1].start
        <5>1. Ended(runs[i]) => runs[i].end < n + 1 BY <1>2, <4>1
        <5>2. i < q /\ Ended(runs[i]) => runs[i].end < runs[i + 1].start
          BY <4>1, RunsDisjointNow DEF q
        <5> QED BY <4>2, <5>1, <5>2
      <4> QED BY <4>1, <4>3, <4>4
    <3>2. CASE i = q + 1
      <4>1. ~(i < q + 1) BY <1>2, <3>2
      <4> QED BY <1>4, <1>5, <3>2, <4>1
    <3> QED BY <1>5, <1>8, <3>1, <3>2
  <2> QED BY <1>6, <2>1 DEF RunsAreDisjoint, Ended
<1> QED BY <1>1, <1>5, <1>9, <1>10 DEF RunsKept

\* The last run is changed: it ends with the record, or takes it as a stage.
LEMMA LastRunKeeps ==
  ASSUME RunsInv, NEW n, NEW r, Reads(r, n), LoopFin(r) \/ LoopStage(r)
  PROVE  RunsKept
<1> DEFINE q == Len(runs)
<1>1. /\ runs \in Seq(Run) /\ q \in Nat /\ DOMAIN runs = 1..q /\ n \in Nat
      /\ open /\ q \in DOMAIN runs /\ ~Ended(runs[q])
  BY RunsSoFar DEF LoopFin, LoopStage, Collects
<1>2. \A i \in DOMAIN runs :
        /\ runs[i] \in Run /\ runs[i].start \in 1..n
        /\ Ended(runs[i]) => runs[i].end \in 1..n
        /\ runs[i].stages \in Seq(Nat)
        /\ \A k \in DOMAIN runs[i].stages :
             runs[i].stages[k] \in 1..n /\ runs[i].start < runs[i].stages[k]
  BY RunsSoFar
<1>3. DOMAIN runs' = 1..q /\ (\A i \in 1..q : i # q => runs'[i] = runs[i])
  BY <1>1 DEF LoopFin, LoopStage
<1>4. /\ runs'[q] \in Run /\ runs'[q].start = runs[q].start
      /\ open' => ~Ended(runs'[q])
      /\ Ended(runs'[q]) => runs'[q].end = n + 1 /\ runs'[q].stages = runs[q].stages
      /\ \A k \in DOMAIN runs'[q].stages :
           \/ k \in DOMAIN runs[q].stages /\ runs'[q].stages[k] = runs[q].stages[k]
           \/ runs'[q].stages[k] = n + 1
  <2>1. runs[q] \in Run /\ runs[q].stages \in Seq(Nat) /\ n + 1 \in Nat BY <1>1, <1>2
  <2>2. CASE LoopFin(r)
    <3>1. runs'[q] = [runs[q] EXCEPT !.end = n + 1] /\ ~open'
      BY <1>1, <2>2 DEF LoopFin, Reads
    <3> HIDE DEF q
    <3>2. /\ runs'[q] \in Run /\ runs'[q].start = runs[q].start
          /\ runs'[q].end = n + 1 /\ runs'[q].stages = runs[q].stages
      BY <2>1, <3>1 DEF Run
    <3> QED BY <3>1, <3>2
  <2>3. CASE LoopStage(r)
    <3>1. runs'[q] = [runs[q] EXCEPT !.stages = Append(runs[q].stages, n + 1)]
      BY <1>1, <2>3 DEF LoopStage, Reads
    <3> HIDE DEF q
    <3>2. /\ Append(runs[q].stages, n + 1) \in Seq(Nat)
          /\ DOMAIN Append(runs[q].stages, n + 1) = 1..(Len(runs[q].stages) + 1)
          /\ DOMAIN runs[q].stages = 1..Len(runs[q].stages) /\ Len(runs[q].stages) \in Nat
          /\ Append(runs[q].stages, n + 1)[Len(runs[q].stages) + 1] = n + 1
          /\ \A k \in 1..Len(runs[q].stages) :
               Append(runs[q].stages, n + 1)[k] = runs[q].stages[k]
      BY <2>1, AppendFacts
    <3>3. /\ runs'[q] \in Run /\ runs'[q].start = runs[q].start
          /\ runs'[q].end = runs[q].end /\ runs'[q].stages = Append(runs[q].stages, n + 1)
      BY <2>1, <3>1, <3>2 DEF Run
    <3>4. ~Ended(runs'[q]) BY <1>1, <3>3 DEF Ended, q
    <3>5. ASSUME NEW k \in DOMAIN runs'[q].stages
          PROVE  \/ k \in DOMAIN runs[q].stages /\ runs'[q].stages[k] = runs[q].stages[k]
                 \/ runs'[q].stages[k] = n + 1
      <4> DEFINE l == Len(runs[q].stages)
      <4>1. k \in 1..(l + 1) /\ l \in Nat BY <3>2, <3>3
      <4> HIDE DEF l
      <4>2. k \in 1..l \/ k = l + 1 BY <4>1
      <4> QED BY <3>2, <3>3, <4>2 DEF l
    <3> QED BY <3>3, <3>4, <3>5
  <2> QED BY <2>2, <2>3
<1>5. Len(runs') = q /\ runs' \in Seq(Run)
  <2> HIDE DEF q
  <2>1. \A i \in 1..q : runs'[i] \in Run BY <1>1, <1>2, <1>3, <1>4
  <2>2. runs' = [i \in DOMAIN runs |-> runs'[i]] BY <1>1 DEF LoopFin, LoopStage
  <2>3. runs' \in [1..q -> Run] BY <1>1, <2>1, <2>2
  <2> QED BY <1>1, <2>3
<1> HIDE DEF q
<1>6. 1..n \subseteq DOMAIN records' /\ n + 1 \in DOMAIN records' BY DEF Reads
<1>7. RunsAreRead'
  <2>1. open' => runs' # <<>> /\ ~Ended(runs'[Len(runs')])
    BY <1>1, <1>3, <1>4, <1>5
  <2>2. ASSUME NEW i \in 1..q
        PROVE  /\ runs'[i].start \in DOMAIN records'
               /\ Ended(runs'[i]) => runs'[i].end \in DOMAIN records'
               /\ \A k \in DOMAIN runs'[i].stages : runs'[i].stages[k] \in DOMAIN records'
    <3>1. CASE i # q BY <1>1, <1>2, <1>3, <1>6, <3>1
    <3>2. CASE i = q BY <1>1, <1>2, <1>4, <1>6, <3>2
    <3> QED BY <3>1, <3>2
  <2> QED BY <1>3, <2>1, <2>2 DEF RunsAreRead, Ended
<1>8. RunsAreDisjoint'
  <2>1. ASSUME NEW i \in 1..q
        PROVE  /\ \A k \in DOMAIN runs'[i].stages :
                    /\ runs'[i].start < runs'[i].stages[k]
                    /\ Ended(runs'[i]) => runs'[i].stages[k] < runs'[i].end
                    /\ i < q => runs'[i].stages[k] < runs'[i + 1].start
               /\ i < q /\ Ended(runs'[i]) => runs'[i].end < runs'[i + 1].start
    <3>1. CASE i # q
      <4>1. /\ i < q /\ i + 1 \in 1..q /\ i \in DOMAIN runs
            /\ runs'[i] = runs[i] /\ runs'[i + 1].start = runs[i + 1].start
        BY <1>1, <1>3, <1>4, <3>1
      <4>2. /\ \A k \in DOMAIN runs[i].stages :
                 /\ Ended(runs[i]) => runs[i].stages[k] < runs[i].end
                 /\ runs[i].stages[k] < runs[i + 1].start
            /\ Ended(runs[i]) => runs[i].end < runs[i + 1].start
        BY <4>1, RunsDisjointNow DEF q
      <4> QED BY <1>2, <4>1, <4>2
    <3>2. CASE i = q
      <4>1. ASSUME NEW k \in DOMAIN runs'[q].stages
            PROVE  /\ runs'[q].start < runs'[q].stages[k]
                   /\ Ended(runs'[q]) => runs'[q].stages[k] < runs'[q].end
        <5>1. runs[q].start \in 1..n BY <1>1, <1>2
        <5>2. CASE k \in DOMAIN runs[q].stages /\ runs'[q].stages[k] = runs[q].stages[k]
          <6>1. runs[q].stages[k] \in 1..n /\ runs[q].start < runs[q].stages[k]
            BY <1>1, <1>2, <5>2
          <6>2. runs[q].stages[k] < n + 1 BY <1>1, <6>1
          <6> QED BY <1>4, <5>2, <6>1, <6>2
        <5>3. CASE runs'[q].stages[k] = n + 1 /\ ~Ended(runs'[q])
          <6>1. runs[q].start < n + 1 BY <1>1, <5>1
          <6> QED BY <1>4, <5>3, <6>1
        <5>4. CASE Ended(runs'[q])
          <6>1. k \in DOMAIN runs[q].stages /\ runs'[q].stages[k] = runs[q].stages[k]
            BY <1>4, <5>4
          <6> QED BY <5>2, <6>1
        <5> QED BY <1>4, <5>2, <5>3, <5>4
      <4>2. ~(i < q) BY <1>1, <3>2
      <4> QED BY <3>2, <4>1, <4>2
    <3> QED BY <3>1, <3>2
  <2> QED BY <1>3, <1>5, <2>1 DEF RunsAreDisjoint, Ended
<1>9. open' \in BOOLEAN BY <1>1 DEF LoopFin, LoopStage
<1> QED BY <1>5, <1>7, <1>8, <1>9 DEF RunsKept

(***************************************************************************)
(* A record is read by all passes.                                         *)
(***************************************************************************)
LEMMA ReadKeeps ==
  ASSUME ReportInv, NEW r \in Events, Read(r)
  PROVE  /\ TypeOK' /\ StacksHoldOpenStages' /\ StagesAreMarked' /\ MarksAreStaged'
         /\ StagesNest' /\ OrphansAreOutside' /\ RunsAreRead' /\ RunsAreDisjoint'
<1>1. StagesInv /\ RunsInv BY DEF ReportInv, StagesInv, RunsInv
<1> DEFINE n == Len(records)
<1>2. Reads(r, n) BY ReadReads DEF Read, ReportInv
<1> HIDE DEF n
<1>3. StagesKept'
  BY <1>1, <1>2, IniKeeps, OrphanFinKeeps, FinKeeps, PassedKeeps DEF Read
<1>4. RunsKept
  <2>1. CASE LoopPassed(r) BY <1>1, <1>2, <2>1, LoopPassedKeeps DEF LoopPassed
  <2> QED BY <1>1, <1>2, <2>1, LoopIniKeeps, LastRunKeeps DEF Read
<1>5. TypeOK'
  <2>1. records' \in Seq(Events) BY <1>2 DEF Reads
  <2>2. stages' \in Seq([start: Nat, end: Nat, orphan: BOOLEAN])
    <3>1. CASE Ini(r)
      BY <1>1, <1>2, <3>1, StageOpens DEF Ini, Reads, Opens, StagesInv
    <3>2. CASE OrphanFin(r)
      BY <1>1, <1>2, <3>2, StageOpens DEF OrphanFin, Reads, Opens, StagesInv
    <3>3. CASE Fin(r) BY <1>1, <1>2, <3>3, FinKeeps
    <3>4. CASE Passed(r) BY <1>1, <3>4 DEF Passed, StagesInv, TypeOK
    <3> QED BY <3>1, <3>2, <3>3, <3>4 DEF Read
  <2>3. opening' \in [Keys -> Seq(Nat)]
    <3> DEFINE key0 == Key(r)
    <3>1. opening \in [Keys -> Seq(Nat)] BY <1>1 DEF StagesInv, TypeOK
    <3>2. CASE Correlates(r)
      <4>1. key0 \in Keys BY <1>1, <3>2, KeyIsOwn DEF StagesInv
      <4>2. opening[key0] \in Seq(Nat) BY <3>1, <4>1
      <4>3. CASE Ini(r)
        <5>1. Len(stages) + 1 \in Nat BY <1>1 DEF StagesInv, TypeOK
        <5>2. Append(opening[key0], Len(stages) + 1) \in Seq(Nat)
          BY <4>2, <5>1, AppendFacts
        <5>3. opening' = [opening EXCEPT ![key0] = Append(opening[key0], Len(stages) + 1)]
          BY <3>1, <4>1, <4>3 DEF Ini
        <5> HIDE DEF key0
        <5> QED BY <3>1, <5>2, <5>3
      <4>4. CASE Fin(r)
        <5>1. Front(opening[key0]) \in Seq(Nat) BY <4>2, <4>4, FrontFacts DEF Fin
        <5>2. opening' = [opening EXCEPT ![key0] = Front(opening[key0])]
          BY <3>1, <4>1, <4>4 DEF Fin, StackAfterFin
        <5> HIDE DEF key0
        <5> QED BY <3>1, <5>1, <5>2
      <4> QED BY <3>1, <3>2, <4>3, <4>4 DEF Read, OrphanFin, Passed
    <3>3. CASE ~Correlates(r)
      BY <3>1, <3>3 DEF Read, Ini, OrphanFin, Fin, Passed
    <3> QED BY <3>2, <3>3
  <2>4. context' \in Iterations \cup {None}
    <3>1. r.iteration \in Iterations \cup {None} BY LifecycleAssumption DEF EventFacts
    <3> QED BY <1>1, <3>1 DEF Read, ContextAfter, StagesInv, TypeOK
  <2> QED BY <1>4, <2>1, <2>2, <2>3, <2>4 DEF TypeOK, RunsKept, Run
<1> QED BY <1>3, <1>4, <1>5 DEF StagesKept, RunsKept

LEMMA ReportBegins == ReportInit => ReportInv
<1> SUFFICES ASSUME ReportInit PROVE ReportInv OBVIOUS
<1> USE DEF ReportInit, Init
<1>0. opening \in [Keys -> Seq(Nat)]
  <2>1. <<>> \in Seq(Nat) OBVIOUS
  <2> QED BY <2>1
<1>1. /\ records \in Seq(Events) /\ drafts \in Seq(DraftFacts)
      /\ stages \in Seq([start: Nat, end: Nat, orphan: BOOLEAN])
      /\ runs \in Seq(Run)
  <2>1. \A S : <<>> \in Seq(S) OBVIOUS
  <2> QED BY <2>1
<1>3. TypeOK
  <2>1. context \in Iterations \cup {None} /\ open \in BOOLEAN OBVIOUS
  <2> QED BY <1>0, <1>1, <2>1 DEF TypeOK, Run
<1>2. DOMAIN stages = {} /\ DOMAIN runs = {} /\ DOMAIN records = {}
      /\ \A key \in Keys : DOMAIN opening[key] = {}
  OBVIOUS
<1> QED BY <1>1, <1>2, <1>3
  DEF ReportInv, StacksHoldOpenStages, StackedAreOpen, StackedInOrder, StackedOnce,
      OpenAreStacked, StagesAreMarked, MarksAreStaged, StagesNest,
      OrphansAreOutside, RunsAreRead, RunsAreDisjoint

LEMMA ReportStep == ReportInv /\ [ReportNext]_reportVars => ReportInv'
<1> SUFFICES ASSUME ReportInv, [ReportNext]_reportVars PROVE ReportInv' OBVIOUS
<1>1. ASSUME NEW r \in Records, ReadRecord(r) PROVE ReportInv'
  <2>1. r.event \in Events /\ r.draft \in DraftFacts BY ReportAssumption
  <2>2. drafts' \in Seq(DraftFacts) BY <1>1, <2>1, AppendFacts DEF ReadRecord, ReportInv
  <2>3. Read(r.event) BY <1>1 DEF ReadRecord
  <2> QED BY <2>1, <2>2, <2>3, ReadKeeps DEF ReportInv
<1>2. CASE UNCHANGED reportVars
  <2> USE <1>2 DEF reportVars, vars
  <2>1. TypeOK' /\ (drafts \in Seq(DraftFacts))' BY DEF ReportInv, TypeOK
  <2>0. StackedAreOpen /\ StackedInOrder /\ StackedOnce /\ OpenAreStacked
    BY DEF ReportInv, StacksHoldOpenStages
  <2>6. StackedAreOpen' BY <2>0 DEF StackedAreOpen, OpenStage, Ended, OpensUnder
  <2>7. StackedInOrder' /\ StackedOnce' BY <2>0 DEF StackedInOrder, StackedOnce
  <2>8. OpenAreStacked' BY <2>0 DEF OpenAreStacked, OpenStage, Ended
  <2>2. StacksHoldOpenStages' /\ OrphansAreOutside'
    BY <2>6, <2>7, <2>8
    DEF ReportInv, StacksHoldOpenStages, OrphansAreOutside, OpenStage, Ended, KeyOwn
  <2>3. StagesAreMarked' /\ MarksAreStaged'
    BY DEF ReportInv, StagesAreMarked, MarksAreStaged, Marks, Ended, Correlates, Marker
  <2>4. StagesNest' BY DEF ReportInv, StagesNest, Ended, Same, KeyOwn
  <2>5. RunsAreRead' /\ RunsAreDisjoint' BY DEF ReportInv, RunsAreRead, RunsAreDisjoint, Ended
  <2> QED BY <2>1, <2>2, <2>3, <2>4, <2>5 DEF ReportInv
<1> QED BY <1>1, <1>2 DEF ReportNext

(***************************************************************************)
(* The theorems.                                                           *)
(***************************************************************************)
\* Whatever a log of any length consists of, completed stages pair records of
\* one execution and nest: build_lifecycle, with what its stacks hold.
THEOREM ReportIsSafe == ReportSpec => []ReportInv
  BY ReportBegins, ReportStep, PTL DEF ReportSpec

\* Every stage lies in one iteration of the loop at most: iterate_loop_runs.
THEOREM RunsKeepApart == ReportSpec => []RunsAreDisjoint
<1>1. ReportInv => RunsAreDisjoint BY DEF ReportInv
<1> QED BY <1>1, ReportIsSafe, PTL

LEMMA MarksCount == ReportInv => EveryMarkCountsOnce
<1> SUFFICES ASSUME ReportInv, NEW n \in DOMAIN records
             PROVE  LET starts == {s \in DOMAIN stages : stages[s].start = n /\ ~stages[s].orphan}
                        ends == {s \in DOMAIN stages : stages[s].end = n}
                        orphans == {s \in DOMAIN stages : stages[s].start = n /\ stages[s].orphan}
                        r == records[n]
                    IN /\ Cardinality(starts) = IF Correlates(r) /\ r.written = "INI" THEN 1 ELSE 0
                       /\ Cardinality(ends) + Cardinality(orphans) =
                            IF Correlates(r) /\ r.written = "FIN" THEN 1 ELSE 0
  BY DEF EveryMarkCountsOnce
<1> DEFINE starts == {s \in DOMAIN stages : stages[s].start = n /\ ~stages[s].orphan}
           ends == {s \in DOMAIN stages : stages[s].end = n}
           orphans == {s \in DOMAIN stages : stages[s].start = n /\ stages[s].orphan}
           r == records[n]
<1>1. Cardinality({}) = 0 /\ \A s : Cardinality({s}) = 1
  BY FS_EmptySet, FS_Singleton
<1>2. /\ \A s \in DOMAIN stages :
           /\ Marks(stages[s].start, IF stages[s].orphan THEN "FIN" ELSE "INI")
           /\ Ended(stages[s]) => ~stages[s].orphan /\ Marks(stages[s].end, "FIN")
      /\ \A s, t \in DOMAIN stages :
           /\ s < t => stages[s].start < stages[t].start
           /\ Ended(stages[s]) /\ s # t => stages[s].end # stages[t].end
           /\ Ended(stages[s]) /\ stages[t].orphan => stages[s].end # stages[t].start
  BY DEF ReportInv, StagesAreMarked
<1>3. n \in Nat \ {0} /\ \A s \in DOMAIN stages : s \in Nat /\ stages[s].start \in Nat
  <2> DEFINE Stage == [start: Nat, end: Nat, orphan: BOOLEAN]
  <2>1. records \in Seq(Events) /\ stages \in Seq(Stage) BY DEF ReportInv, TypeOK
  <2>2. \A x \in Stage : x.start \in Nat OBVIOUS
  <2> HIDE DEF Stage
  <2>3. n \in Nat \ {0} BY <2>1
  <2> QED BY <2>1, <2>2, <2>3
<1>4. \A s \in DOMAIN stages : stages[s].end = n => Ended(stages[s])
  BY <1>3 DEF Ended, NotEnded
<1>5. \A s, t \in DOMAIN stages : stages[s].start = n /\ stages[t].start = n => s = t
  <2> SUFFICES ASSUME NEW s \in DOMAIN stages, NEW t \in DOMAIN stages,
                      stages[s].start = n, stages[t].start = n
               PROVE  s = t
    OBVIOUS
  <2>1. ~(s < t) /\ ~(t < s) BY <1>2, <1>3
  <2> QED BY <1>3, <2>1
<1>6. \A s, t \in DOMAIN stages : stages[s].end = n /\ stages[t].end = n => s = t
  BY <1>2, <1>4
<1>7. \A s \in DOMAIN stages :
        /\ s \in starts => Correlates(r) /\ r.written = "INI"
        /\ s \in orphans => Correlates(r) /\ r.written = "FIN"
        /\ s \in ends => Correlates(r) /\ r.written = "FIN"
  BY <1>2, <1>4 DEF Marks
<1>8. Correlates(r) => \E s \in DOMAIN stages : s \in starts \/ s \in ends \/ s \in orphans
  BY DEF ReportInv, MarksAreStaged
<1>9. \A s \in ends, t \in orphans : FALSE
  BY <1>2, <1>4
<1>10. /\ \A s, t \in starts : s = t
       /\ \A s, t \in ends : s = t
       /\ \A s, t \in orphans : s = t
       /\ starts \subseteq DOMAIN stages /\ ends \subseteq DOMAIN stages
       /\ orphans \subseteq DOMAIN stages
  BY <1>5, <1>6
<1> HIDE DEF starts, ends, orphans, r
<1>11. Cardinality(starts) = IF Correlates(r) /\ r.written = "INI" THEN 1 ELSE 0
  <2>1. CASE Correlates(r) /\ r.written = "INI"
    <3>1. PICK s \in starts : TRUE BY <1>7, <1>8, <2>1
    <3>2. starts = {s} BY <1>10
    <3> QED BY <1>1, <2>1, <3>2
  <2>2. CASE ~(Correlates(r) /\ r.written = "INI")
    <3>1. starts = {} BY <1>7, <1>10, <2>2
    <3> QED BY <1>1, <2>2, <3>1
  <2> QED BY <2>1, <2>2
<1>12. Cardinality(ends) + Cardinality(orphans) =
         IF Correlates(r) /\ r.written = "FIN" THEN 1 ELSE 0
  <2>1. CASE Correlates(r) /\ r.written = "FIN"
    <3>1. CASE ends # {}
      <4>1. PICK s \in ends : TRUE BY <3>1
      <4>2. ends = {s} /\ orphans = {} BY <1>9, <1>10
      <4>3. Cardinality(ends) = 1 /\ Cardinality(orphans) = 0 BY <1>1, <4>2
      <4> QED BY <2>1, <4>3
    <3>2. CASE ends = {}
      <4>1. PICK s \in orphans : TRUE BY <1>7, <1>8, <2>1, <3>2
      <4>2. orphans = {s} BY <1>10
      <4>3. Cardinality(ends) = 0 /\ Cardinality(orphans) = 1 BY <1>1, <3>2, <4>2
      <4> QED BY <2>1, <4>3
    <3> QED BY <3>1, <3>2
  <2>2. CASE ~(Correlates(r) /\ r.written = "FIN")
    <3>1. ends = {} /\ orphans = {} BY <1>7, <1>10, <2>2
    <3> QED BY <1>1, <2>2, <3>1
  <2> QED BY <2>1, <2>2
<1> QED BY <1>11, <1>12 DEF starts, ends, orphans, r

\* "Duplicated INIs each hold their lifecycle stage": every INI starts one stage,
\* every FIN ends one or is one orphan, however often a key is repeated.
THEOREM MarksCountOnce == ReportSpec => []EveryMarkCountsOnce
  BY ReportIsSafe, MarksCount, PTL

\* More records never make the outcome of a log better.
LEMMA OutcomeGrows ==
  ASSUME NEW log, NEW more, log \subseteq more
  PROVE  Severity[Outcome(more)] >= Severity[Outcome(log)]
<1>1. /\ Severity["UNKNOWN"] = 0 /\ Severity["SUCCESS"] = 1
      /\ Severity["PARTIAL"] = 2 /\ Severity["FAILED"] = 3
  BY DEF Severity
<1>2. /\ TerminalMarks(log) \cup FatalMessages(log)
           \subseteq TerminalMarks(more) \cup FatalMessages(more)
      /\ ZeroRecordMarks(log) \subseteq ZeroRecordMarks(more)
      /\ FrameworkMarks(log) \subseteq FrameworkMarks(more)
  BY DEF TerminalMarks, FatalMessages, ZeroRecordMarks, FrameworkMarks
<1> QED BY <1>1, <1>2 DEF Outcome

\* The evidence hierarchy of derive_status_evidence is monotone: reading on never
\* takes back a failure or a partial load, in a log of any length.
THEOREM OutcomeIsMonotone == ReportSpec => OutcomeNeverImproves
<1>1. ReportInv /\ [ReportNext]_reportVars =>
        [Severity[Outcome(Log')] >= Severity[Outcome(Log)]]_reportVars
  <2> SUFFICES ASSUME ReportInv, ReportNext
               PROVE  Severity[Outcome(Log')] >= Severity[Outcome(Log)]
    OBVIOUS
  <2>1. PICK r \in Records : ReadRecord(r) BY DEF ReportNext
  <2>2. r.draft \in DraftFacts /\ drafts \in Seq(DraftFacts) BY ReportAssumption DEF ReportInv
  <2>3. drafts' = Append(drafts, r.draft) BY <2>1 DEF ReadRecord
  <2>4. \A i \in DOMAIN drafts : i \in DOMAIN drafts' /\ drafts'[i] = drafts[i]
    BY <2>2, <2>3
  <2>5. Log \subseteq Log' BY <2>4 DEF Log, ToSet
  <2> HIDE DEF Log
  <2> QED BY <2>5, OutcomeGrows
<1> QED BY <1>1, ReportIsSafe, PTL DEF ReportSpec, OutcomeNeverImproves

=============================================================================
