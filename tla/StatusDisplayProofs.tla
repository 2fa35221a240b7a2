------------------------- MODULE StatusDisplayProofs -------------------------
(***************************************************************************)
(* Proofs about StatusDisplay: for every number of log lines, any number   *)
(* of events and whatever the portal may report.                           *)
(***************************************************************************)
EXTENDS StatusDisplay, PanelProofs

(***************************************************************************)
(* The inductive invariants.                                               *)
(***************************************************************************)

\* The values of the topics, and the lines that are ever logged: what stands
\* for a topic is a value of it.
OnOff == BOOLEAN
Counts == (-1)..SKY_MAX_SLOTS
LogTexts ==
  {<<"boot">>} \cup {<<"lost", n>> : n \in Nat}
  \cup {<<"link", b>> : b \in OnOff} \cup {<<"usb", b>> : b \in OnOff}
  \cup {<<"figures", n>> : n \in Counts} \cup {<<"toy", n>> : n \in ToyIds}

\* The calls of dlog, and that each write that was lost was an event.
DlogInv ==
  /\ dlog \in [Tasks -> [at : {"idle", "format", "load", "store"},
                         line : {Blank} \cup LogTexts,
                         row : 0..(LogLines - 1), head : 0..(LogLines - 1)]]
  /\ \A t \in Tasks : ~idle(t) => dlog[t].line \in LogTexts
  /\ lines \in Seq({Blank} \cup LogTexts)
  /\ s_writes <= events

\* Without a race the task in dlog is alone there, holds the head it began with,
\* and has put its line where the oldest one was or will; the head follows.
Alone == \A t, u \in Tasks : t = u \/ idle(t) \/ idle(u)
RingInv ==
  ~raced =>
    /\ Alone
    /\ \A t \in Tasks : ~idle(t) => dlog[t].row = s_log_head
    /\ \A t \in Tasks : dlog[t].at = "store" => dlog[t].head = s_log_head
    /\ (\A t \in Tasks : dlog[t].at \in {"idle", "format"}) =>
         \A i \in 1..LogLines : s_log[LogRow(i - 1)] = lines[i]
    /\ (\E t \in Tasks : dlog[t].at \in {"load", "store"}) =>
         \A i \in 1..LogLines : s_log[LogRow(i)] = lines[i]

-----------------------------------------------------------------------------
(* The ring: the rows from the head on, which wrap once.                    *)
LEMMA RingFacts ==
  ASSUME NEW h \in 0..(LogLines - 1), NEW i \in 0..LogLines
  PROVE  /\ (h + i) % LogLines = IF h + i < LogLines THEN h + i ELSE h + i - LogLines
         /\ (h + i) % LogLines \in 0..(LogLines - 1)
  <1>1. LogLines \in Nat \ {0}
    BY LogAssumption
  <1>2. CASE h + i < LogLines
    <2>1. (h + i) % LogLines = h + i
      BY <1>1, <1>2
    <2> QED
      BY <1>1, <1>2, <2>1
  <1>3. CASE ~(h + i < LogLines)
    <2>1. (h + i) % LogLines = h + i - LogLines
      BY <1>1, <1>3
    <2> QED
      BY <1>1, <1>3, <2>1
  <1> QED
    BY <1>2, <1>3

(* With the head one row further, each row is one place nearer.             *)
LEMMA RingShift ==
  ASSUME NEW h \in 0..(LogLines - 1), NEW i \in 1..LogLines
  PROVE  (((h + 1) % LogLines) + (i - 1)) % LogLines = (h + i) % LogLines
  <1> DEFINE g == (h + 1) % LogLines
  <1>1. LogLines \in Nat \ {0} /\ 1 \in 0..LogLines /\ i - 1 \in 0..LogLines
    BY LogAssumption
  <1>2. /\ g = IF h + 1 < LogLines THEN h + 1 ELSE h + 1 - LogLines
        /\ g \in 0..(LogLines - 1)
    BY <1>1, RingFacts
  <1>3. (h + i) % LogLines = IF h + i < LogLines THEN h + i ELSE h + i - LogLines
    BY RingFacts
  <1> HIDE DEF g
  <1>4. (g + (i - 1)) % LogLines =
          IF g + (i - 1) < LogLines THEN g + (i - 1) ELSE g + (i - 1) - LogLines
    BY <1>1, <1>2, RingFacts
  <1>5. (g + (i - 1)) % LogLines = (h + i) % LogLines
    <2> DEFINE a == (g + (i - 1)) % LogLines
               b == (h + i) % LogLines
    <2>1. /\ a = IF g + (i - 1) < LogLines THEN g + (i - 1) ELSE g + (i - 1) - LogLines
          /\ b = IF h + i < LogLines THEN h + i ELSE h + i - LogLines
      BY <1>3, <1>4
    <2> HIDE DEF a, b
    <2>2. a = b
      BY <1>1, <1>2, <2>1
    <2> QED
      BY <2>2 DEF a, b
  <1> QED
    BY <1>5 DEF g

(* The rows of the first LogLines places are different.                     *)
LEMMA RingOther ==
  ASSUME NEW h \in 0..(LogLines - 1), NEW i \in 1..(LogLines - 1)
  PROVE  (h + i) % LogLines # h
  <1> DEFINE a == (h + i) % LogLines
  <1>1. LogLines \in Nat \ {0} /\ i \in 0..LogLines
    BY LogAssumption
  <1>2. a = IF h + i < LogLines THEN h + i ELSE h + i - LogLines
    BY <1>1, RingFacts
  <1> HIDE DEF a
  <1>3. a # h
    BY <1>1, <1>2
  <1> QED
    BY <1>3 DEF a

-----------------------------------------------------------------------------
(***************************************************************************)
(* How the parts take steps.                                               *)
(***************************************************************************)

\* A step of the panel: a call of its set-up, or one that leaves its registers.
PanelStep ==
  \/ display_init
  \/ /\ UNCHANGED <<s_panel, lcd, PIN_BL, todo, cmd, lost>>
     /\ events' \in 0..MaxEvents /\ DOMAIN screen' = 0..(Rows - 1)
     /\ events <= events'

\* A step of the log: a task begins a line, or goes on with it.
LogStep ==
  \/ UNCHANGED logVars
  \/ \E t \in Tasks, line \in LogTexts : idle(t) /\ StartLog(t, line)
  \/ \E t \in Tasks : Logging(t)

(* Text is drawn at a cost, and only in the rows there are.                 *)
LEMMA TextFacts ==
  ASSUME PanelTypeOK, NEW texts, IsFiniteSet(DOMAIN texts), display_text(texts)
  PROVE  PanelStep
  <1>1. events \in 0..MaxEvents /\ DOMAIN screen = 0..(Rows - 1)
    BY DEF PanelTypeOK
  <1>2. CASE UNCHANGED <<screen, events>>
    BY <1>1, <1>2, RowsAssumption DEF display_text, PanelStep
  <1>3. ASSUME NEW missed \in SUBSET DOMAIN texts,
               events + Cardinality(missed) <= MaxEvents,
               events' = events + Cardinality(missed),
               screen' = [r \in DOMAIN screen |->
                 IF r \in missed THEN Noise
                 ELSE IF r \in DOMAIN texts THEN AsDrawn(texts[r]) ELSE screen[r]]
        PROVE  PanelStep
    <2>1. Cardinality(missed) \in Nat
      BY FS_Subset, FS_CardinalityType
    <2>2. events <= events' /\ events' \in 0..MaxEvents
      BY <1>1, <1>3, <2>1, RowsAssumption
    <2> QED
      BY <1>1, <1>3, <2>2 DEF display_text, PanelStep
  <1> QED
    BY <1>2, <1>3 DEF display_text, Drawn

(* The rows that a frame begins with, and any one row.                      *)
LEMMA DrawFacts ==
  ASSUME PanelTypeOK, DrawStatus \/ DrawLog
  PROVE  PanelStep
  <1>1. ASSUME DrawStatus PROVE PanelStep
    <2> DEFINE texts == [r \in 0..(StatusRows - 1) |-> StatusText(r, frame, s_writes)]
    <2>1. display_text(texts)
      BY <1>1 DEF DrawStatus
    <2>2. DOMAIN texts = 0..(StatusRows - 1)
      OBVIOUS
    <2> HIDE DEF texts
    <2>3. IsFiniteSet(DOMAIN texts)
      <3>1. 0 \in Int /\ StatusRows - 1 \in Int
        BY DEF StatusRows
      <3>2. IsFiniteSet(0..(StatusRows - 1))
        BY <3>1, FS_Interval
      <3> QED
        BY <2>2, <3>2
    <2> QED
      BY <2>1, <2>3, TextFacts
  <1>2. ASSUME DrawLog PROVE PanelStep
    <2>1. PICK text : display_text([r \in {row} |-> text])
      BY <1>2 DEF DrawLog
    <2>2. DOMAIN [r \in {row} |-> text] = {row}
      OBVIOUS
    <2>3. IsFiniteSet(DOMAIN [r \in {row} |-> text])
      BY <2>2, FS_Singleton
    <2> QED
      BY <2>1, <2>3, TextFacts
  <1> QED
    BY <1>1, <1>2

(* Each step of the whole is one of the panel.                              *)
LEMMA PanelSteps ==
  ASSUME PanelTypeOK, [Next]_vars
  PROVE  PanelStep
  <1>0. events \in 0..MaxEvents /\ DOMAIN screen = 0..(Rows - 1) /\ MaxEvents \in Nat
    BY RowsAssumption DEF PanelTypeOK
  <1>1. ASSUME UNCHANGED panelVars PROVE PanelStep
    BY <1>0, <1>1 DEF panelVars, PanelStep
  <1>2. CASE Boot
    BY <1>1, <1>2 DEF Boot, PanelStep
  <1>3. ASSUME Happens PROVE PanelStep
    BY <1>0, <1>3 DEF Happens, PanelStep
  <1>4. CASE LinkChanges \/ UsbChanges \/ ReportArrives \/ EndWrite
    BY <1>3, <1>4 DEF LinkChanges, UsbChanges, ReportArrives, EndWrite, Change
  <1>5. CASE DisplayTask
    BY <1>1, <1>5, DrawFacts DEF DisplayTask, ReadState, LogChange, InDlog
  <1>6. CASE (stage = "boot" /\ InDlog("display")) \/ InDlog("write")
    BY <1>1, <1>6 DEF InDlog
  <1>7. CASE UNCHANGED vars
    BY <1>1, <1>7 DEF vars
  <1> QED
    BY <1>2, <1>4, <1>5, <1>6, <1>7 DEF Next

(* The panel keeps its invariant whatever the rest does.                    *)
LEMMA PanelKept == PanelInv /\ [Next]_vars => PanelInv'
  <1> SUFFICES ASSUME PanelInv, [Next]_vars PROVE PanelInv'
    OBVIOUS
  <1>1. PanelTypeOK
    BY DEF PanelInv
  <1>2. PanelStep
    BY <1>1, PanelSteps
  <1> QED
    BY <1>2, CallPanel, OtherPanel DEF PanelStep

(* It holds of the panel the status screen is drawn on.                     *)
LEMMA PanelInvariant == Spec => []PanelInv
  <1>1. Init => PanelInv
    BY InitPanel DEF Init
  <1> QED
    BY <1>1, PanelKept, PTL DEF Spec

(* Whichever commands were lost, drawing stays in the controller's memory,  *)
(* but for the pair that repeats itself.                                   *)
THEOREM InRam == Spec => []DrawsInRam
  BY InvDraws, PanelInvariant, PTL

(* What is left of the set-up when commands get lost, of which display_init *)
(* notices none.                                                           *)
THEOREM ScreenSetUp == Spec => []SetUp
  BY InvSetUp, PanelInvariant, PTL

-----------------------------------------------------------------------------
(***************************************************************************)
(* The variables' types.                                                   *)
(***************************************************************************)

(* Records with these four fields, by the names of the fields.              *)
LEMMA RecordFacts ==
  ASSUME NEW A, NEW B, NEW C, NEW D,
         NEW v \in [link : A, usb : B, figures : C, toy : D]
  PROVE  LET R == [link : A, usb : B, figures : C, toy : D]
         IN  /\ v["link"] \in A /\ v["usb"] \in B
             /\ v["figures"] \in C /\ v["toy"] \in D
             /\ \A x \in A : [v EXCEPT !["link"] = x] \in R
             /\ \A x \in B : [v EXCEPT !["usb"] = x] \in R
             /\ \A x \in C : [v EXCEPT !["figures"] = x] \in R
             /\ \A x \in D : [v EXCEPT !["toy"] = x] \in R
  OBVIOUS

(* The values are records of this kind.                                     *)
LEMMA ValueSet ==
  Values = [link : OnOff, usb : OnOff, figures : Counts, toy : ToyIds]
  BY DEF Values, OnOff, Counts

(* The four topics.                                                         *)
LEMMA TopicFacts ==
  /\ Len(Topics) = 4
  /\ \A i \in 1..4 : Topics[i] \in {"link", "usb", "figures", "toy"}
  BY DEF Topics

(* A value of one record is one for any other, and for a line of the log.   *)
LEMMA ValueFacts ==
  ASSUME NEW v \in Values, NEW w \in Values,
         NEW t \in {"link", "usb", "figures", "toy"}
  PROVE  [w EXCEPT ![t] = v[t]] \in Values /\ <<t, v[t]>> \in LogTexts
  <1>1. /\ v["link"] \in OnOff /\ v["usb"] \in OnOff
        /\ v["figures"] \in Counts /\ v["toy"] \in ToyIds
    BY ValueSet, RecordFacts
  <1>2. CASE t = "link"
    BY <1>1, <1>2, ValueSet, RecordFacts DEF LogTexts
  <1>3. CASE t = "usb"
    BY <1>1, <1>3, ValueSet, RecordFacts DEF LogTexts
  <1>4. CASE t = "figures"
    BY <1>1, <1>4, ValueSet, RecordFacts DEF LogTexts
  <1>5. CASE t = "toy"
    BY <1>1, <1>5, ValueSet, RecordFacts DEF LogTexts
  <1> QED
    BY <1>2, <1>3, <1>4, <1>5

(* What has been said of a topic is a value of it.                          *)
LEMMA SaidFacts ==
  ASSUME NEW w \in Values, NEW line \in LogTexts
  PROVE  (IF line[1] \in {"link", "usb", "figures", "toy"}
          THEN [w EXCEPT ![line[1]] = line[2]] ELSE w) \in Values
  <1>1. ASSUME NEW b \in OnOff, line = <<"link", b>>
        PROVE  line[1] = "link" /\ [w EXCEPT ![line[1]] = line[2]] \in Values
    BY <1>1, ValueSet, RecordFacts
  <1>2. ASSUME NEW b \in OnOff, line = <<"usb", b>>
        PROVE  line[1] = "usb" /\ [w EXCEPT ![line[1]] = line[2]] \in Values
    BY <1>2, ValueSet, RecordFacts
  <1>3. ASSUME NEW n \in Counts, line = <<"figures", n>>
        PROVE  line[1] = "figures" /\ [w EXCEPT ![line[1]] = line[2]] \in Values
    BY <1>3, ValueSet, RecordFacts
  <1>4. ASSUME NEW n \in ToyIds, line = <<"toy", n>>
        PROVE  line[1] = "toy" /\ [w EXCEPT ![line[1]] = line[2]] \in Values
    BY <1>4, ValueSet, RecordFacts
  <1>5. line[1] \in {"link", "usb", "figures", "toy"} =>
          \/ \E b \in OnOff : line = <<"link", b>> \/ line = <<"usb", b>>
          \/ \E n \in Counts : line = <<"figures", n>>
          \/ \E n \in ToyIds : line = <<"toy", n>>
    BY DEF LogTexts
  <1> QED
    BY <1>1, <1>2, <1>3, <1>4, <1>5

(* The topic that is compared first is one of them.                         *)
LEMMA FirstTopic ==
  ASSUME Compared # {}
  PROVE  (CHOOSE i \in Compared : \A j \in Compared : i <= j) \in 1..4
  <1>1. Compared \subseteq 1..4
    BY TopicFacts DEF Compared
  <1>2. \E i \in Compared : \A j \in Compared : i <= j
    <2>1. CASE 1 \in Compared
      BY <1>1, <2>1
    <2>2. CASE 1 \notin Compared /\ 2 \in Compared
      BY <1>1, <2>2
    <2>3. CASE 1 \notin Compared /\ 2 \notin Compared /\ 3 \in Compared
      BY <1>1, <2>3
    <2>4. CASE 1 \notin Compared /\ 2 \notin Compared /\ 3 \notin Compared
      <3>1. \A j \in Compared : j = 4
        BY <1>1, <2>4
      <3>2. PICK i \in Compared : TRUE
        OBVIOUS
      <3>3. \A j \in Compared : i <= j
        BY <3>1, <3>2
      <3> QED
        BY <3>2, <3>3
    <2> QED
      BY <2>1, <2>2, <2>3, <2>4
  <1> QED
    BY <1>1, <1>2

(* Each step of the whole is one of the log.                                *)
LEMMA LogSteps ==
  ASSUME frame \in Values, s_writes \in Nat, [Next]_vars
  PROVE  LogStep
  <1>1. ASSUME UNCHANGED logVars PROVE LogStep
    BY <1>1 DEF LogStep
  <1>2. ASSUME NEW t \in Tasks, InDlog(t) PROVE LogStep
    BY <1>2 DEF InDlog, LogStep
  <1>3. "display" \in Tasks /\ "write" \in Tasks
    BY DEF Tasks
  <1>4. CASE Boot
    <2>1. <<"boot">> \in LogTexts
      BY DEF LogTexts
    <2> QED
      BY <1>1, <1>3, <1>4, <2>1 DEF Boot, LogStep
  <1>5. CASE LinkChanges \/ UsbChanges \/ ReportArrives
    BY <1>1, <1>5 DEF LinkChanges, UsbChanges, ReportArrives, Change
  <1>6. CASE EndWrite
    <2>1. <<"lost", s_writes + 1>> \in LogTexts
      BY DEF LogTexts
    <2> QED
      BY <1>1, <1>3, <1>6, <2>1 DEF EndWrite, LogStep
  <1>7. CASE LogChange
    <2> DEFINE first == CHOOSE i \in Compared : \A j \in Compared : i <= j
               topic == Topics[first]
    <2>1. /\ Compared # {} /\ idle("display")
          /\ \/ UNCHANGED logVars
             \/ StartLog("display", <<topic, frame[topic]>>)
      BY <1>7 DEF LogChange
    <2>2. first \in 1..4
      BY <2>1, FirstTopic
    <2> HIDE DEF first
    <2>3. topic \in {"link", "usb", "figures", "toy"}
      BY <2>2, TopicFacts
    <2> HIDE DEF topic
    <2>4. <<topic, frame[topic]>> \in LogTexts
      BY <2>3, ValueFacts
    <2> QED
      BY <1>3, <2>1, <2>4 DEF LogStep
  <1>8. CASE ReadState \/ DrawStatus \/ DrawLog
    BY <1>1, <1>8 DEF ReadState, DrawStatus, DrawLog
  <1>9. CASE UNCHANGED vars
    BY <1>1, <1>9 DEF vars
  <1> QED
    BY <1>2, <1>3, <1>4, <1>5, <1>6, <1>7, <1>8, <1>9 DEF Next, DisplayTask

-----------------------------------------------------------------------------
(***************************************************************************)
(* What is read out of a report.                                           *)
(***************************************************************************)

\* What a slot puts into its state byte: one bit for present, one for changed.
SlotBits(present, changed, i) ==
  (IF i \in present THEN 1 ELSE 0) + (IF i \in changed THEN 2 ELSE 0)

(* The bytes of a Status report.                                            *)
LEMMA StatusFacts ==
  ASSUME NEW present \in SUBSET Slots, NEW changed \in SUBSET Slots,
         NEW r, r = StatusReport(present, changed)
  PROVE  /\ Len(r) = 5 /\ r[1] = SKY_CMD_STATUS
         /\ \A n \in 0..3 : r[2 + n] = StateByte(present, changed, n)
  <1> DEFINE states == [n \in 1..4 |-> StateByte(present, changed, n - 1)]
             head == <<SKY_CMD_STATUS>>
  <1>1. \A n \in 0..3 : StateByte(present, changed, n) \in Nat
    BY DEF StateByte
  <1>2. /\ states \in Seq(Nat) /\ Len(states) = 4
        /\ \A n \in 1..4 : states[n] = StateByte(present, changed, n - 1)
    BY <1>1
  <1>3. head \in Seq(Nat) /\ Len(head) = 1 /\ head[1] = SKY_CMD_STATUS
    BY DEF SKY_CMD_STATUS
  <1>4. r = head \o states
    BY DEF StatusReport
  <1> HIDE DEF states, head
  <1>5. /\ Len(r) = Len(head) + Len(states)
        /\ \A i \in 1..(Len(head) + Len(states)) :
             r[i] = IF i <= Len(head) THEN head[i] ELSE states[i - Len(head)]
    <2> DEFINE S == Nat
    <2>1. head \in Seq(S) /\ states \in Seq(S)
      BY <1>2, <1>3
    <2> HIDE DEF S
    <2> QED
      BY <1>4, <2>1, ConcatProperties
  <1>6. Len(r) = 5 /\ r[1] = SKY_CMD_STATUS
    BY <1>2, <1>3, <1>5
  <1>7. ASSUME NEW n \in 0..3 PROVE r[2 + n] = StateByte(present, changed, n)
    <2>1. /\ 2 + n \in 1..5 /\ ~(2 + n <= 1) /\ (2 + n) - 1 = n + 1
          /\ n + 1 \in 1..4 /\ (n + 1) - 1 = n
      OBVIOUS
    <2>2. r[2 + n] = states[n + 1]
      BY <1>2, <1>3, <1>5, <2>1
    <2> QED
      BY <1>2, <2>1, <2>2
  <1> QED
    BY <1>6, <1>7

(* The bit that is looked at tells whether there is a figure on the slot,   *)
(* whatever else is in its byte.                                           *)
LEMMA SlotFacts ==
  ASSUME NEW present \in SUBSET Slots, NEW changed \in SUBSET Slots,
         NEW r, r = StatusReport(present, changed), NEW n \in 0..3, NEW k \in 0..3
  PROVE  StatusBit(r, 2 * (4 * n + k)) = 1 <=> 4 * n + k \in present
  <1> DEFINE a(j) == SlotBits(present, changed, 4 * n + j)
             s == StateByte(present, changed, n)
  <1>1. /\ (2 * (4 * n + k)) \div 8 = n /\ (2 * (4 * n + k)) % 8 = 2 * k
    OBVIOUS
  <1>2. StatusBit(r, 2 * (4 * n + k)) = (s \div 2^(2 * k)) % 2
    BY <1>1, StatusFacts DEF StatusBit
  <1>3. \A j \in 0..3 : /\ a(j) \in 0..3
                        /\ a(j) % 2 = 1 <=> 4 * n + j \in present
    BY DEF SlotBits
  <1>4. s = a(0) + 4 * a(1) + 16 * a(2) + 64 * a(3)
    BY DEF StateByte, SlotBits
  <1>5. a(0) \in 0..3 /\ a(1) \in 0..3 /\ a(2) \in 0..3 /\ a(3) \in 0..3
    BY <1>3
  <1>6. 2^0 = 1 /\ 2^2 = 4 /\ 2^4 = 16 /\ 2^6 = 64
    OBVIOUS
  <1> HIDE DEF a, s
  <1>7. /\ s \in 0..255
        /\ s % 2 = a(0) % 2 /\ (s \div 4) % 2 = a(1) % 2
        /\ (s \div 16) % 2 = a(2) % 2 /\ (s \div 64) % 2 = a(3) % 2
    <2>1. s \div 4 = a(1) + 4 * a(2) + 16 * a(3)
      BY <1>4, <1>5
    <2>2. s \div 16 = a(2) + 4 * a(3)
      BY <1>4, <1>5
    <2>3. s \div 64 = a(3)
      BY <1>4, <1>5
    <2>4. s \in 0..255
      BY <1>4, <1>5
    <2>5. s % 2 = a(0) % 2
      BY <1>4, <1>5
    <2>6. (s \div 4) % 2 = a(1) % 2
      BY <1>5, <2>1
    <2>7. (s \div 16) % 2 = a(2) % 2
      BY <1>5, <2>2
    <2> QED
      BY <2>3, <2>4, <2>5, <2>6, <2>7
  <1>8. (s \div 2^(2 * k)) % 2 = a(k) % 2
    <2>1. CASE k = 0
      <3>1. 2^(2 * k) = 1 /\ s \div 1 = s
        BY <1>6, <1>7, <2>1
      <3> QED
        BY <1>7, <2>1, <3>1
    <2>2. CASE k = 1
      <3>1. 2^(2 * k) = 4
        BY <1>6, <2>2
      <3> QED
        BY <1>7, <2>2, <3>1
    <2>3. CASE k = 2
      <3>1. 2^(2 * k) = 16
        BY <1>6, <2>3
      <3> QED
        BY <1>7, <2>3, <3>1
    <2>4. CASE k = 3
      <3>1. 2^(2 * k) = 64
        BY <1>6, <2>4
      <3> QED
        BY <1>7, <2>4, <3>1
    <2> QED
      BY <2>1, <2>2, <2>3, <2>4
  <1> QED
    BY <1>2, <1>3, <1>8

(* The mask of a Status report is the figures that stand on the portal,     *)
(* whichever of them have changed.                                          *)
THEOREM MaskIsFigures ==
  ASSUME NEW present \in SUBSET Slots, NEW changed \in SUBSET Slots,
         NEW r, r = StatusReport(present, changed)
  PROVE  sky_present_mask(r) = present
  <1>1. ASSUME NEW i \in Slots PROVE i \in sky_present_mask(r) <=> i \in present
    <2>1. PICK n \in 0..3, k \in 0..3 : i = 4 * n + k
      <3>1. i \in 0..15
        BY DEF Slots, SKY_MAX_SLOTS
      <3>2. i \div 4 \in 0..3
        BY <3>1
      <3>3. i % 4 \in 0..3
        BY <3>1
      <3>4. i = 4 * (i \div 4) + (i % 4)
        BY <3>1
      <3> QED
        BY <3>2, <3>3, <3>4
    <2>2. StatusBit(r, 2 * i) = 1 <=> i \in present
      BY <2>1, SlotFacts
    <2> QED
      BY <2>2 DEF sky_present_mask, sky_slot_present
  <1>2. sky_present_mask(r) \subseteq Slots
    BY DEF sky_present_mask
  <1> QED
    BY <1>1, <1>2

(* There are at most so many figures as slots.                              *)
LEMMA CountFacts ==
  ASSUME NEW present \in SUBSET Slots
  PROVE  Cardinality(present) \in 0..SKY_MAX_SLOTS
  <1>1. IsFiniteSet(Slots) /\ Cardinality(Slots) = 16
    <2>1. 0 \in Int /\ 15 \in Int /\ ~(0 > 15) /\ 15 - 0 + 1 = 16
      OBVIOUS
    <2>2. IsFiniteSet(0..15) /\ Cardinality(0..15) = 16
      BY <2>1, FS_Interval
    <2>3. Slots = 0..15
      BY DEF Slots, SKY_MAX_SLOTS
    <2> QED
      BY <2>2, <2>3
  <1>2. IsFiniteSet(present) /\ Cardinality(present) <= Cardinality(Slots)
    BY <1>1, FS_Subset
  <1>3. Cardinality(present) \in Nat
    BY <1>2, FS_CardinalityType
  <1> QED
    BY <1>1, <1>2, <1>3 DEF SKY_MAX_SLOTS

(* A Status report is told from an answer and read.                         *)
LEMMA StatusRead ==
  ASSUME NEW present \in SUBSET Slots, NEW changed \in SUBSET Slots,
         NEW r, r = StatusReport(present, changed)
  PROVE  isStatus(r) /\ ~isToy(r) /\ sky_present_mask(r) = present
  <1>1. Len(r) = 5 /\ r[1] = SKY_CMD_STATUS
    BY StatusFacts
  <1>2. isStatus(r) /\ ~isToy(r)
    BY <1>1 DEF isStatus, isToy, SKY_CMD_STATUS, SKY_CMD_QUERY
  <1> QED
    BY <1>2, MaskIsFigures

(* A toy is a number.                                                       *)
LEMMA ToyNumbers == ToyIds \subseteq Nat
  <1> DEFINE last == 65535
  <1>1. last \in Nat /\ ToyIds = 0..last
    BY DEF ToyIds
  <1> HIDE DEF last
  <1> QED
    BY <1>1

(* A number is its low byte and 256 times the rest.                         *)
LEMMA TwoBytes ==
  ASSUME NEW n \in Nat
  PROVE  (n % 256) + 256 * (n \div 256) = n
  OBVIOUS

(* An answer about block 1 is read as the toy it tells.                     *)
LEMMA ToyRead ==
  ASSUME NEW slot \in Slots, NEW toy \in ToyIds,
         NEW r, r = QueryAnswer(slot, SKY_BLOCK_TOY_ID, toy)
  PROVE  ~isStatus(r) /\ isToy(r) /\ ToyId(r) = toy
  <1>1. /\ Len(r) = 5 /\ r[1] = SKY_CMD_QUERY /\ r[2] = 16 + slot
        /\ r[3] = SKY_BLOCK_TOY_ID /\ r[4] = toy % 256 /\ r[5] = toy \div 256
    BY DEF QueryAnswer
  <1>2. slot \in 0..15
    BY DEF Slots, SKY_MAX_SLOTS
  <1>3. ~isStatus(r)
    BY <1>1 DEF isStatus, SKY_CMD_STATUS, SKY_CMD_QUERY
  <1>4. isToy(r)
    <2>1. r[2] # 1 /\ Len(r) >= 5
      BY <1>1, <1>2
    <2> QED
      BY <1>1, <2>1 DEF isToy, sky_query_ok, sky_query_block
  <1>5. (toy % 256) + 256 * (toy \div 256) = toy
    BY ToyNumbers, TwoBytes
  <1>6. ToyId(r) = (toy % 256) + 256 * (toy \div 256)
    <2>1. r[4] = toy % 256 /\ r[5] = toy \div 256
      BY <1>1
    <2> QED
      BY <2>1 DEF ToyId
  <1> QED
    BY <1>3, <1>4, <1>5, <1>6

(* A report that tells of neither is not read.                              *)
LEMMA NothingRead ==
  ASSUME NEW r, \/ Len(r) < 5
                \/ r[1] \notin {SKY_CMD_STATUS, SKY_CMD_QUERY}
                \/ r[1] = SKY_CMD_QUERY /\ (r[2] = 1 \/ r[3] # SKY_BLOCK_TOY_ID)
  PROVE  ~isStatus(r) /\ ~isToy(r)
  <1>1. SKY_CMD_STATUS = 83 /\ SKY_CMD_QUERY = 81
    BY DEF SKY_CMD_STATUS, SKY_CMD_QUERY
  <1>2. CASE Len(r) < 5
    <2>1. ~(Len(r) >= 5)
      BY <1>2, SMT
    <2> QED
      BY <2>1 DEF isStatus, isToy
  <1>3. CASE r[1] \notin {SKY_CMD_STATUS, SKY_CMD_QUERY}
    BY <1>3 DEF isStatus, isToy
  <1>4. CASE r[1] = SKY_CMD_QUERY /\ (r[2] = 1 \/ r[3] # SKY_BLOCK_TOY_ID)
    BY <1>1, <1>4 DEF isStatus, isToy, sky_query_ok, sky_query_block
  <1> QED
    BY <1>2, <1>3, <1>4

(* A report that is looked into sets what it tells and leaves the rest.     *)
LEMMA SnoopFacts ==
  ASSUME NEW tells, NEW figures, NEW toy, NEW r,
         Told(tells, figures, toy, r), snoop_in(r)
  PROVE  \/ /\ tells = "figures" /\ figures \in SUBSET Slots
            /\ s_present_count' = Cardinality(figures) /\ s_toy' = s_toy
         \/ /\ tells = "toy" /\ toy \in ToyIds
            /\ s_present_count' = s_present_count /\ s_toy' = toy
         \/ /\ tells = "nothing"
            /\ s_present_count' = s_present_count /\ s_toy' = s_toy
  <1>1. CASE /\ tells = "figures" /\ figures \in SUBSET Slots
             /\ \E changed \in SUBSET Slots : r = StatusReport(figures, changed)
    <2>1. isStatus(r) /\ ~isToy(r) /\ sky_present_mask(r) = figures
      BY <1>1, StatusRead
    <2> QED
      BY <1>1, <2>1, Zenon DEF snoop_in
  <1>2. CASE /\ tells = "toy" /\ toy \in ToyIds
             /\ \E slot \in Slots : r = QueryAnswer(slot, SKY_BLOCK_TOY_ID, toy)
    <2>1. ~isStatus(r) /\ isToy(r) /\ ToyId(r) = toy
      BY <1>2, ToyRead
    <2> QED
      BY <1>2, <2>1, Zenon DEF snoop_in
  <1>3. CASE /\ tells = "nothing"
             /\ \/ Len(r) < 5
                \/ r[1] \notin {SKY_CMD_STATUS, SKY_CMD_QUERY}
                \/ r[1] = SKY_CMD_QUERY /\ (r[2] = 1 \/ r[3] # SKY_BLOCK_TOY_ID)
    <2>1. ~isStatus(r) /\ ~isToy(r)
      BY <1>3, NothingRead
    <2> QED
      BY <1>3, <2>1, Zenon DEF snoop_in
  <1> QED
    BY <1>1, <1>2, <1>3 DEF Told

(* The counters on the screen are what the last report that told of them    *)
(* did, for all sixteen slots and every mixture of present and changed.    *)
THEOREM Understood == Spec => []ReportsUnderstood
  <1>1. Init => ReportsUnderstood
    BY FS_EmptySet DEF Init, ReportsUnderstood
  <1>2. ReportsUnderstood /\ [Next]_vars => ReportsUnderstood'
    <2> SUFFICES ASSUME ReportsUnderstood, [Next]_vars PROVE ReportsUnderstood'
      OBVIOUS
    <2>1. ASSUME UNCHANGED <<s_present_count, s_toy, reported>>
          PROVE  ReportsUnderstood'
      BY <2>1 DEF ReportsUnderstood
    <2>2. CASE ReportArrives
      <3>1. PICK m \in Reports :
              /\ snoop_in(m.bytes)
              /\ reported' = [figures |-> IF m.tells = "figures" THEN m.figures
                                          ELSE reported.figures,
                              toy |-> IF m.tells = "toy" THEN m.toy ELSE reported.toy]
        BY <2>2 DEF ReportArrives
      <3>2. /\ reported'.figures = IF m.tells = "figures" THEN m.figures
                                   ELSE reported.figures
            /\ reported'.toy = IF m.tells = "toy" THEN m.toy ELSE reported.toy
        BY <3>1
      <3>3. \/ /\ m.tells = "figures"
               /\ s_present_count' = Cardinality(m.figures) /\ s_toy' = s_toy
            \/ /\ m.tells = "toy"
               /\ s_present_count' = s_present_count /\ s_toy' = m.toy
            \/ /\ m.tells = "nothing"
               /\ s_present_count' = s_present_count /\ s_toy' = s_toy
        BY <3>1, ReportsAssumption, SnoopFacts, Zenon
      <3> QED
        BY <3>2, <3>3 DEF ReportsUnderstood
    <2>3. CASE UNCHANGED vars
      BY <2>1, <2>3 DEF vars, screenVars
    <2>4. CASE Boot \/ DisplayTask \/ InDlog("write") \/ InDlog("display")
      BY <2>1, <2>4
      DEF Boot, DisplayTask, InDlog, ReadState, LogChange, DrawStatus, DrawLog,
          screenVars
    <2>5. CASE LinkChanges \/ UsbChanges \/ EndWrite
      BY <2>1, <2>5 DEF LinkChanges, UsbChanges, EndWrite
    <2> QED
      BY <2>2, <2>3, <2>4, <2>5 DEF Next
  <1> QED
    BY <1>1, <1>2, PTL DEF Spec

-----------------------------------------------------------------------------
(***************************************************************************)
(* The types and the calls of dlog.                                        *)
(***************************************************************************)

LogTypeOK ==
  /\ DOMAIN s_log = 0..(LogLines - 1) /\ s_log_head \in 0..(LogLines - 1)
  /\ said \in Values /\ Len(lines) = LogLines
TaskTypeOK ==
  /\ frame \in Values /\ p \in Values
  /\ stage \in {"boot", "read", "log", "draw"} /\ row \in 0..(Rows - 1)
StateTypeOK ==
  /\ linked \in BOOLEAN /\ mounted \in BOOLEAN
  /\ s_present_count \in 0..SKY_MAX_SLOTS /\ s_toy \in ToyIds /\ s_writes \in Nat
TypeInv == PanelTypeOK /\ LogTypeOK /\ TaskTypeOK /\ StateTypeOK /\ DlogInv

(* What a task has in dlog.                                                 *)
LEMMA DlogFacts ==
  ASSUME DlogInv, NEW t \in Tasks
  PROVE  /\ dlog[t].at \in {"idle", "format", "load", "store"}
         /\ dlog[t].line \in {Blank} \cup LogTexts
         /\ dlog[t].row \in 0..(LogLines - 1) /\ dlog[t].head \in 0..(LogLines - 1)
         /\ dlog[t] = [at |-> dlog[t].at, line |-> dlog[t].line,
                       row |-> dlog[t].row, head |-> dlog[t].head]
  BY DEF DlogInv

(* TypeInv is the type invariant with what it rests on.                     *)
LEMMA TypeInvTypes == TypeInv => TypeOK
  <1> SUFFICES ASSUME TypeInv PROVE TypeOK
    OBVIOUS
  <1>1. s_writes \in 0..MaxEvents
    BY RowsAssumption DEF TypeInv, StateTypeOK, DlogInv, PanelTypeOK
  <1>2. \A t \in Tasks :
          /\ dlog[t].at \in {"idle", "format", "load", "store"}
          /\ {dlog[t].row, dlog[t].head} \subseteq 0..(LogLines - 1)
    BY DlogFacts DEF TypeInv
  <1>3. /\ DOMAIN s_log = 0..(LogLines - 1) /\ s_log_head \in DOMAIN s_log
        /\ said \in Values /\ Len(lines) = LogLines
    BY DEF TypeInv, LogTypeOK
  <1> QED
    BY <1>1, <1>2, <1>3 DEF TypeInv, TaskTypeOK, StateTypeOK, TypeOK

(* Nothing has been logged, read or drawn at the start.                     *)
LEMMA InitTypes == Init => TypeInv
  <1> SUFFICES ASSUME Init PROVE TypeInv
    OBVIOUS
  <1>0. LogLines \in Nat \ {0} /\ 0 \in 0..(LogLines - 1) /\ 0 \in 0..(Rows - 1)
    BY LogAssumption, RowsAssumption
  <1>1. PanelTypeOK
    BY InitPanel DEF Init, PanelInv
  <1>2. Nothing \in Values
    <2> DEFINE none == -1
               noToy == 65535
    <2>1. FALSE \in OnOff
      BY Zenon DEF OnOff
    <2>2. none \in Counts
      BY DEF Counts, SKY_MAX_SLOTS
    <2>3. noToy \in ToyIds
      BY DEF ToyIds
    <2>4. Nothing = [link |-> FALSE, usb |-> FALSE, figures |-> none, toy |-> noToy]
      BY DEF Nothing
    <2> HIDE DEF none, noToy
    <2> QED
      BY <2>1, <2>2, <2>3, <2>4, ValueSet
  <1>3. lines = [i \in 1..LogLines |-> Blank]
    BY DEF Init
  <1>4. lines \in Seq({Blank} \cup LogTexts) /\ Len(lines) = LogLines
    BY <1>0, <1>3
  <1>5. LogTypeOK
    BY <1>0, <1>2, <1>4 DEF Init, LogTypeOK
  <1>6. TaskTypeOK
    BY <1>0, <1>2 DEF Init, TaskTypeOK
  <1>7. s_present_count \in 0..SKY_MAX_SLOTS /\ s_toy \in ToyIds /\ s_writes \in Nat
    BY DEF Init, ToyIds, SKY_MAX_SLOTS
  <1>8. StateTypeOK
    BY <1>7 DEF Init, StateTypeOK
  <1>9. DlogInv
    <2>1. Idle \in [at : {"idle", "format", "load", "store"},
                    line : {Blank} \cup LogTexts,
                    row : 0..(LogLines - 1), head : 0..(LogLines - 1)]
      BY <1>0 DEF Idle
    <2>2. \A t \in Tasks : idle(t)
      BY DEF Init, idle, Idle
    <2>3. s_writes <= events
      BY DEF Init, PanelInit
    <2> QED
      BY <1>4, <2>1, <2>2, <2>3 DEF Init, DlogInv
  <1> QED
    BY <1>1, <1>5, <1>6, <1>8, <1>9 DEF TypeInv

(* Logging keeps to the rows of the ring and to the number of lines.        *)
LEMMA LogTypes ==
  ASSUME TypeInv, LogStep, s_writes' <= events'
  PROVE  LogTypeOK' /\ DlogInv'
  <1> DEFINE Line == [at : {"idle", "format", "load", "store"},
                      line : {Blank} \cup LogTexts,
                      row : 0..(LogLines - 1), head : 0..(LogLines - 1)]
  <1>0. /\ LogTypeOK /\ DlogInv /\ LogLines \in Nat \ {0}
        /\ dlog \in [Tasks -> Line] /\ lines \in Seq({Blank} \cup LogTexts)
    BY LogAssumption DEF TypeInv, DlogInv
  <1>1. CASE UNCHANGED logVars
    BY <1>0, <1>1 DEF logVars, LogTypeOK, DlogInv, idle
  <1>2. ASSUME NEW t \in Tasks, NEW line \in LogTexts, StartLog(t, line)
        PROVE  LogTypeOK' /\ DlogInv'
    <2> DEFINE new == [at |-> "format", line |-> line, row |-> s_log_head, head |-> 0]
    <2>1. new \in Line
      BY <1>0 DEF LogTypeOK
    <2>2. dlog' = [dlog EXCEPT ![t] = new]
      BY <1>2 DEF StartLog
    <2>3. dlog'[t] = new /\ \A u \in Tasks \ {t} : dlog'[u] = dlog[u]
      BY <1>0, <2>2
    <2>4. dlog' \in [Tasks -> Line]
      BY <1>0, <2>1, <2>2
    <2>5. \A u \in Tasks : ~idle(u)' => dlog'[u].line \in LogTexts
      BY <1>0, <2>3 DEF DlogInv, idle
    <2> QED
      BY <1>0, <1>2, <2>4, <2>5 DEF StartLog, LogTypeOK, DlogInv
  <1>3. ASSUME NEW t \in Tasks, Format(t) PROVE LogTypeOK' /\ DlogInv'
    <2> DEFINE line == dlog[t].line
               new == [dlog[t] EXCEPT !.at = "load"]
    <2>1. line \in LogTexts
      BY <1>0, <1>3 DEF Format, DlogInv, idle
    <2>2. /\ lines' = Append(Tail(lines), line)
          /\ said' = IF line[1] \in DOMAIN said
                     THEN [said EXCEPT ![line[1]] = line[2]] ELSE said
          /\ dlog' = [dlog EXCEPT ![t] = new]
          /\ UNCHANGED s_log_head
      BY <1>3 DEF Format
    <2>3. new \in Line /\ new.line = line
      BY <1>0
    <2>4. DOMAIN s_log' = 0..(LogLines - 1)
      BY <1>0, <1>3 DEF Format, LogTypeOK
    <2> HIDE DEF line
    <2>5. lines' \in Seq({Blank} \cup LogTexts) /\ Len(lines') = LogLines
      <3> DEFINE S == {Blank} \cup LogTexts
      <3>1. lines \in Seq(S) /\ line \in S /\ Len(lines) = LogLines
        BY <1>0, <2>1 DEF LogTypeOK
      <3> HIDE DEF S
      <3>2. lines # <<>>
        BY <1>0, <3>1, EmptySeq
      <3>3. Tail(lines) \in Seq(S) /\ Len(Tail(lines)) = LogLines - 1
        BY <3>1, <3>2, HeadTailProperties
      <3>4. /\ Append(Tail(lines), line) \in Seq(S)
            /\ Len(Append(Tail(lines), line)) = Len(Tail(lines)) + 1
        BY <3>1, <3>3, AppendProperties
      <3>5. lines' \in Seq(S) /\ Len(lines') = LogLines
        BY <1>0, <2>2, <3>3, <3>4
      <3> QED
        BY <3>5 DEF S
    <2>6. said' \in Values
      <3>1. said \in Values
        BY <1>0 DEF LogTypeOK
      <3>2. DOMAIN said = {"link", "usb", "figures", "toy"}
        BY <3>1, ValueSet
      <3> QED
        BY <2>1, <2>2, <3>1, <3>2, SaidFacts
    <2>7. dlog' \in [Tasks -> Line]
      BY <1>0, <2>2, <2>3
    <2>8. dlog'[t] = new /\ \A u \in Tasks \ {t} : dlog'[u] = dlog[u]
      BY <1>0, <2>2
    <2>9. \A u \in Tasks : ~idle(u)' => dlog'[u].line \in LogTexts
      <3>1. dlog'[t].line \in LogTexts
        BY <2>1, <2>3, <2>8
      <3> QED
        BY <1>0, <2>8, <3>1 DEF DlogInv, idle
    <2> QED
      BY <1>0, <2>2, <2>4, <2>5, <2>6, <2>7, <2>9 DEF LogTypeOK, DlogInv
  <1>4. ASSUME NEW t \in Tasks, LoadHead(t) PROVE LogTypeOK' /\ DlogInv'
    <2>1. PICK h \in {dlog[t].row, s_log_head} :
            dlog' = [dlog EXCEPT ![t] = [@ EXCEPT !.at = "store", !.head = h]]
      BY <1>4 DEF LoadHead
    <2> DEFINE new == [dlog[t] EXCEPT !.at = "store", !.head = h]
    <2>2. h \in 0..(LogLines - 1)
      BY <1>0, DlogFacts DEF LogTypeOK
    <2>3. new \in Line /\ new.line = dlog[t].line
      BY <1>0, <2>2
    <2>4. dlog' = [dlog EXCEPT ![t] = new]
      BY <2>1
    <2>5. dlog' \in [Tasks -> Line]
      BY <1>0, <2>3, <2>4
    <2>6. dlog'[t] = new /\ \A u \in Tasks \ {t} : dlog'[u] = dlog[u]
      BY <1>0, <2>4
    <2>7. \A u \in Tasks : ~idle(u)' => dlog'[u].line \in LogTexts
      <3>1. dlog'[t].line \in LogTexts
        BY <1>0, <1>4, <2>3, <2>6 DEF DlogInv, idle, LoadHead
      <3> QED
        BY <1>0, <2>6, <3>1 DEF DlogInv, idle
    <2> QED
      BY <1>0, <1>4, <2>5, <2>7 DEF LoadHead, LogTypeOK, DlogInv
  <1>5. ASSUME NEW t \in Tasks, StoreHead(t) PROVE LogTypeOK' /\ DlogInv'
    <2>1. (dlog[t].head + 1) % LogLines \in 0..(LogLines - 1)
      <3> DEFINE h == dlog[t].head
      <3>1. h \in 0..(LogLines - 1)
        BY <1>0, DlogFacts
      <3>2. 1 \in 0..LogLines
        BY <1>0
      <3> HIDE DEF h
      <3>3. (h + 1) % LogLines \in 0..(LogLines - 1)
        BY <3>1, <3>2, RingFacts
      <3> QED
        BY <3>3 DEF h
    <2>2. Idle \in Line
      BY <1>0 DEF Idle
    <2>3. dlog' = [dlog EXCEPT ![t] = Idle]
      BY <1>5 DEF StoreHead
    <2>4. dlog' \in [Tasks -> Line]
      BY <1>0, <2>2, <2>3
    <2>5. \A u \in Tasks : ~idle(u)' => dlog'[u].line \in LogTexts
      BY <1>0, <2>3 DEF DlogInv, idle, Idle
    <2> QED
      BY <1>0, <1>5, <2>1, <2>4, <2>5 DEF StoreHead, LogTypeOK, DlogInv
  <1> QED
    BY <1>1, <1>2, <1>3, <1>4, <1>5 DEF LogStep, Logging

(* The end of a write is an event, and no step takes one back.              *)
LEMMA WriteCount ==
  ASSUME TypeInv, PanelTypeOK', [Next]_vars
  PROVE  s_writes' \in Nat /\ s_writes' <= events'
  <1>1. s_writes \in Nat /\ events \in Nat /\ s_writes <= events /\ PanelTypeOK
    <2>1. PanelTypeOK /\ s_writes \in Nat /\ s_writes <= events
      BY DEF TypeInv, StateTypeOK, DlogInv
    <2>2. events \in Nat
      BY <2>1 DEF PanelTypeOK
    <2> QED
      BY <2>1, <2>2
  <1>2. CASE EndWrite
    BY <1>1, <1>2 DEF EndWrite, Happens
  <1>3. ASSUME UNCHANGED s_writes PROVE s_writes' \in Nat /\ s_writes' <= events'
    <2>1. PanelStep
      BY <1>1, PanelSteps
    <2>2. events <= events'
      BY <1>1, <2>1, CallEvents DEF PanelStep
    <2>3. events' \in Nat
      BY DEF PanelTypeOK
    <2> QED
      BY <1>1, <1>3, <2>2, <2>3
  <1>4. CASE \/ Boot \/ DisplayTask \/ InDlog("write") \/ InDlog("display")
             \/ UNCHANGED vars
    <2>1. UNCHANGED s_writes
      BY <1>4
      DEF Boot, DisplayTask, InDlog, ReadState, LogChange, DrawStatus, DrawLog,
          screenVars, vars
    <2> QED
      BY <1>3, <2>1
  <1>5. CASE LinkChanges \/ UsbChanges \/ ReportArrives
    BY <1>3, <1>5 DEF LinkChanges, UsbChanges, ReportArrives, Change
  <1> QED
    BY <1>2, <1>4, <1>5 DEF Next

(* What the reports and the link can be is what they can be set to.         *)
LEMMA StateTypes ==
  ASSUME TypeInv, s_writes' \in Nat, [Next]_vars
  PROVE  StateTypeOK'
  <1>1. StateTypeOK
    BY DEF TypeInv
  <1>2. ASSUME UNCHANGED <<linked, mounted, s_present_count, s_toy>>
        PROVE  StateTypeOK'
    BY <1>1, <1>2 DEF StateTypeOK
  <1>3. CASE LinkChanges \/ UsbChanges
    <2>1. linked' \in BOOLEAN /\ mounted' \in BOOLEAN
      BY <1>1, <1>3, Zenon DEF LinkChanges, UsbChanges, StateTypeOK
    <2>2. UNCHANGED <<s_present_count, s_toy>>
      BY <1>3 DEF LinkChanges, UsbChanges
    <2> QED
      BY <1>1, <2>1, <2>2 DEF StateTypeOK
  <1>4. CASE ReportArrives
    <2>1. PICK m \in Reports : snoop_in(m.bytes)
      BY <1>4 DEF ReportArrives
    <2>2. Told(m.tells, m.figures, m.toy, m.bytes)
      BY ReportsAssumption
    <2>3. s_present_count' \in 0..SKY_MAX_SLOTS /\ s_toy' \in ToyIds
      BY <1>1, <2>1, <2>2, SnoopFacts, CountFacts DEF StateTypeOK
    <2>4. UNCHANGED <<linked, mounted>>
      BY <1>4 DEF ReportArrives
    <2> QED
      BY <1>1, <2>3, <2>4 DEF StateTypeOK
  <1>5. CASE EndWrite
    BY <1>2, <1>5 DEF EndWrite
  <1>6. CASE \/ Boot \/ DisplayTask \/ InDlog("write") \/ InDlog("display")
             \/ UNCHANGED vars
    <2>1. UNCHANGED <<linked, mounted, s_present_count, s_toy>>
      BY <1>6
      DEF Boot, DisplayTask, InDlog, ReadState, LogChange, DrawStatus, DrawLog,
          screenVars, vars
    <2> QED
      BY <1>2, <2>1
  <1> QED
    BY <1>3, <1>4, <1>5, <1>6 DEF Next

(* display_task reads, compares and draws within its types.                 *)
LEMMA TaskTypes ==
  ASSUME TypeInv, [Next]_vars
  PROVE  TaskTypeOK'
  <1>1. TaskTypeOK /\ StateTypeOK
    BY DEF TypeInv
  <1>2. CASE UNCHANGED taskVars
    BY <1>1, <1>2 DEF taskVars, TaskTypeOK
  <1>3. CASE Boot
    BY <1>1, <1>3 DEF Boot, TaskTypeOK
  <1>4. CASE ReadState
    <2>1. linked \in OnOff /\ mounted \in OnOff
      BY <1>1, Zenon DEF StateTypeOK, OnOff
    <2>2. s_present_count \in Counts /\ s_toy \in ToyIds
      BY <1>1 DEF StateTypeOK, Counts, SKY_MAX_SLOTS
    <2>3. Now \in Values
      BY <2>1, <2>2, ValueSet DEF Now
    <2> QED
      BY <1>1, <1>4, <2>3 DEF ReadState, TaskTypeOK
  <1>5. CASE LogChange
    <2> DEFINE first == CHOOSE i \in Compared : \A j \in Compared : i <= j
               topic == Topics[first]
    <2>1. /\ Compared # {} /\ p' = [p EXCEPT ![topic] = frame[topic]]
          /\ UNCHANGED <<frame, stage, row>>
      BY <1>5 DEF LogChange
    <2>2. first \in 1..4
      BY <2>1, FirstTopic
    <2> HIDE DEF first
    <2>3. topic \in {"link", "usb", "figures", "toy"}
      BY <2>2, TopicFacts
    <2> HIDE DEF topic
    <2>4. p' \in Values
      BY <1>1, <2>1, <2>3, ValueFacts DEF TaskTypeOK
    <2> QED
      BY <1>1, <2>1, <2>4 DEF TaskTypeOK
  <1>6. CASE DrawStatus
    <2>1. StatusRows \in 0..(Rows - 1)
      BY LogAssumption, RowsAssumption DEF StatusRows
    <2> QED
      BY <1>1, <1>6, <2>1 DEF DrawStatus, TaskTypeOK
  <1>7. CASE DrawLog
    <2>1. row' \in 0..(Rows - 1)
      BY <1>1, <1>7, RowsAssumption DEF DrawLog, TaskTypeOK
    <2>2. stage' \in {"boot", "read", "log", "draw"} /\ UNCHANGED <<frame, p>>
      BY <1>1, <1>7 DEF DrawLog, TaskTypeOK
    <2> QED
      BY <1>1, <2>1, <2>2 DEF TaskTypeOK
  <1>8. CASE LinkChanges \/ UsbChanges \/ ReportArrives \/ EndWrite
    BY <1>2, <1>8
    DEF LinkChanges, UsbChanges, ReportArrives, EndWrite, Change, Happens
  <1>9. CASE InDlog("write") \/ InDlog("display") \/ UNCHANGED vars
    BY <1>2, <1>9 DEF InDlog, vars
  <1> QED
    BY <1>3, <1>4, <1>5, <1>6, <1>7, <1>8, <1>9 DEF Next, DisplayTask

(* The types, with the panel's own invariant.                               *)
LEMMA TypeInvariant == Spec => [](TypeInv /\ PanelInv)
  <1>1. Init => TypeInv /\ PanelInv
    BY InitTypes, InitPanel DEF Init
  <1>2. TypeInv /\ PanelInv /\ [Next]_vars => TypeInv' /\ PanelInv'
    <2> SUFFICES ASSUME TypeInv, PanelInv, [Next]_vars PROVE TypeInv' /\ PanelInv'
      OBVIOUS
    <2>1. PanelInv' /\ PanelTypeOK'
      BY PanelKept DEF PanelInv
    <2>2. s_writes' \in Nat /\ s_writes' <= events'
      BY <2>1, WriteCount
    <2>3. LogStep
      BY LogSteps DEF TypeInv, TaskTypeOK, StateTypeOK
    <2>4. LogTypeOK' /\ DlogInv'
      BY <2>2, <2>3, LogTypes
    <2>5. TaskTypeOK' /\ StateTypeOK'
      BY <2>2, TaskTypes, StateTypes
    <2> QED
      BY <2>1, <2>4, <2>5 DEF TypeInv
  <1> QED
    BY <1>1, <1>2, PTL DEF Spec

(* The variables keep their types: what has been read, compared and said is *)
(* a value of its topic, and the head and every row a task writes to stay   *)
(* in the ring, also when two tasks are in dlog at once.                    *)
THEOREM DisplayTyping == Spec => []TypeOK
  BY TypeInvariant, TypeInvTypes, PTL

-----------------------------------------------------------------------------
(***************************************************************************)
(* The ring of lines.                                                      *)
(***************************************************************************)

\* The oldest line stands at the head, or the youngest does, which took its
\* place: the head has yet to follow.
OldestAtHead == \A i \in 1..LogLines : s_log[LogRow(i - 1)] = lines[i]
YoungestAtHead == \A i \in 1..LogLines : s_log[LogRow(i)] = lines[i]

(* A line that is put in the place of the oldest one, which the head shows, *)
(* leaves all others in their order.                                       *)
LEMMA PutLine ==
  ASSUME NEW line, s_log_head \in 0..(LogLines - 1),
         DOMAIN s_log = 0..(LogLines - 1),
         NEW S, lines \in Seq(S), line \in S, Len(lines) = LogLines, OldestAtHead,
         s_log' = [s_log EXCEPT ![s_log_head] = line],
         lines' = Append(Tail(lines), line), s_log_head' = s_log_head
  PROVE  YoungestAtHead'
  <1>1. LogLines \in Nat \ {0}
    BY LogAssumption
  <1>2. /\ Tail(lines) \in Seq(S) /\ Len(Tail(lines)) = LogLines - 1
        /\ \A i \in 1..(LogLines - 1) : Tail(lines)[i] = lines[i + 1]
    <2>1. lines # <<>>
      BY <1>1, EmptySeq
    <2> QED
      BY <1>1, <2>1, HeadTailProperties
  <1>3. /\ \A i \in 1..(LogLines - 1) : lines'[i] = lines[i + 1]
        /\ lines'[LogLines] = line
    <2> DEFINE rest == Tail(lines)
    <2>1. rest \in Seq(S) /\ Len(rest) = LogLines - 1
      BY <1>2
    <2>2. \A i \in 1..(LogLines - 1) : rest[i] = lines[i + 1]
      BY <1>2
    <2>3. lines' = Append(rest, line)
      OBVIOUS
    <2> HIDE DEF rest
    <2>4. /\ \A i \in 1..Len(rest) : Append(rest, line)[i] = rest[i]
          /\ Append(rest, line)[Len(rest) + 1] = line
      BY <2>1, AppendProperties
    <2>5. Len(rest) + 1 = LogLines
      BY <1>1, <2>1
    <2> QED
      BY <2>1, <2>2, <2>3, <2>4, <2>5
  <1>4. \A k \in 0..(LogLines - 1) : s_log'[k] = IF k = s_log_head THEN line ELSE s_log[k]
    OBVIOUS
  <1>5. ASSUME NEW i \in 1..LogLines
        PROVE  s_log'[(s_log_head + i) % LogLines] = lines'[i]
    <2> DEFINE k == (s_log_head + i) % LogLines
    <2>1. i \in 0..LogLines
      BY <1>1
    <2>2. k \in 0..(LogLines - 1)
      BY <2>1, RingFacts
    <2>3. CASE i = LogLines
      <3>1. k = s_log_head
        <4>1. k = IF s_log_head + i < LogLines THEN s_log_head + i
                  ELSE s_log_head + i - LogLines
          BY <2>1, RingFacts
        <4> HIDE DEF k
        <4> QED
          BY <1>1, <2>3, <4>1
      <3> HIDE DEF k
      <3>2. s_log'[k] = line
        BY <1>4, <2>2, <3>1
      <3>3. s_log'[k] = lines'[i]
        BY <1>3, <2>3, <3>2
      <3> QED
        BY <3>3 DEF k
    <2>4. CASE i \in 1..(LogLines - 1)
      <3>1. k # s_log_head
        BY <2>4, RingOther
      <3>2. i + 1 \in 1..LogLines /\ (i + 1) - 1 = i
        BY <1>1, <2>4
      <3>3. s_log[k] = lines[i + 1]
        <4>1. s_log[(s_log_head + ((i + 1) - 1)) % LogLines] = lines[i + 1]
          BY <3>2 DEF OldestAtHead, LogRow
        <4> QED
          BY <3>2, <4>1
      <3> HIDE DEF k
      <3>4. s_log'[k] = s_log[k]
        BY <1>4, <2>2, <3>1
      <3>5. s_log'[k] = lines'[i]
        BY <1>3, <2>4, <3>3, <3>4
      <3> QED
        BY <3>5 DEF k
    <2> QED
      BY <1>1, <2>3, <2>4
  <1> QED
    BY <1>5 DEF YoungestAtHead, LogRow

(* When the head follows, the oldest line is the one after the youngest.    *)
LEMMA HeadFollows ==
  ASSUME s_log_head \in 0..(LogLines - 1), YoungestAtHead,
         s_log_head' = (s_log_head + 1) % LogLines, UNCHANGED <<s_log, lines>>
  PROVE  OldestAtHead'
  <1>1. ASSUME NEW i \in 1..LogLines
        PROVE  s_log'[(s_log_head' + (i - 1)) % LogLines] = lines'[i]
    <2>1. (((s_log_head + 1) % LogLines) + (i - 1)) % LogLines
            = (s_log_head + i) % LogLines
      BY RingShift
    <2>2. s_log[(s_log_head + i) % LogLines] = lines[i]
      BY DEF YoungestAtHead, LogRow
    <2> QED
      BY <2>1, <2>2
  <1> QED
    BY <1>1 DEF OldestAtHead, LogRow

(* A task that begins with nobody in dlog, and goes on alone, keeps the     *)
(* order; one that joins another is a race.                                 *)
LEMMA RingSteps ==
  ASSUME TypeInv, RingInv, LogStep
  PROVE  RingInv'
  <1> SUFFICES ASSUME ~raced' PROVE RingInv'
    BY DEF RingInv
  <1>0. /\ s_log_head \in 0..(LogLines - 1) /\ DOMAIN s_log = 0..(LogLines - 1)
        /\ lines \in Seq({Blank} \cup LogTexts) /\ Len(lines) = LogLines
    BY DEF TypeInv, DlogInv, LogTypeOK
  <1> DEFINE Line == [at : {"idle", "format", "load", "store"},
                      line : {Blank} \cup LogTexts,
                      row : 0..(LogLines - 1), head : 0..(LogLines - 1)]
  <1>7. dlog \in [Tasks -> Line]
    BY DEF TypeInv, DlogInv
  <1>1. CASE UNCHANGED logVars
    BY <1>1 DEF logVars, RingInv, Alone, idle, LogRow
  <1>2. ASSUME NEW t \in Tasks, NEW line, idle(t), StartLog(t, line) PROVE RingInv'
    <2> DEFINE new == [at |-> "format", line |-> line, row |-> s_log_head, head |-> 0]
    <2>1. /\ ~raced /\ \A u \in Tasks : idle(u)
          /\ dlog' = [dlog EXCEPT ![t] = new] /\ UNCHANGED <<s_log, s_log_head, lines>>
      BY <1>2 DEF StartLog, idle
    <2>2. dlog'[t] = new /\ \A u \in Tasks \ {t} : dlog'[u] = dlog[u]
      BY <1>7, <2>1
    <2>3. \A u \in Tasks \ {t} : idle(u)'
      BY <2>1, <2>2 DEF idle
    <2>4. dlog'[t].at = "format" /\ dlog'[t].row = s_log_head
      BY <2>2
    <2>5. \A u \in Tasks : dlog'[u].at \in {"idle", "format"}
      BY <2>3, <2>4 DEF idle
    <2>6. OldestAtHead'
      BY <2>1 DEF RingInv, OldestAtHead, LogRow, idle
    <2>7. Alone' /\ \A u \in Tasks : ~idle(u)' => dlog'[u].row = s_log_head'
      BY <2>1, <2>3, <2>4 DEF Alone
    <2>8. \A u \in Tasks : dlog'[u].at # "store" /\ dlog'[u].at # "load"
      BY <2>5
    <2> QED
      BY <2>6, <2>7, <2>8 DEF RingInv, OldestAtHead
  <1>3. ASSUME NEW t \in Tasks, ~idle(t), Logging(t)
        PROVE  /\ ~raced /\ \A u \in Tasks \ {t} : idle(u)
               /\ dlog[t].row = s_log_head
               /\ dlog[t].at = "store" => dlog[t].head = s_log_head
               /\ dlog[t].at = "format" => OldestAtHead
               /\ dlog[t].at \in {"load", "store"} => YoungestAtHead
    <2>1. ~raced
      BY <1>3 DEF Logging, Format, LoadHead, StoreHead
    <2>2. \A u \in Tasks \ {t} : idle(u)
      BY <1>3, <2>1 DEF RingInv, Alone
    <2>3. dlog[t].at = "format" => \A u \in Tasks : dlog[u].at \in {"idle", "format"}
      BY <2>2 DEF idle
    <2> QED
      BY <1>3, <2>1, <2>2, <2>3 DEF RingInv, OldestAtHead, YoungestAtHead
  <1>4. ASSUME NEW t \in Tasks, Format(t) PROVE RingInv'
    <2> DEFINE line == dlog[t].line
               new == [dlog[t] EXCEPT !.at = "load"]
    <2>0. ~idle(t) /\ Logging(t) /\ dlog[t].at = "format"
      BY <1>4 DEF idle, Logging, Format
    <2>1. /\ ~raced /\ \A u \in Tasks \ {t} : idle(u)
          /\ dlog[t].row = s_log_head /\ OldestAtHead
      BY <1>3, <2>0
    <2>2. /\ s_log' = [s_log EXCEPT ![s_log_head] = line]
          /\ lines' = Append(Tail(lines), line)
          /\ dlog' = [dlog EXCEPT ![t] = new] /\ s_log_head' = s_log_head
      BY <1>4, <2>1 DEF Format
    <2>3. line \in {Blank} \cup LogTexts
      BY DlogFacts DEF TypeInv
    <2>4. YoungestAtHead'
      <3> HIDE DEF line
      <3> DEFINE S == {Blank} \cup LogTexts
      <3>1. lines \in Seq(S) /\ line \in S
        BY <1>0, <2>3
      <3> HIDE DEF S
      <3> QED
        BY <1>0, <2>1, <2>2, <3>1, PutLine
    <2>5. dlog'[t] = new /\ \A u \in Tasks \ {t} : dlog'[u] = dlog[u]
      BY <1>7, <2>2
    <2>6. new.at = "load" /\ new.row = s_log_head
      BY <1>7, <2>1
    <2>7. \A u \in Tasks \ {t} : idle(u)'
      BY <2>1, <2>5 DEF idle
    <2>8. Alone' /\ \A u \in Tasks : ~idle(u)' => dlog'[u].row = s_log_head'
      BY <2>2, <2>5, <2>6, <2>7 DEF Alone
    <2>9. \A u \in Tasks : dlog'[u].at # "store"
      BY <2>5, <2>6, <2>7 DEF idle
    <2>10. ~\A u \in Tasks : dlog'[u].at \in {"idle", "format"}
      BY <2>5, <2>6
    <2> QED
      BY <2>4, <2>8, <2>9, <2>10 DEF RingInv, YoungestAtHead
  <1>5. ASSUME NEW t \in Tasks, LoadHead(t) PROVE RingInv'
    <2>0. ~idle(t) /\ Logging(t) /\ dlog[t].at = "load"
      BY <1>5 DEF idle, Logging, LoadHead
    <2>1. /\ ~raced /\ \A u \in Tasks \ {t} : idle(u)
          /\ dlog[t].row = s_log_head /\ YoungestAtHead
      BY <1>3, <2>0
    <2> DEFINE new == [dlog[t] EXCEPT !.at = "store", !.head = s_log_head]
    <2>2. dlog' = [dlog EXCEPT ![t] = new] /\ UNCHANGED <<s_log, s_log_head, lines>>
      BY <1>5, <2>1 DEF LoadHead
    <2>3. dlog'[t] = new /\ \A u \in Tasks \ {t} : dlog'[u] = dlog[u]
      BY <1>7, <2>2
    <2>4. new.at = "store" /\ new.row = s_log_head /\ new.head = s_log_head
      BY <1>7, <2>1
    <2>5. \A u \in Tasks \ {t} : idle(u)'
      BY <2>1, <2>3 DEF idle
    <2>6. Alone' /\ \A u \in Tasks : ~idle(u)' => dlog'[u].row = s_log_head'
      BY <2>2, <2>3, <2>4, <2>5 DEF Alone
    <2>7. \A u \in Tasks : dlog'[u].at = "store" => dlog'[u].head = s_log_head'
      BY <2>2, <2>3, <2>4, <2>5 DEF idle
    <2>8. ~\A u \in Tasks : dlog'[u].at \in {"idle", "format"}
      BY <2>3, <2>4
    <2>9. YoungestAtHead'
      BY <2>1, <2>2 DEF YoungestAtHead, LogRow
    <2> QED
      BY <2>6, <2>7, <2>8, <2>9 DEF RingInv, YoungestAtHead
  <1>6. ASSUME NEW t \in Tasks, StoreHead(t) PROVE RingInv'
    <2>0. ~idle(t) /\ Logging(t) /\ dlog[t].at = "store"
      BY <1>6 DEF idle, Logging, StoreHead
    <2>1. /\ ~raced /\ \A u \in Tasks \ {t} : idle(u)
          /\ dlog[t].head = s_log_head /\ YoungestAtHead
      BY <1>3, <2>0
    <2>2. /\ s_log_head' = (s_log_head + 1) % LogLines
          /\ dlog' = [dlog EXCEPT ![t] = Idle] /\ UNCHANGED <<s_log, lines>>
      BY <1>6, <2>1 DEF StoreHead
    <2>3. dlog'[t] = Idle /\ \A u \in Tasks \ {t} : dlog'[u] = dlog[u]
      BY <1>7, <2>2
    <2>4. \A u \in Tasks : idle(u)'
      BY <2>1, <2>3 DEF idle, Idle
    <2>5. OldestAtHead'
      BY <1>0, <2>1, <2>2, HeadFollows
    <2>6. \A u \in Tasks : dlog'[u].at # "store" /\ dlog'[u].at # "load"
      BY <2>4 DEF idle
    <2> QED
      BY <2>4, <2>5, <2>6 DEF RingInv, OldestAtHead, Alone
  <1> QED
    BY <1>1, <1>2, <1>4, <1>5, <1>6 DEF LogStep, Logging

(* As long as no task joins another in dlog, the lines of the ring are the  *)
(* last ones, and drawn from the oldest on.                                 *)
THEOREM RingOrder == Spec => []LogInOrder
  <1>1. Init => RingInv
    <2> SUFFICES ASSUME Init PROVE RingInv
      OBVIOUS
    <2>1. LogLines \in Nat \ {0}
      BY LogAssumption
    <2>2. \A t \in Tasks : idle(t) /\ dlog[t].at # "store" /\ dlog[t].at # "load"
      BY DEF Init, idle, Idle
    <2>3. /\ s_log_head = 0 /\ \A k \in 0..(LogLines - 1) : s_log[k] = Blank
          /\ \A i \in 1..LogLines : lines[i] = Blank
      BY DEF Init
    <2>4. ASSUME NEW i \in 1..LogLines PROVE s_log[LogRow(i - 1)] = lines[i]
      <3>1. 0 \in 0..(LogLines - 1) /\ i - 1 \in 0..LogLines
        BY <2>1
      <3>2. (0 + (i - 1)) % LogLines \in 0..(LogLines - 1)
        BY <3>1, RingFacts
      <3> QED
        BY <2>3, <3>2 DEF LogRow
    <2> QED
      BY <2>2, <2>4 DEF RingInv, Alone
  <1>2. TypeInv /\ RingInv /\ [Next]_vars => RingInv'
    <2> SUFFICES ASSUME TypeInv, RingInv, [Next]_vars PROVE RingInv'
      OBVIOUS
    <2>1. LogStep
      BY LogSteps DEF TypeInv, TaskTypeOK, StateTypeOK
    <2> QED
      BY <2>1, RingSteps
  <1>3. RingInv => LogInOrder
    BY DEF RingInv, LogInOrder, idle
  <1> QED
    BY <1>1, <1>2, <1>3, TypeInvariant, PTL DEF Spec

-----------------------------------------------------------------------------
(***************************************************************************)
(* What display_task has logged.                                           *)
(***************************************************************************)

TopicNames == {"link", "usb", "figures", "toy"}

\* What the line display_task is writing says about a topic, or else the last one.
Saying(t) ==
  IF dlog["display"].at = "format" /\ dlog["display"].line[1] = t
  THEN dlog["display"].line[2] ELSE said[t]
Logged(t) == Saying(t) = p[t] \/ (t = "toy" /\ p[t] = 0)

\* What display_task takes for logged has been, or is toy 0, for which there is
\* no line; write_task has nothing to say about a topic; and what has been drawn
\* or is drawn next had nothing left to log.
LoggedInv ==
  /\ \A t \in TopicNames : Logged(t)
  /\ ~idle("write") => dlog["write"].line[1] = "lost"
  /\ stage \in {"read", "draw"} => idle("display")
  /\ stage = "draw" => \A t \in TopicNames : p[t] = frame[t]

\* The log agrees with the status rows of the frame that is being drawn.
FrameIsLogged ==
  stage = "draw" =>
    \A t \in TopicNames : said[t] = frame[t] \/ (t = "toy" /\ frame[t] = 0)

(* The values have the four topics as their fields.                         *)
LEMMA ValueDomain ==
  ASSUME NEW v \in Values, NEW x
  PROVE  /\ DOMAIN v = TopicNames
         /\ \A t \in TopicNames : [v EXCEPT ![t] = x][t] = x
         /\ \A t, u \in TopicNames : u # t => [v EXCEPT ![t] = x][u] = v[u]
  <1>1. DOMAIN v = TopicNames
    BY ValueSet DEF TopicNames
  <1>2. v = [t \in TopicNames |-> v[t]]
    BY <1>1, ValueSet DEF TopicNames
  <1> QED
    BY <1>1, <1>2

(* A task that begins a line or goes on with it leaves the other task's.    *)
LEMMA OtherTask ==
  ASSUME TypeInv, NEW t \in Tasks, NEW u \in Tasks \ {t},
         Logging(t) \/ \E line : StartLog(t, line)
  PROVE  dlog'[u] = dlog[u]
  <1>1. DOMAIN dlog = Tasks
    BY DEF TypeInv, DlogInv
  <1> QED
    BY <1>1 DEF Logging, Format, LoadHead, StoreHead, StartLog

(* A task in dlog keeps the line it began with and formats it once.         *)
LEMMA LineStays ==
  ASSUME TypeInv, NEW t \in Tasks, Logging(t)
  PROVE  /\ idle(t)' \/ dlog'[t].line = dlog[t].line
         /\ dlog'[t].at # "format"
  <1> DEFINE d == dlog[t]
  <1>1. d = [at |-> d.at, line |-> d.line, row |-> d.row, head |-> d.head]
    BY DlogFacts DEF TypeInv
  <1>2. DOMAIN dlog = Tasks
    BY DEF TypeInv, DlogInv
  <1>3. CASE Format(t)
    <2>1. dlog'[t] = [d EXCEPT !.at = "load"]
      BY <1>2, <1>3 DEF Format
    <2> HIDE DEF d
    <2>2. dlog'[t] = [at |-> "load", line |-> d.line, row |-> d.row,
                      head |-> d.head]
      BY <1>1, <2>1
    <2> QED
      BY <2>2 DEF d
  <1>4. CASE LoadHead(t)
    <2>1. PICK h \in {d.row, s_log_head} :
            dlog'[t] = [d EXCEPT !.at = "store", !.head = h]
      BY <1>2, <1>4 DEF LoadHead
    <2> HIDE DEF d
    <2>2. dlog'[t] = [at |-> "store", line |-> d.line, row |-> d.row, head |-> h]
      BY <1>1, <2>1
    <2> QED
      BY <2>2 DEF d
  <1>5. CASE StoreHead(t)
    <2>1. dlog'[t] = Idle
      BY <1>2, <1>5 DEF StoreHead
    <2> QED
      BY <2>1 DEF Idle, idle
  <1> QED
    BY <1>3, <1>4, <1>5 DEF Logging

(* Nothing is taken for logged that is not, whatever changes while          *)
(* display_task logs and write_task does.                                  *)
LEMMA NextLogged == TypeInv /\ LoggedInv /\ [Next]_vars => LoggedInv'
  <1> SUFFICES ASSUME TypeInv, LoggedInv, [Next]_vars PROVE LoggedInv'
    OBVIOUS
  <1>0. /\ said \in Values /\ p \in Values /\ frame \in Values
        /\ DOMAIN dlog = Tasks
        /\ "display" \in Tasks /\ "write" \in Tasks /\ "display" # "write"
    BY DEF TypeInv, LogTypeOK, TaskTypeOK, DlogInv, Tasks
  <1>1. ASSUME UNCHANGED <<said, dlog, p, frame, stage>> PROVE LoggedInv'
    BY <1>1 DEF LoggedInv, Logged, Saying, idle
  <1>2. CASE LinkChanges \/ UsbChanges \/ ReportArrives \/ UNCHANGED vars
    BY <1>1, <1>2
    DEF LinkChanges, UsbChanges, ReportArrives, Change, Happens, logVars, taskVars, vars
  <1>3. CASE EndWrite
    <2>1. UNCHANGED <<p, frame, stage>>
      BY <1>3 DEF EndWrite, Happens, taskVars
    <2>2. CASE UNCHANGED logVars
      BY <1>1, <2>1, <2>2 DEF logVars
    <2>3. CASE StartLog("write", <<"lost", s_writes + 1>>)
      <3>1. dlog'["display"] = dlog["display"]
        BY <1>0, <2>3, OtherTask
      <3>2. dlog'["write"].line[1] = "lost" /\ said' = said
        BY <1>0, <2>3 DEF StartLog
      <3> QED
        BY <2>1, <3>1, <3>2 DEF LoggedInv, Logged, Saying, idle
    <2> QED
      BY <1>3, <2>2, <2>3 DEF EndWrite
  <1>4. CASE Boot
    <2>1. CASE UNCHANGED <<logVars, stage>>
      BY <1>1, <1>4, <2>1 DEF Boot, logVars
    <2>2. CASE idle("display") /\ StartLog("display", <<"boot">>) /\ UNCHANGED stage
      <3>1. dlog'["write"] = dlog["write"]
        BY <1>0, <2>2, OtherTask
      <3>2. UNCHANGED <<said, p, frame, stage>> /\ stage = "boot"
        BY <1>4, <2>2 DEF Boot, StartLog
      <3>3. \A t \in TopicNames : said[t] = p[t] \/ (t = "toy" /\ p[t] = 0)
        BY <2>2 DEF LoggedInv, Logged, Saying, idle
      <3>4. dlog'["display"].line[1] = "boot"
        BY <1>0, <2>2 DEF StartLog
      <3> QED
        BY <3>1, <3>2, <3>3, <3>4 DEF LoggedInv, Logged, Saying, idle, TopicNames
    <2>3. CASE idle("display") /\ stage' = "read" /\ UNCHANGED logVars
      BY <1>4, <2>3 DEF Boot, logVars, LoggedInv, Logged, Saying, idle
    <2> QED
      BY <1>4, <2>1, <2>2, <2>3 DEF Boot
  <1>5. CASE ReadState
    BY <1>5 DEF ReadState, logVars, LoggedInv, Logged, Saying, idle
  <1>6. CASE LogChange
    <2> DEFINE first == CHOOSE i \in Compared : \A j \in Compared : i <= j
    <2>1. /\ Compared # {} /\ idle("display") /\ stage = "log"
          /\ p' = [p EXCEPT ![Topics[first]] = frame[Topics[first]]]
          /\ \/ /\ Topics[first] = "toy" /\ frame[Topics[first]] = 0
                /\ UNCHANGED logVars
             \/ StartLog("display", <<Topics[first], frame[Topics[first]]>>)
          /\ UNCHANGED <<frame, stage>>
      BY <1>6 DEF LogChange
    <2>2. first \in 1..4
      BY <2>1, FirstTopic
    <2> HIDE DEF first
    <2>3. Topics[first] \in TopicNames
      BY <2>2, TopicFacts DEF TopicNames
    <2>4. PICK topic \in TopicNames : topic = Topics[first]
      BY <2>3
    <2>5. PICK value : value = frame[topic]
      OBVIOUS
    <2>6. said' = said /\ dlog'["write"] = dlog["write"]
      BY <1>0, <2>1, OtherTask DEF StartLog, logVars
    <2>7. \A t \in TopicNames : said[t] = p[t] \/ (t = "toy" /\ p[t] = 0)
      BY <2>1 DEF LoggedInv, Logged, Saying, idle
    <2>8. p'[topic] = value /\ \A t \in TopicNames \ {topic} : p'[t] = p[t]
      BY <1>0, <2>1, <2>4, <2>5, ValueDomain
    <2>9. CASE topic = "toy" /\ value = 0 /\ UNCHANGED logVars
      <3>1. \A t \in TopicNames : Saying(t)' = said[t]
        BY <2>1, <2>9 DEF Saying, logVars, idle
      <3>2. \A t \in TopicNames : Logged(t)'
        BY <2>7, <2>8, <2>9, <3>1 DEF Logged
      <3> QED
        BY <2>1, <2>6, <3>2 DEF LoggedInv, idle
    <2>10. CASE StartLog("display", <<topic, value>>)
      <3>1. /\ dlog'["display"].at = "format"
            /\ dlog'["display"].line = <<topic, value>>
        BY <1>0, <2>10 DEF StartLog
      <3>2. Saying(topic)' = value
        BY <3>1 DEF Saying
      <3>3. \A t \in TopicNames \ {topic} : Saying(t)' = said[t]
        BY <2>6, <3>1 DEF Saying
      <3>4. \A t \in TopicNames : Logged(t)'
        BY <2>7, <2>8, <3>2, <3>3 DEF Logged
      <3> QED
        BY <2>1, <2>6, <3>4 DEF LoggedInv, idle
    <2> QED
      BY <2>1, <2>4, <2>5, <2>9, <2>10
  <1>7. CASE DrawStatus
    <2>1. /\ idle("display") /\ Compared = {} /\ stage' = "draw"
          /\ UNCHANGED <<said, dlog, p, frame>>
      BY <1>7 DEF DrawStatus, logVars
    <2>2. \A i \in 1..4 : frame[Topics[i]] = p[Topics[i]]
      BY <2>1, TopicFacts DEF Compared
    <2>3. \A t \in TopicNames : p[t] = frame[t]
      BY <2>2 DEF Topics, TopicNames
    <2> QED
      BY <2>1, <2>3 DEF LoggedInv, Logged, Saying, idle
  <1>8. CASE DrawLog
    <2>1. stage = "draw" /\ UNCHANGED <<said, dlog, p, frame>>
      BY <1>8 DEF DrawLog, logVars
    <2> QED
      BY <2>1 DEF LoggedInv, Logged, Saying, idle
  <1>9. CASE InDlog("write")
    <2>1. UNCHANGED <<p, frame, stage>> /\ dlog'["display"] = dlog["display"]
      BY <1>0, <1>9, OtherTask DEF InDlog, taskVars
    <2>2. ~idle("write")
      BY <1>9 DEF InDlog, Logging, Format, LoadHead, StoreHead, idle
    <2>3. dlog["write"].line[1] = "lost" /\ "lost" \notin DOMAIN said
      BY <1>0, <2>2, ValueDomain DEF LoggedInv, TopicNames
    <2>4. said' = said
      BY <1>9, <2>3 DEF InDlog, Logging, Format, LoadHead, StoreHead
    <2>5. idle("write")' \/ dlog'["write"].line = dlog["write"].line
      BY <1>0, <1>9, LineStays DEF InDlog
    <2> QED
      BY <2>1, <2>3, <2>4, <2>5 DEF LoggedInv, Logged, Saying, idle
  <1>10. CASE InDlog("display")
    <2>1. UNCHANGED <<p, frame, stage>> /\ dlog'["write"] = dlog["write"]
      BY <1>0, <1>10, OtherTask DEF InDlog, taskVars
    <2>2. ~idle("display") /\ stage \notin {"read", "draw"}
      BY <1>10 DEF InDlog, Logging, Format, LoadHead, StoreHead, idle, LoggedInv
    <2>3. \A t \in TopicNames : said'[t] = p[t] \/ (t = "toy" /\ p[t] = 0)
      <3>1. CASE Format("display")
        <4> DEFINE line == dlog["display"].line
        <4>1. said' = IF line[1] \in DOMAIN said
                      THEN [said EXCEPT ![line[1]] = line[2]] ELSE said
          BY <3>1 DEF Format
        <4>2. DOMAIN said = TopicNames
          BY <1>0, ValueDomain
        <4>3. dlog["display"].at = "format"
          BY <3>1 DEF Format
        <4> HIDE DEF line
        <4>4. ASSUME NEW t \in TopicNames PROVE said'[t] = Saying(t)
          <5>1. CASE line[1] = t
            BY <1>0, <4>1, <4>2, <4>3, <5>1, ValueDomain DEF Saying, line
          <5>2. CASE line[1] # t
            BY <1>0, <4>1, <4>2, <4>3, <5>2, ValueDomain DEF Saying, line
          <5> QED
            BY <5>1, <5>2
        <4> QED
          BY <4>4 DEF LoggedInv, Logged
      <3>2. CASE LoadHead("display") \/ StoreHead("display")
        BY <3>2 DEF LoadHead, StoreHead, LoggedInv, Logged, Saying
      <3> QED
        BY <1>10, <3>1, <3>2 DEF InDlog, Logging
    <2>4. dlog'["display"].at # "format"
      BY <1>0, <1>10, LineStays DEF InDlog
    <2> QED
      BY <2>1, <2>2, <2>3, <2>4 DEF LoggedInv, Logged, Saying, idle
  <1> QED
    BY <1>2, <1>3, <1>4, <1>5, <1>6, <1>7, <1>8, <1>9, <1>10 DEF Next, DisplayTask

(* While a frame is drawn the log agrees with its status rows: every change *)
(* display_task has compared is in the last line about its topic, also when *)
(* link_is_linked() and the others have changed since and write_task has    *)
(* logged in between (main.c:180-183).                                      *)
THEOREM FrameLogged == Spec => []FrameIsLogged
  <1>1. Init => LoggedInv
    BY DEF Init, LoggedInv, Logged, Saying, idle, Idle, Tasks
  <1>2. TypeInv /\ LoggedInv => FrameIsLogged
    <2> SUFFICES ASSUME TypeInv, LoggedInv, stage = "draw",
                        NEW t \in TopicNames
                 PROVE  said[t] = frame[t] \/ (t = "toy" /\ frame[t] = 0)
      BY DEF FrameIsLogged
    <2>1. idle("display") /\ Logged(t) /\ p[t] = frame[t]
      BY DEF LoggedInv
    <2> QED
      BY <2>1 DEF Logged, Saying, idle
  <1> QED
    BY <1>1, <1>2, NextLogged, TypeInvariant, PTL DEF Spec

=============================================================================
