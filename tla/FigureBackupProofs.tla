------------------------- MODULE FigureBackupProofs -------------------------
(***************************************************************************)
(* Proofs about FigureBackup, for any figures, slots, blocks, writes and   *)
(* restarts.                                                               *)
(***************************************************************************)
EXTENDS FigureBackup, SequenceTheorems, TLAPS

(***************************************************************************)
(* The inductive invariant: s_snoop agrees with the tags wherever it is    *)
(* known to (TruthInv), so does what the snapshot of a write is compared   *)
(* with (ExpectIsTrue), and a restore that may still count on its figure   *)
(* holds the image of that figure (RestoreIsTrue).  With them go           *)
(* FiledUnderOwnUid and RestoreIsExact, properties of the model that are   *)
(* inductive once TypeOK and these are known.                              *)
(***************************************************************************)

OneSlotEach ==
  \A s, t \in Slots : onSlot[s] = onSlot[t] /\ onSlot[s] # NoFigure => s = t

UidOnTag == \A f \in Figures : contents[f][0] = f

KnownIsTrue ==
  \A s \in Slots : \A b \in known[s] :
    onSlot[s] \in Figures /\ s_snoop[s][b] = contents[onSlot[s]][b]

AnswerIsTrue ==
  answer # NoAnswer =>
    /\ answer.fresh => /\ onSlot[answer.slot] \in Figures
                       /\ answer.value = contents[onSlot[answer.slot]][answer.block]
    /\ ~answer.fresh => answer.block \notin known[answer.slot]

TruthInv == OneSlotEach /\ UidOnTag /\ KnownIsTrue /\ AnswerIsTrue

ExpectIsTrue ==
  rxPc = "snapshot" /\ expect # NoImage =>
    /\ known[frame.slot] = Blocks
    /\ onSlot[frame.slot] \in Figures
    /\ expect = contents[onSlot[frame.slot]]

RestoreIsTrue ==
  /\ rsPc # "write" => restoreFor = NoFigure /\ ~exact /\ next = 1
  /\ restoreFor # NoFigure => bak[0] = restoreFor /\ onSlot[rsSlot] = restoreFor
  /\ exact => restoreFor # NoFigure

-----------------------------------------------------------------------------
(***************************************************************************)
(* Type correctness.                                                       *)
(***************************************************************************)

(* What the assumption gives of slots, blocks and images.                   *)
LEMMA ConstantFacts ==
  /\ 0 \in Slots /\ 0 \in Blocks
  /\ BlankImage \in Images
  /\ \A f \in Figures : [b \in Blocks |-> f] \in Images
  /\ Keys \subseteq Values
  <1>1. 0 \in Slots /\ 0 \in Blocks
    BY FigureBackupAssumption DEF Slots, Blocks
  <1> QED
    BY <1>1 DEF BlankImage, Images, Values, Keys

(* Overwriting a block of an image, the UID only by a UID.                  *)
LEMMA ImageUpdate ==
  ASSUME NEW img \in Images, NEW b \in Blocks, NEW v \in Values, b = 0 => v \in Keys
  PROVE  /\ [img EXCEPT ![b] = v] \in Images
         /\ [img EXCEPT ![b] = v][b] = v
         /\ \A c \in Blocks : c # b => [img EXCEPT ![b] = v][c] = img[c]
  BY ConstantFacts DEF Images

(* An answer that something has made out of date is still an answer.        *)
LEMMA StaleAnswer ==
  ASSUME TypeOK, answer.slot \in Slots
  PROVE  /\ [answer EXCEPT !.fresh = FALSE] \in Answers
         /\ [answer EXCEPT !.fresh = FALSE].slot = answer.slot
         /\ [answer EXCEPT !.fresh = FALSE].block = answer.block
         /\ [answer EXCEPT !.fresh = FALSE].value = answer.value
         /\ [answer EXCEPT !.fresh = FALSE].fresh = FALSE
         /\ answer.block = 0 => answer.value \in Keys
  <1>1. NoAnswer.slot \notin Slots
    BY DEF NoAnswer, Slots
  <1>2. answer \in Answers
    BY <1>1 DEF TypeOK
  <1> QED
    BY <1>2 DEF Answers, TypeOK

(* What a Write command does to the portal.                                 *)
LEMMA StoreFacts ==
  ASSUME TypeOK, NEW s \in Slots, NEW b \in Blocks, NEW v \in Values,
         StoreBlock(s, b, v)
  PROVE  /\ contents' \in [Figures -> Images]
         /\ answer' \in Answers \cup {NoAnswer}
         /\ answer'.block = 0 => answer'.value \in Keys
         /\ known' \in [Slots -> SUBSET Blocks]
  <1>1. CASE onSlot[s] = NoFigure \/ b = 0
    BY <1>1 DEF StoreBlock, TypeOK
  <1>2. CASE ~(onSlot[s] = NoFigure \/ b = 0)
    <2>1. onSlot[s] \in Figures
      BY <1>2 DEF TypeOK
    <2>2. contents[onSlot[s]] \in Images
      BY <2>1 DEF TypeOK
    <2>3. [contents[onSlot[s]] EXCEPT ![b] = v] \in Images
      BY <1>2, <2>2, ImageUpdate
    <2>4. contents' = [contents EXCEPT ![onSlot[s]] = [contents[onSlot[s]] EXCEPT ![b] = v]]
      BY <1>2 DEF StoreBlock
    <2>5. contents' \in [Figures -> Images]
      BY <2>1, <2>3, <2>4 DEF TypeOK
    <2>6. /\ answer' \in Answers \cup {NoAnswer}
          /\ answer'.block = 0 => answer'.value \in Keys
      <3>1. CASE answer.slot = s /\ answer.block = b
        BY <1>2, <3>1, StaleAnswer DEF StoreBlock
      <3>2. CASE ~(answer.slot = s /\ answer.block = b)
        BY <1>2, <3>2 DEF StoreBlock, TypeOK
      <3> QED
        BY <3>1, <3>2
    <2>7. known' \in [Slots -> SUBSET Blocks]
      <3>1. known' = [known EXCEPT ![s] = known[s] \ {b}]
        BY <1>2 DEF StoreBlock
      <3>2. known[s] \ {b} \in SUBSET Blocks /\ known \in [Slots -> SUBSET Blocks]
        BY DEF TypeOK
      <3> QED
        BY <3>1, <3>2
    <2> QED
      BY <2>5, <2>6, <2>7
  <1> QED
    BY <1>1, <1>2

LEMMA InitTypeOK == Init => TypeOK
  <1> SUFFICES ASSUME Init PROVE TypeOK
    OBVIOUS
  <1>1. /\ contents \in [Figures -> Images]
        /\ onSlot \in [Slots -> Figures \cup {NoFigure}]
        /\ s_snoop \in [Slots -> Images]
        /\ s_backed_up \in [Slots -> BOOLEAN]
        /\ nvs \in [Keys -> Images \cup {NoImage}]
        /\ known \in [Slots -> SUBSET Blocks]
    BY ConstantFacts DEF Init
  <1>2. s_bak_q \in Seq(Images) /\ Len(s_bak_q) <= BakQCap
    <2>1. s_bak_q \in Seq(Images) /\ Len(s_bak_q) = 0
      BY DEF Init
    <2> QED
      BY <2>1, FigureBackupAssumption
  <1>3. events \in 0..MaxEvents /\ writes \in 0..MaxWrites /\ next \in 1..NumBlocks
    BY FigureBackupAssumption DEF Init
  <1>4. answer = NoAnswer /\ (answer.block = 0 => answer.value \in Keys)
    BY DEF Init, NoAnswer, Keys
  <1> QED
    BY <1>1, <1>2, <1>3, <1>4, ConstantFacts DEF Init, TypeOK

(* A frame that rx_task works on is a frame.                                *)
LEMMA FrameFacts ==
  ASSUME TypeOK, frame # NoFrame
  PROVE  frame.slot \in Slots /\ frame.block \in Blocks /\ frame.value \in Values
  BY DEF TypeOK, WriteFrames

(* A block of an image that is written over block b # 0, or is the UID.     *)
LEMMA BlockFacts ==
  ASSUME NEW img \in Images, NEW b \in Blocks
  PROVE  img[b] \in Values /\ (b = 0 => img[b] \in Keys)
  BY DEF Images

(* Every action keeps the types.                                            *)
LEMMA NextTypeOK == TypeOK /\ [Next]_vars => TypeOK'
  <1> SUFFICES ASSUME TypeOK, [Next]_vars PROVE TypeOK'
    OBVIOUS
  <1> USE DEF tagVars, snoopVars, rxVars, nvsVars, restoreVars, ghostVars
  <1>1. ASSUME NEW f \in Figures, NEW s \in Slots, PlaceFigure(f, s) PROVE TypeOK'
    <2>1. events' \in 0..MaxEvents
      BY <1>1, FigureBackupAssumption DEF PlaceFigure, TypeOK
    <2> QED
      BY <1>1, <2>1 DEF PlaceFigure, TypeOK
  <1>2. ASSUME NEW s \in Slots, RemoveFigure(s) PROVE TypeOK'
    <2>1. /\ answer' \in Answers \cup {NoAnswer}
          /\ answer'.block = 0 => answer'.value \in Keys
      <3>1. CASE answer.slot = s
        BY <1>2, <3>1, StaleAnswer DEF RemoveFigure
      <3>2. CASE answer.slot # s
        BY <1>2, <3>2 DEF RemoveFigure, TypeOK
      <3> QED
        BY <3>1, <3>2
    <2>2. known' \in [Slots -> SUBSET Blocks]
      BY <1>2 DEF RemoveFigure, TypeOK
    <2>3. exact' \in BOOLEAN /\ expect' \in Images \cup {NoImage}
          /\ restoreFor' \in Figures \cup {NoFigure}
      BY <1>2 DEF RemoveFigure, TypeOK
    <2> QED
      BY <1>2, <2>1, <2>2, <2>3 DEF RemoveFigure, TypeOK
  <1>3. ASSUME NEW s \in Slots, NEW b \in Blocks, ReadBlock(s, b) PROVE TypeOK'
    <2>1. contents[onSlot[s]] \in Images
      BY <1>3 DEF ReadBlock, TypeOK
    <2>2. answer' \in Answers /\ (answer'.block = 0 => answer'.value \in Keys)
      BY <1>3, <2>1, BlockFacts DEF ReadBlock, Answers
    <2> QED
      BY <1>3, <2>2 DEF ReadBlock, TypeOK
  <1>4. CASE SnoopStatus
    BY <1>4 DEF SnoopStatus, TypeOK
  <1>5. CASE SnoopQuery
    <2>1. answer \in Answers
      BY <1>5 DEF SnoopQuery, TypeOK
    <2>2. answer.slot \in Slots /\ answer.block \in Blocks /\ answer.value \in Values
      BY <2>1 DEF Answers
    <2>3. s_snoop[answer.slot] \in Images
      BY <2>2 DEF TypeOK
    <2>4. [s_snoop[answer.slot] EXCEPT ![answer.block] = answer.value] \in Images
      BY <2>2, <2>3, ImageUpdate DEF TypeOK
    <2>5. s_snoop' = [s_snoop EXCEPT ![answer.slot] =
                        [s_snoop[answer.slot] EXCEPT ![answer.block] = answer.value]]
      BY <1>5 DEF SnoopQuery
    <2>6. s_snoop' \in [Slots -> Images]
      BY <2>4, <2>5 DEF TypeOK
    <2>7. known' \in [Slots -> SUBSET Blocks]
      BY <1>5, <2>2 DEF SnoopQuery, TypeOK
    <2>8. answer' = NoAnswer /\ (answer'.block = 0 => answer'.value \in Keys)
      BY <1>5 DEF SnoopQuery, NoAnswer, Keys
    <2> QED
      BY <1>5, <2>6, <2>7, <2>8 DEF SnoopQuery, TypeOK
  <1>6. CASE ReceiveWrite
    <2>1. writes' \in 0..MaxWrites
      BY <1>6, FigureBackupAssumption DEF ReceiveWrite, TypeOK
    <2>2. frame' \in WriteFrames
      <3>1. CASE writes < MaxWrites /\ frame' \in NewFrames
        <4>1. writes + 1 \in Values
          BY <3>1, FigureBackupAssumption DEF TypeOK, Values
        <4> QED
          BY <3>1, <4>1 DEF NewFrames, WriteFrames
      <3>2. CASE frame # NoFrame /\ frame' = frame
        BY <3>2 DEF TypeOK
      <3> QED
        BY <1>6, <3>1, <3>2 DEF ReceiveWrite
    <2>3. frame'.slot \in Slots /\ frame' # NoFrame
      BY <2>2 DEF WriteFrames, NoFrame, Slots
    <2>4. expect' \in Images \cup {NoImage}
      BY <1>6, <2>3 DEF ReceiveWrite, SnoopedWhole, TypeOK
    <2>5. rxPc' \in {"idle", "snapshot", "mark", "deliver"}
      BY <1>6 DEF ReceiveWrite
    <2> QED
      BY <1>6, <2>1, <2>2, <2>3, <2>4, <2>5 DEF ReceiveWrite, TypeOK
  <1>7. CASE RequestBackup
    <2>1. s_snoop[frame.slot] \in Images
      BY <1>7, FrameFacts DEF RequestBackup, TypeOK
    <2>2. s_bak_q' \in Seq(Images) /\ Len(s_bak_q') <= BakQCap
      <3>1. CASE Len(s_bak_q) < BakQCap
        BY <1>7, <2>1, <3>1, FigureBackupAssumption DEF RequestBackup, TypeOK
      <3>2. CASE ~(Len(s_bak_q) < BakQCap)
        BY <1>7, <3>2 DEF RequestBackup, TypeOK
      <3> QED
        BY <3>1, <3>2
    <2> QED
      BY <1>7, <2>2 DEF RequestBackup, TypeOK
  <1>8. CASE MarkBackedUp
    BY <1>8, FrameFacts DEF MarkBackedUp, TypeOK
  <1>9. CASE DeliverWrite
    <2>1. exact' \in BOOLEAN
      BY <1>9 DEF DeliverWrite, TypeOK
    <2>2. CASE StoreBlock(frame.slot, frame.block, frame.value)
      <3>1. frame.slot \in Slots /\ frame.block \in Blocks /\ frame.value \in Values
        BY <1>9, FrameFacts DEF DeliverWrite, TypeOK
      <3> QED
        BY <1>9, <2>1, <2>2, <3>1, StoreFacts DEF DeliverWrite, TypeOK
    <2>3. CASE UNCHANGED <<contents, answer, known>>
      BY <1>9, <2>1, <2>3 DEF DeliverWrite, TypeOK
    <2> QED
      BY <1>9, <2>2, <2>3 DEF DeliverWrite
  <1>10. CASE TakeBackup
    <2>1. Head(s_bak_q) \in Images
      BY <1>10 DEF TakeBackup, TypeOK
    <2>2. Tail(s_bak_q) \in Seq(Images) /\ Len(Tail(s_bak_q)) <= BakQCap
      BY <1>10, FigureBackupAssumption DEF TakeBackup, TypeOK
    <2> QED
      BY <1>10, <2>1, <2>2 DEF TakeBackup, TypeOK
  <1>11. CASE SaveBackup
    <2>1. [nvs EXCEPT ![req[0]] = req] \in [Keys -> Images \cup {NoImage}]
      BY DEF TypeOK
    <2> QED
      BY <1>11, <2>1 DEF SaveBackup, TypeOK
  <1>12. CASE PressButton
    BY <1>12 DEF PressButton, TypeOK
  <1>13. CASE LoadBackup
    <2>1. s_snoop[rsSlot][0] \in Keys
      BY ConstantFacts, BlockFacts DEF TypeOK
    <2>2. nvs[s_snoop[rsSlot][0]] \in Images \cup {NoImage}
      BY <2>1 DEF TypeOK
    <2>3. bak' \in Images
      BY <1>13, <2>2 DEF LoadBackup, TypeOK
    <2>4. restoreFor' \in Figures \cup {NoFigure} /\ exact' \in BOOLEAN
      <3>1. onSlot[rsSlot] \in Figures \cup {NoFigure}
        BY DEF TypeOK
      <3>2. restoreFor' \in Figures \cup {NoFigure}
        BY <1>13, <3>1 DEF LoadBackup, TypeOK
      <3>3. CASE exact' = (0 \in known[rsSlot])
        BY <3>2, <3>3
      <3>4. CASE exact' = exact
        BY <3>2, <3>4 DEF TypeOK
      <3>5. exact' = (0 \in known[rsSlot]) \/ exact' = exact
        BY <1>13, Zenon DEF LoadBackup
      <3> QED
        BY <3>3, <3>4, <3>5
    <2>5. rsPc' \in {"idle", "load", "write"}
      BY <1>13 DEF LoadBackup
    <2> QED
      BY <1>13, <2>3, <2>4, <2>5 DEF LoadBackup, TypeOK
  <1>14. CASE RestoreBlock
    <2>1. next \in Blocks /\ next' \in 1..NumBlocks /\ rsSlot \in Slots
      BY <1>14, FigureBackupAssumption DEF RestoreBlock, TypeOK, Blocks
    <2>2. bak[next] \in Values
      BY <2>1, BlockFacts DEF TypeOK
    <2>3. expect' \in Images \cup {NoImage} /\ exact' \in BOOLEAN
      BY <1>14 DEF RestoreBlock, TypeOK
    <2>4. CASE StoreBlock(rsSlot, next, bak[next])
      BY <1>14, <2>1, <2>2, <2>3, <2>4, StoreFacts DEF RestoreBlock, TypeOK
    <2>5. CASE UNCHANGED <<contents, answer, known>>
      BY <1>14, <2>1, <2>3, <2>5 DEF RestoreBlock, TypeOK
    <2> QED
      BY <1>14, <2>4, <2>5 DEF RestoreBlock
  <1>15. CASE EndRestore
    <2>1. 1 \in 1..NumBlocks
      BY FigureBackupAssumption
    <2> QED
      BY <1>15, <2>1 DEF EndRestore, TypeOK
  <1>16. CASE Reboot
    <2>1. /\ s_snoop' \in [Slots -> Images]
          /\ nvs' \in [Keys -> Images \cup {NoImage}]
          /\ known' \in [Slots -> SUBSET Blocks]
          /\ s_backed_up' \in [Slots -> BOOLEAN]
      BY <1>16, ConstantFacts DEF Reboot, TypeOK
    <2>2. s_bak_q' \in Seq(Images) /\ Len(s_bak_q') <= BakQCap
      <3>1. s_bak_q' \in Seq(Images) /\ Len(s_bak_q') = 0
        BY <1>16 DEF Reboot
      <3> QED
        BY <3>1, FigureBackupAssumption
    <2>3. events' \in 0..MaxEvents /\ 1 \in 1..NumBlocks
      BY <1>16, FigureBackupAssumption DEF Reboot, TypeOK
    <2>4. answer' = NoAnswer /\ (answer'.block = 0 => answer'.value \in Keys)
      BY <1>16 DEF Reboot, NoAnswer, Keys
    <2> QED
      BY <1>16, <2>1, <2>2, <2>3, <2>4, ConstantFacts DEF Reboot, TypeOK
  <1>17. CASE UNCHANGED vars
    BY <1>17 DEF vars, TypeOK
  <1> QED
    BY <1>1, <1>2, <1>3, <1>4, <1>5, <1>6, <1>7, <1>8, <1>9, <1>10, <1>11,
       <1>12, <1>13, <1>14, <1>15, <1>16, <1>17
    DEF Next, Portal, Snoop, RxTask, BackupTask, ButtonTask

(* Every variable stays in range; s_bak_q and the restore loop keep their   *)
(* bounds.                                                                 *)
THEOREM Typing == Spec => []TypeOK
  BY InitTypeOK, NextTypeOK, PTL DEF Spec

-----------------------------------------------------------------------------
(***************************************************************************)
(* What s_snoop knows is true.                                             *)
(***************************************************************************)

(* What a Write command changes: one block of the figure on the slot, and   *)
(* what is known of that block.                                            *)
LEMMA StoreEffect ==
  ASSUME TypeOK, NEW s \in Slots, NEW b \in Blocks, NEW v \in Values,
         StoreBlock(s, b, v), ~UNCHANGED <<contents, answer, known>>
  PROVE  /\ b # 0
         /\ onSlot[s] \in Figures
         /\ \A t \in Slots :
              known'[t] = IF t = s THEN known[s] \ {b} ELSE known[t]
         /\ answer' = IF answer.slot = s /\ answer.block = b
                      THEN [answer EXCEPT !.fresh = FALSE] ELSE answer
  <1>1. b # 0 /\ onSlot[s] # NoFigure
    BY DEF StoreBlock
  <1>2. onSlot[s] \in Figures
    BY <1>1 DEF TypeOK
  <1>3. known' = [known EXCEPT ![s] = known[s] \ {b}] /\ known \in [Slots -> SUBSET Blocks]
    BY <1>1 DEF StoreBlock, TypeOK
  <1>4. answer' = IF answer.slot = s /\ answer.block = b
                  THEN [answer EXCEPT !.fresh = FALSE] ELSE answer
    BY <1>1 DEF StoreBlock
  <1> QED
    BY <1>1, <1>2, <1>3, <1>4

(* A Write command, whoever sends it, leaves no wrong knowledge behind.     *)
LEMMA StoreKeepsTruth ==
  ASSUME TypeOK, TruthInv, NEW s \in Slots, NEW b \in Blocks, NEW v \in Values,
         StoreBlock(s, b, v), UNCHANGED <<onSlot, s_snoop>>
  PROVE  TruthInv'
  <1>1. CASE UNCHANGED <<contents, answer, known>>
    BY <1>1
    DEF TruthInv, OneSlotEach, UidOnTag, KnownIsTrue, AnswerIsTrue, NoAnswer
  <1>2. CASE ~UNCHANGED <<contents, answer, known>>
    <2>0. /\ OneSlotEach /\ UidOnTag /\ KnownIsTrue /\ AnswerIsTrue
          /\ onSlot \in [Slots -> Figures \cup {NoFigure}]
          /\ known \in [Slots -> SUBSET Blocks]
          /\ NoFigure \notin Figures
      BY FigureBackupAssumption DEF TruthInv, TypeOK
    <2>d. b # 0 /\ onSlot[s] \in Figures
      BY <1>2, StoreEffect
    <2>a. \A f \in Figures : \A c \in Blocks :
            ~(f = onSlot[s] /\ c = b) => contents'[f][c] = contents[f][c]
      <3>1. contents' = [contents EXCEPT ![onSlot[s]] = [contents[onSlot[s]] EXCEPT ![b] = v]]
        BY <2>0, <2>d DEF StoreBlock
      <3>2. contents \in [Figures -> Images]
        BY DEF TypeOK
      <3>3. /\ contents[onSlot[s]] \in Images
            /\ contents'[onSlot[s]] = [contents[onSlot[s]] EXCEPT ![b] = v]
            /\ \A f \in Figures : f # onSlot[s] => contents'[f] = contents[f]
        BY <2>d, <3>1, <3>2
      <3>4. \A c \in Blocks : c # b => contents'[onSlot[s]][c] = contents[onSlot[s]][c]
        BY <3>3 DEF Images
      <3> QED
        BY <3>3, <3>4
    <2>b. \A t \in Slots : known'[t] = IF t = s THEN known[s] \ {b} ELSE known[t]
      BY <1>2, StoreEffect
    <2>c. answer' = IF answer.slot = s /\ answer.block = b
                    THEN [answer EXCEPT !.fresh = FALSE] ELSE answer
      BY <1>2, StoreEffect
    <2>1. OneSlotEach'
      BY <2>0 DEF OneSlotEach
    <2>2. UidOnTag'
      BY <2>a, <2>d, <2>0, ConstantFacts DEF UidOnTag
    <2>3. KnownIsTrue'
      <3> SUFFICES ASSUME NEW t \in Slots, NEW c \in known'[t]
                   PROVE  /\ onSlot[t] \in Figures
                          /\ s_snoop[t][c] = contents'[onSlot[t]][c]
        BY DEF KnownIsTrue
      <3>1. c \in known[t] /\ c \in Blocks /\ ~(t = s /\ c = b)
        BY <2>0, <2>b
      <3>2. onSlot[t] \in Figures /\ s_snoop[t][c] = contents[onSlot[t]][c]
        BY <2>0, <3>1 DEF KnownIsTrue
      <3>3. onSlot[t] = onSlot[s] => t = s
        BY <2>0, <3>2 DEF OneSlotEach
      <3>4. contents'[onSlot[t]][c] = contents[onSlot[t]][c]
        BY <2>a, <3>1, <3>2, <3>3
      <3> QED
        BY <3>2, <3>4
    <2>4. AnswerIsTrue'
      <3>1. CASE answer.slot = s /\ answer.block = b
        <4>1. /\ answer'.slot = s /\ answer'.block = b /\ answer'.fresh = FALSE
          BY <2>c, <3>1, StaleAnswer
        <4>2. b \notin known'[s]
          BY <2>b
        <4> QED
          BY <4>1, <4>2 DEF AnswerIsTrue
      <3>2. CASE ~(answer.slot = s /\ answer.block = b)
        <4>1. answer' = answer
          BY <2>c, <3>2
        <4> SUFFICES ASSUME answer # NoAnswer
                     PROVE  /\ answer.fresh =>
                                 /\ onSlot[answer.slot] \in Figures
                                 /\ answer.value = contents'[onSlot[answer.slot]][answer.block]
                            /\ ~answer.fresh => answer.block \notin known'[answer.slot]
          BY <4>1 DEF AnswerIsTrue
        <4>2. answer.slot \in Slots /\ answer.block \in Blocks
          BY DEF TypeOK, Answers
        <4>3. known'[answer.slot] \subseteq known[answer.slot]
          BY <2>b, <4>2
        <4>4. ASSUME answer.fresh
              PROVE  /\ onSlot[answer.slot] \in Figures
                     /\ answer.value = contents'[onSlot[answer.slot]][answer.block]
          <5>1. /\ onSlot[answer.slot] \in Figures
                /\ answer.value = contents[onSlot[answer.slot]][answer.block]
            BY <2>0, <4>4 DEF AnswerIsTrue
          <5>2. onSlot[answer.slot] = onSlot[s] => answer.slot = s
            BY <2>0, <4>2, <5>1 DEF OneSlotEach
          <5> QED
            BY <2>a, <3>2, <4>2, <5>1, <5>2
        <4> QED
          BY <2>0, <4>3, <4>4 DEF AnswerIsTrue
      <3> QED
        BY <3>1, <3>2
    <2> QED
      BY <2>1, <2>2, <2>3, <2>4 DEF TruthInv
  <1> QED
    BY <1>1, <1>2

(* The actions that touch neither the tags nor the copies.                  *)
LEMMA UntouchedTruth ==
  ASSUME TruthInv, UNCHANGED <<contents, onSlot, answer, s_snoop, known>>
  PROVE  TruthInv'
  BY DEF TruthInv, OneSlotEach, UidOnTag, KnownIsTrue, AnswerIsTrue, NoAnswer

(* A figure that is placed has yet to be read.                              *)
LEMMA PlaceKeepsTruth ==
  ASSUME TypeOK, TruthInv, NEW f \in Figures, NEW s \in Slots, PlaceFigure(f, s)
  PROVE  TruthInv'
  <1> USE DEF PlaceFigure, snoopVars, ghostVars
  <1>1. /\ NoFigure \notin Figures
        /\ onSlot \in [Slots -> Figures \cup {NoFigure}]
        /\ OneSlotEach /\ UidOnTag /\ KnownIsTrue /\ AnswerIsTrue
    BY FigureBackupAssumption DEF TypeOK, TruthInv
  <1>2. /\ onSlot[s] = NoFigure
        /\ \A t \in Slots : onSlot'[t] = IF t = s THEN f ELSE onSlot[t]
    BY <1>1
  <1>3. OneSlotEach'
    BY <1>1, <1>2 DEF OneSlotEach
  <1>4. UidOnTag'
    BY <1>1 DEF UidOnTag
  <1>5. KnownIsTrue'
    <2>1. \A t \in Slots : \A c \in known[t] : t # s
      BY <1>1, <1>2 DEF KnownIsTrue
    <2> QED
      BY <1>1, <1>2, <2>1 DEF KnownIsTrue
  <1>6. AnswerIsTrue'
    <2> SUFFICES ASSUME answer # NoAnswer, answer.fresh
                 PROVE  /\ onSlot'[answer.slot] \in Figures
                        /\ answer.value = contents[onSlot'[answer.slot]][answer.block]
      BY <1>1 DEF AnswerIsTrue, NoAnswer
    <2>1. answer.slot \in Slots
      BY DEF TypeOK, Answers
    <2>2. answer.slot # s
      BY <1>1, <1>2 DEF AnswerIsTrue
    <2> QED
      BY <1>1, <1>2, <2>1, <2>2 DEF AnswerIsTrue
  <1> QED
    BY <1>3, <1>4, <1>5, <1>6 DEF TruthInv

(* A figure that is taken away takes what is known of it along.             *)
LEMMA RemoveKeepsTruth ==
  ASSUME TypeOK, TruthInv, NEW s \in Slots, RemoveFigure(s)
  PROVE  TruthInv'
  <1> USE DEF RemoveFigure, snoopVars
  <1>1. /\ NoFigure \notin Figures
        /\ onSlot \in [Slots -> Figures \cup {NoFigure}]
        /\ known \in [Slots -> SUBSET Blocks]
        /\ OneSlotEach /\ UidOnTag /\ KnownIsTrue /\ AnswerIsTrue
    BY FigureBackupAssumption DEF TypeOK, TruthInv
  <1>2. /\ \A t \in Slots : onSlot'[t] = IF t = s THEN NoFigure ELSE onSlot[t]
        /\ \A t \in Slots : known'[t] = IF t = s THEN {} ELSE known[t]
    BY <1>1
  <1>3. OneSlotEach'
    BY <1>1, <1>2 DEF OneSlotEach
  <1>4. UidOnTag'
    BY <1>1 DEF UidOnTag
  <1>5. KnownIsTrue'
    BY <1>1, <1>2 DEF KnownIsTrue
  <1>6. AnswerIsTrue'
    <2>1. CASE answer.slot = s
      <3>1. /\ answer'.fresh = FALSE /\ answer'.slot = s
        BY <2>1, StaleAnswer
      <3> QED
        BY <1>2, <3>1 DEF AnswerIsTrue
    <2>2. CASE answer.slot # s
      <3>1. answer' = answer
        BY <2>2
      <3>2. answer # NoAnswer => answer.slot \in Slots
        BY DEF TypeOK, Answers
      <3> QED
        BY <1>1, <1>2, <2>2, <3>1, <3>2 DEF AnswerIsTrue, NoAnswer
    <2> QED
      BY <2>1, <2>2
  <1> QED
    BY <1>3, <1>4, <1>5, <1>6 DEF TruthInv

(* What is copied from a fresh answer is known from then on; a stale one     *)
(* makes the block unknown.                                                *)
LEMMA QueryKeepsTruth ==
  ASSUME TypeOK, TruthInv, SnoopQuery
  PROVE  TruthInv'
  <1> USE DEF SnoopQuery
  <1>1. /\ OneSlotEach /\ UidOnTag /\ KnownIsTrue /\ AnswerIsTrue
        /\ known \in [Slots -> SUBSET Blocks]
        /\ s_snoop \in [Slots -> Images]
        /\ answer.slot \in Slots /\ answer.block \in Blocks
    BY DEF TypeOK, TruthInv, Answers
  <1>2. OneSlotEach' /\ UidOnTag' /\ AnswerIsTrue'
    BY <1>1 DEF OneSlotEach, UidOnTag, AnswerIsTrue, NoAnswer
  <1>3. s_snoop' = [s_snoop EXCEPT ![answer.slot] =
                      [s_snoop[answer.slot] EXCEPT ![answer.block] = answer.value]]
    OBVIOUS
  <1>4. /\ \A t \in Slots : t # answer.slot =>
             s_snoop'[t] = s_snoop[t] /\ known'[t] = known[t]
        /\ s_snoop'[answer.slot] =
             [s_snoop[answer.slot] EXCEPT ![answer.block] = answer.value]
        /\ s_snoop[answer.slot] \in Images
    BY <1>1, <1>3
  <1>5. /\ s_snoop'[answer.slot][answer.block] = answer.value
        /\ \A c \in Blocks : c # answer.block =>
             s_snoop'[answer.slot][c] = s_snoop[answer.slot][c]
    BY <1>1, <1>4 DEF Images
  <1>6. KnownIsTrue'
    <2> SUFFICES ASSUME NEW t \in Slots, NEW c \in known'[t]
                 PROVE  /\ onSlot[t] \in Figures
                        /\ s_snoop'[t][c] = contents[onSlot[t]][c]
      BY DEF KnownIsTrue
    <2>1. CASE t # answer.slot
      BY <1>1, <1>4, <2>1 DEF KnownIsTrue
    <2>2. CASE t = answer.slot /\ c = answer.block
      <3>1. answer.fresh
        BY <1>1, <2>2
      <3> QED
        BY <1>1, <1>5, <2>2, <3>1 DEF AnswerIsTrue
    <2>3. CASE t = answer.slot /\ c # answer.block
      <3>1. c \in known[t] /\ c \in Blocks
        BY <1>1, <2>3
      <3> QED
        BY <1>1, <1>5, <2>3, <3>1 DEF KnownIsTrue
    <2> QED
      BY <2>1, <2>2, <2>3
  <1> QED
    BY <1>2, <1>6 DEF TruthInv

(* No step makes what is recorded as read untrue.                           *)
LEMMA NextTruth == TypeOK /\ TruthInv /\ [Next]_vars => TruthInv'
  <1> SUFFICES ASSUME TypeOK, TruthInv, [Next]_vars PROVE TruthInv'
    OBVIOUS
  <1> USE DEF tagVars, snoopVars, rxVars, nvsVars, restoreVars, ghostVars
  <1>1. ASSUME NEW s \in Slots, NEW b \in Blocks, ReadBlock(s, b) PROVE TruthInv'
    <2>1. onSlot[s] \in Figures
      BY <1>1 DEF ReadBlock, TypeOK
    <2>2. AnswerIsTrue'
      BY <1>1, <2>1 DEF ReadBlock, AnswerIsTrue
    <2> QED
      BY <1>1, <2>2 DEF ReadBlock, TruthInv, OneSlotEach, UidOnTag, KnownIsTrue
  <1>2. CASE DeliverWrite
    <2>1. frame.slot \in Slots /\ frame.block \in Blocks /\ frame.value \in Values
      BY <1>2, FrameFacts DEF DeliverWrite, TypeOK
    <2>2. CASE StoreBlock(frame.slot, frame.block, frame.value)
      BY <1>2, <2>1, <2>2, StoreKeepsTruth DEF DeliverWrite
    <2>3. CASE UNCHANGED <<contents, answer, known>>
      BY <1>2, <2>3, UntouchedTruth DEF DeliverWrite
    <2> QED
      BY <1>2, <2>2, <2>3 DEF DeliverWrite
  <1>3. CASE RestoreBlock
    <2>1. next \in Blocks /\ rsSlot \in Slots
      BY <1>3, FigureBackupAssumption DEF RestoreBlock, TypeOK, Blocks
    <2>2. bak[next] \in Values
      BY <2>1, BlockFacts DEF TypeOK
    <2>3. CASE StoreBlock(rsSlot, next, bak[next])
      BY <1>3, <2>1, <2>2, <2>3, StoreKeepsTruth DEF RestoreBlock
    <2>4. CASE UNCHANGED <<contents, answer, known>>
      BY <1>3, <2>4, UntouchedTruth DEF RestoreBlock
    <2> QED
      BY <1>3, <2>3, <2>4 DEF RestoreBlock
  <1>4. CASE Reboot
    BY <1>4
    DEF Reboot, TruthInv, OneSlotEach, UidOnTag, KnownIsTrue, AnswerIsTrue, NoAnswer
  <1>5. CASE SnoopStatus \/ ReceiveWrite \/ RequestBackup \/ MarkBackedUp
             \/ BackupTask \/ PressButton \/ LoadBackup \/ EndRestore
             \/ UNCHANGED vars
    BY <1>5, UntouchedTruth
    DEF SnoopStatus, ReceiveWrite, RequestBackup, MarkBackedUp, BackupTask,
        TakeBackup, SaveBackup, PressButton, LoadBackup, EndRestore, vars
  <1> QED
    BY <1>1, <1>2, <1>3, <1>4, <1>5, PlaceKeepsTruth, RemoveKeepsTruth,
       QueryKeepsTruth
    DEF Next, Portal, Snoop, RxTask, ButtonTask

-----------------------------------------------------------------------------
(***************************************************************************)
(* What the snapshot of a write is compared with.                          *)
(***************************************************************************)

(* A Write command leaves the figures of the other slots alone.             *)
LEMMA OtherFigures ==
  ASSUME TypeOK, NEW s \in Slots, NEW b \in Blocks, NEW v \in Values,
         StoreBlock(s, b, v)
  PROVE  /\ \A f \in Figures : f # onSlot[s] => contents'[f] = contents[f]
         /\ \A t \in Slots : t # s => known'[t] = known[t]
  <1>1. CASE onSlot[s] = NoFigure \/ b = 0
    BY <1>1 DEF StoreBlock
  <1>2. CASE ~(onSlot[s] = NoFigure \/ b = 0)
    <2>1. /\ contents' = [contents EXCEPT ![onSlot[s]] =
                            [contents[onSlot[s]] EXCEPT ![b] = v]]
          /\ known' = [known EXCEPT ![s] = known[s] \ {b}]
      BY <1>2 DEF StoreBlock
    <2>2. contents \in [Figures -> Images] /\ known \in [Slots -> SUBSET Blocks]
      BY DEF TypeOK
    <2> QED
      BY <2>1, <2>2
  <1> QED
    BY <1>1, <1>2

(* At the start nothing has been read, saved or restored.                   *)
LEMMA InitSnoop == Init => TruthInv /\ ExpectIsTrue /\ RestoreIsTrue /\ RestoreIsExact
  BY ConstantFacts
  DEF Init, TruthInv, OneSlotEach, UidOnTag, KnownIsTrue, AnswerIsTrue, NoAnswer,
      ExpectIsTrue, RestoreIsTrue, RestoreIsExact

(* What rx_task is about to file stays true on its way.                     *)
LEMMA NextExpect ==
  TypeOK /\ TruthInv /\ ExpectIsTrue /\ [Next]_vars => ExpectIsTrue'
  <1> SUFFICES ASSUME TypeOK, TruthInv, ExpectIsTrue, [Next]_vars
               PROVE  ExpectIsTrue'
    OBVIOUS
  <1> USE DEF tagVars, snoopVars, rxVars, nvsVars, restoreVars, ghostVars
  <1>0. /\ NoFigure \notin Figures
        /\ onSlot \in [Slots -> Figures \cup {NoFigure}]
        /\ known \in [Slots -> SUBSET Blocks]
        /\ rxPc = "snapshot" => frame.slot \in Slots
        /\ OneSlotEach
    BY FigureBackupAssumption, FrameFacts DEF TypeOK, TruthInv
  <1>1. ASSUME NEW f \in Figures, NEW s \in Slots, PlaceFigure(f, s)
        PROVE  ExpectIsTrue'
    BY <1>0, <1>1 DEF PlaceFigure, ExpectIsTrue
  <1>2. ASSUME NEW s \in Slots, RemoveFigure(s) PROVE ExpectIsTrue'
    BY <1>0, <1>2 DEF RemoveFigure, ExpectIsTrue
  <1>3. CASE SnoopQuery
    <2> SUFFICES ASSUME rxPc = "snapshot", expect # NoImage
                 PROVE  known'[frame.slot] = Blocks
      BY <1>3 DEF SnoopQuery, ExpectIsTrue
    <2>1. known[frame.slot] = Blocks
      BY DEF ExpectIsTrue
    <2>2. answer.slot \in Slots /\ answer.block \in Blocks
      BY <1>3 DEF SnoopQuery, TypeOK, Answers
    <2>3. answer.slot = frame.slot => answer.fresh
      BY <1>3, <2>1, <2>2 DEF SnoopQuery, TruthInv, AnswerIsTrue
    <2> QED
      BY <1>0, <1>3, <2>1, <2>2, <2>3 DEF SnoopQuery
  <1>4. CASE ReceiveWrite
    <2> SUFFICES ASSUME rxPc' = "snapshot", expect' # NoImage
                 PROVE  /\ known[frame'.slot] = Blocks
                        /\ onSlot[frame'.slot] \in Figures
                        /\ expect' = contents[onSlot[frame'.slot]]
      BY <1>4 DEF ReceiveWrite, ExpectIsTrue
    <2>1. frame'.slot \in Slots
      BY <1>4, FrameFacts DEF ReceiveWrite, NewFrames
    <2>2. expect' = SnoopedWhole(frame'.slot)
      BY <1>4 DEF ReceiveWrite
    <2> QED
      BY <1>0, <2>1, <2>2 DEF SnoopedWhole
  <1>5. CASE RestoreBlock
    <2>1. next \in Blocks /\ rsSlot \in Slots /\ bak[next] \in Values
      <3>1. next \in Blocks /\ rsSlot \in Slots
        BY <1>5, FigureBackupAssumption DEF RestoreBlock, TypeOK, Blocks
      <3> QED
        BY <3>1, BlockFacts DEF TypeOK
    <2>2. CASE StoreBlock(rsSlot, next, bak[next])
      <3> SUFFICES ASSUME rxPc = "snapshot", expect' # NoImage
                   PROVE  /\ known'[frame.slot] = Blocks
                          /\ onSlot[frame.slot] \in Figures
                          /\ expect' = contents'[onSlot[frame.slot]]
        BY <1>5 DEF RestoreBlock, ExpectIsTrue
      <3>0. CASE UNCHANGED <<contents, answer, known>>
        BY <1>5, <3>0 DEF RestoreBlock, ExpectIsTrue
      <3>a. CASE ~UNCHANGED <<contents, answer, known>>
        <4>1. expect' = IF frame.slot = rsSlot THEN NoImage ELSE expect
          BY <1>5, <3>a DEF RestoreBlock
        <4>2. frame.slot # rsSlot /\ expect' = expect
          BY <4>1
        <4>3. onSlot[frame.slot] # onSlot[rsSlot]
          BY <1>0, <2>1, <4>2 DEF OneSlotEach, ExpectIsTrue
        <4>4. known'[frame.slot] = known[frame.slot]
          BY <1>0, <2>1, <2>2, <4>2, OtherFigures
        <4>5. contents'[onSlot[frame.slot]] = contents[onSlot[frame.slot]]
          BY <2>1, <2>2, <4>2, <4>3, OtherFigures DEF ExpectIsTrue
        <4> QED
          BY <4>2, <4>4, <4>5 DEF ExpectIsTrue
      <3> QED
        BY <3>0, <3>a
    <2>3. CASE UNCHANGED <<contents, answer, known, expect>>
      BY <1>5, <2>3 DEF RestoreBlock, ExpectIsTrue
    <2> QED
      BY <1>5, <2>2, <2>3 DEF RestoreBlock
  <1>6. CASE RequestBackup \/ MarkBackedUp \/ DeliverWrite \/ Reboot
    BY <1>6 DEF RequestBackup, MarkBackedUp, DeliverWrite, Reboot, ExpectIsTrue
  <1>7. CASE \/ \E s \in Slots, b \in Blocks : ReadBlock(s, b)
             \/ SnoopStatus \/ BackupTask \/ PressButton \/ LoadBackup
             \/ EndRestore \/ UNCHANGED vars
    BY <1>7
    DEF ReadBlock, SnoopStatus, BackupTask, TakeBackup, SaveBackup, PressButton,
        LoadBackup, EndRestore, vars, ExpectIsTrue
  <1> QED
    BY <1>1, <1>2, <1>3, <1>4, <1>5, <1>6, <1>7
    DEF Next, Portal, Snoop, RxTask, ButtonTask

(* The snapshot that request_backup is about to copy is the figure as it     *)
(* was when the write arrived.                                             *)
LEMMA ExpectGivesSnapshot == TypeOK /\ TruthInv /\ ExpectIsTrue => SnapshotIsPreWrite
  <1> SUFFICES ASSUME TypeOK, TruthInv, ExpectIsTrue, rxPc = "snapshot",
                      expect # NoImage
               PROVE  s_snoop[frame.slot] = expect
    BY DEF SnapshotIsPreWrite
  <1>1. frame.slot \in Slots
    BY FrameFacts DEF TypeOK
  <1>2. /\ known[frame.slot] = Blocks
        /\ onSlot[frame.slot] \in Figures
        /\ expect = contents[onSlot[frame.slot]]
    BY DEF ExpectIsTrue
  <1>3. s_snoop[frame.slot] \in Images /\ contents[onSlot[frame.slot]] \in Images
    BY <1>1, <1>2 DEF TypeOK
  <1>4. \A b \in Blocks : s_snoop[frame.slot][b] = contents[onSlot[frame.slot]][b]
    BY <1>1, <1>2 DEF TruthInv, KnownIsTrue
  <1> QED
    BY <1>2, <1>3, <1>4 DEF Images

(* The snapshot of a write is the figure before the write.                  *)
THEOREM Snapshot == Spec => []SnapshotIsPreWrite
  <1>1. TruthInv /\ ExpectIsTrue /\ TypeOK /\ [Next]_vars => (TruthInv /\ ExpectIsTrue)'
    BY NextTruth, NextExpect
  <1> QED
    BY <1>1, Typing, InitSnoop, ExpectGivesSnapshot, PTL DEF Spec

-----------------------------------------------------------------------------
(***************************************************************************)
(* What is in NVS, and what a restore makes of it.                         *)
(***************************************************************************)

(* At the start nothing is filed.                                           *)
LEMMA InitFiled == Init => FiledUnderOwnUid
  BY DEF Init, FiledUnderOwnUid

(* Images are filed under the UID they contain.                             *)
LEMMA NextFiled == TypeOK /\ FiledUnderOwnUid /\ [Next]_vars => FiledUnderOwnUid'
  <1> SUFFICES ASSUME TypeOK, FiledUnderOwnUid, [Next]_vars PROVE FiledUnderOwnUid'
    OBVIOUS
  <1> USE DEF tagVars, snoopVars, rxVars, nvsVars, restoreVars, ghostVars
  <1>1. CASE SaveBackup
    BY <1>1 DEF SaveBackup, FiledUnderOwnUid, TypeOK
  <1>2. CASE Reboot
    BY <1>2 DEF Reboot, FiledUnderOwnUid
  <1>3. CASE nvs' = nvs
    BY <1>3 DEF FiledUnderOwnUid
  <1>4. SaveBackup \/ Reboot \/ nvs' = nvs
    BY DEF Next, Portal, Snoop, RxTask, BackupTask, ButtonTask, PlaceFigure,
           RemoveFigure, ReadBlock, SnoopStatus, SnoopQuery, ReceiveWrite,
           RequestBackup, MarkBackedUp, DeliverWrite, TakeBackup, PressButton,
           LoadBackup, RestoreBlock, EndRestore, vars
  <1> QED
    BY <1>1, <1>2, <1>3, <1>4

(* An image is filed under the UID it contains.                             *)
THEOREM Filed == Spec => []FiledUnderOwnUid
  <1>1. TypeOK /\ FiledUnderOwnUid /\ [Next]_vars => FiledUnderOwnUid'
    BY NextFiled
  <1> QED
    BY <1>1, Typing, InitFiled, PTL DEF Spec

(* The image in use stays that of the figure it is written to.              *)
LEMMA NextRestore ==
  TypeOK /\ TruthInv /\ FiledUnderOwnUid /\ RestoreIsTrue /\ [Next]_vars
    => RestoreIsTrue'
  <1> SUFFICES ASSUME TypeOK, TruthInv, FiledUnderOwnUid, RestoreIsTrue, [Next]_vars
               PROVE  RestoreIsTrue'
    OBVIOUS
  <1> USE DEF tagVars, snoopVars, rxVars, nvsVars, restoreVars, ghostVars
  <1>0. /\ NoFigure \notin Figures
        /\ rsSlot \in Slots
        /\ onSlot \in [Slots -> Figures \cup {NoFigure}]
        /\ restoreFor \in Figures \cup {NoFigure}
        /\ exact \in BOOLEAN
    BY FigureBackupAssumption DEF TypeOK
  <1>1. ASSUME NEW f \in Figures, NEW s \in Slots, PlaceFigure(f, s)
        PROVE  RestoreIsTrue'
    BY <1>0, <1>1 DEF PlaceFigure, RestoreIsTrue
  <1>2. ASSUME NEW s \in Slots, RemoveFigure(s) PROVE RestoreIsTrue'
    <2>1. exact' => exact
      BY <1>2 DEF RemoveFigure
    <2>2. CASE s = rsSlot
      BY <1>2, <2>2 DEF RemoveFigure, RestoreIsTrue
    <2>3. CASE s # rsSlot
      BY <1>0, <1>2, <2>1, <2>3 DEF RemoveFigure, RestoreIsTrue
    <2> QED
      BY <2>2, <2>3
  <1>3. CASE DeliverWrite
    <2>1. exact' => exact
      <3>1. CASE UNCHANGED <<contents, answer, known, exact>>
        BY <3>1
      <3>2. CASE exact' = (exact /\ rsSlot # frame.slot)
        BY <3>2
      <3> QED
        BY <1>3, <3>1, <3>2 DEF DeliverWrite
    <2> QED
      BY <1>3, <2>1 DEF DeliverWrite, RestoreIsTrue
  <1>4. CASE PressButton
    BY <1>4 DEF PressButton, RestoreIsTrue
  <1>5. CASE LoadBackup
    <2>1. CASE rsPc' = "idle" /\ UNCHANGED <<bak, restoreFor, exact>>
      BY <1>5, <2>1 DEF LoadBackup, RestoreIsTrue
    <2>2. CASE nvs[s_snoop[rsSlot][0]] # NoImage /\ bak' = nvs[s_snoop[rsSlot][0]]
               /\ rsPc' = "write" /\ 0 \in known[rsSlot]
      <3>1. /\ onSlot[rsSlot] \in Figures
            /\ s_snoop[rsSlot][0] = contents[onSlot[rsSlot]][0]
        BY <1>0, <2>2 DEF TruthInv, KnownIsTrue
      <3>2. s_snoop[rsSlot][0] = onSlot[rsSlot]
        BY <3>1 DEF TruthInv, UidOnTag
      <3>3. bak'[0] = onSlot[rsSlot]
        BY <2>2, <3>1, <3>2 DEF FiledUnderOwnUid, Keys
      <3>4. restoreFor' = onSlot[rsSlot]
        BY <1>5, <2>2, ConstantFacts DEF LoadBackup
      <3> QED
        BY <1>0, <1>5, <2>2, <3>1, <3>3, <3>4 DEF LoadBackup, RestoreIsTrue
    <2>3. CASE rsPc' = "write" /\ 0 \notin known[rsSlot]
      <3>1. restoreFor' = NoFigure /\ ~exact'
        BY <1>5, <2>3 DEF LoadBackup
      <3> QED
        BY <2>3, <3>1 DEF RestoreIsTrue
    <2> QED
      <3>1. CASE rsPc' = "idle"
        BY <1>5, <2>1, <3>1 DEF LoadBackup
      <3>2. CASE rsPc' # "idle"
        <4>1. /\ nvs[s_snoop[rsSlot][0]] # NoImage
              /\ bak' = nvs[s_snoop[rsSlot][0]]
              /\ rsPc' = "write"
          BY <1>5, <3>2 DEF LoadBackup
        <4> QED
          BY <2>2, <2>3, <4>1
      <3> QED
        BY <3>1, <3>2
  <1>6. CASE RestoreBlock
    <2>1. exact' => exact
      BY <1>6 DEF RestoreBlock
    <2> QED
      BY <1>6, <2>1 DEF RestoreBlock, RestoreIsTrue
  <1>7. CASE EndRestore \/ Reboot
    BY <1>7 DEF EndRestore, Reboot, RestoreIsTrue
  <1>8. CASE \/ \E s \in Slots, b \in Blocks : ReadBlock(s, b)
             \/ Snoop \/ ReceiveWrite \/ RequestBackup \/ MarkBackedUp
             \/ BackupTask \/ UNCHANGED vars
    BY <1>8
    DEF ReadBlock, Snoop, SnoopStatus, SnoopQuery, ReceiveWrite, RequestBackup,
        MarkBackedUp, BackupTask, TakeBackup, SaveBackup, vars, RestoreIsTrue
  <1> QED
    BY <1>1, <1>2, <1>3, <1>4, <1>5, <1>6, <1>7, <1>8
    DEF Next, Portal, RxTask, ButtonTask

(* The blocks 0..next-1 of a restore nothing disturbs are already restored. *)
LEMMA NextExact ==
  TypeOK /\ TruthInv /\ FiledUnderOwnUid /\ RestoreIsTrue /\ RestoreIsTrue'
    /\ RestoreIsExact /\ [Next]_vars => RestoreIsExact'
  <1> SUFFICES ASSUME TypeOK, TruthInv, FiledUnderOwnUid, RestoreIsTrue,
                      RestoreIsTrue', RestoreIsExact, [Next]_vars
               PROVE  RestoreIsExact'
    OBVIOUS
  <1> USE DEF tagVars, snoopVars, rxVars, nvsVars, restoreVars, ghostVars
  <1>0. /\ NoFigure \notin Figures
        /\ rsSlot \in Slots
        /\ restoreFor \in Figures \cup {NoFigure}
        /\ exact => restoreFor \in Figures /\ onSlot[rsSlot] = restoreFor
        /\ 0..(next - 1) \subseteq Blocks
    BY FigureBackupAssumption DEF TypeOK, RestoreIsTrue, Blocks
  <1>1. ASSUME NEW s \in Slots, RemoveFigure(s) PROVE RestoreIsExact'
    BY <1>1 DEF RemoveFigure, RestoreIsExact, RestoreIsTrue
  <1>2. CASE DeliverWrite
    <2>1. CASE UNCHANGED <<contents, answer, known, exact>>
      BY <1>2, <2>1 DEF DeliverWrite, RestoreIsExact
    <2>2. CASE /\ StoreBlock(frame.slot, frame.block, frame.value)
               /\ exact' = (exact /\ rsSlot # frame.slot)
      <3> SUFFICES ASSUME exact, rsSlot # frame.slot
                   PROVE  contents'[restoreFor] = contents[restoreFor]
        BY <1>2, <2>2 DEF DeliverWrite, RestoreIsExact
      <3>1. frame.slot \in Slots /\ frame.block \in Blocks /\ frame.value \in Values
        BY <1>2, FrameFacts DEF DeliverWrite, TypeOK
      <3>2. onSlot[frame.slot] # restoreFor
        BY <1>0, <3>1 DEF TruthInv, OneSlotEach
      <3> QED
        BY <1>0, <2>2, <3>1, <3>2, OtherFigures
    <2> QED
      BY <1>2, <2>1, <2>2 DEF DeliverWrite
  <1>3. CASE LoadBackup
    <2>1. CASE rsPc' = "idle"
      BY <1>3, <2>1 DEF RestoreIsTrue, RestoreIsExact
    <2>2. CASE rsPc' # "idle"
      <3> SUFFICES ASSUME exact'
                   PROVE  \A b \in 0..(next - 1) : contents[restoreFor'][b] = bak'[b]
        BY <1>3 DEF LoadBackup, RestoreIsExact
      <3>1. next = 1
        BY <1>3 DEF LoadBackup, RestoreIsTrue
      <3>2. restoreFor' # NoFigure /\ bak'[0] = restoreFor'
        BY DEF RestoreIsTrue
      <3>3. restoreFor' \in Figures
        BY <1>0, <1>3, <2>2, <3>2 DEF LoadBackup, TypeOK
      <3>4. contents[restoreFor'][0] = bak'[0]
        BY <3>2, <3>3 DEF TruthInv, UidOnTag
      <3> QED
        BY <3>1, <3>4
    <2> QED
      BY <2>1, <2>2
  <1>4. CASE RestoreBlock
    <2>1. CASE exact' = FALSE
      BY <2>1 DEF RestoreIsExact
    <2>2. CASE StoreBlock(rsSlot, next, bak[next]) /\ exact' = exact
      <3> SUFFICES ASSUME exact, NEW b \in 0..next
                   PROVE  contents'[restoreFor][b] = bak[b]
        <4>1. next' - 1 = next
          BY <1>4 DEF RestoreBlock, TypeOK
        <4> QED
          BY <1>4, <2>2, <4>1 DEF RestoreBlock, RestoreIsExact
      <3>1. next \in Blocks \ {0} /\ b \in Blocks
        BY <1>4, FigureBackupAssumption DEF RestoreBlock, TypeOK, Blocks
      <3>2. restoreFor \in Figures /\ onSlot[rsSlot] = restoreFor
            /\ restoreFor # NoFigure
        BY <1>0
      <3>3. contents' = [contents EXCEPT ![restoreFor] =
                           [contents[restoreFor] EXCEPT ![next] = bak[next]]]
        BY <2>2, <3>1, <3>2 DEF StoreBlock
      <3>4. contents \in [Figures -> Images] /\ contents[restoreFor] \in Images
        BY <3>2 DEF TypeOK
      <3>5. contents'[restoreFor] = [contents[restoreFor] EXCEPT ![next] = bak[next]]
        BY <3>2, <3>3, <3>4
      <3>6. CASE b = next
        BY <3>1, <3>4, <3>5, <3>6 DEF Images
      <3>7. CASE b # next
        <4>1. b \in 0..(next - 1)
          BY <3>7 DEF TypeOK
        <4>2. contents[restoreFor][b] = bak[b]
          BY <4>1 DEF RestoreIsExact
        <4> QED
          BY <3>1, <3>4, <3>5, <3>7, <4>2 DEF Images
      <3> QED
        BY <3>6, <3>7
    <2> QED
      BY <1>4, <2>1, <2>2 DEF RestoreBlock
  <1>5. CASE EndRestore \/ Reboot
    BY <1>5 DEF EndRestore, Reboot, RestoreIsExact
  <1>6. CASE \/ \E f \in Figures, s \in Slots : PlaceFigure(f, s)
             \/ \E s \in Slots, b \in Blocks : ReadBlock(s, b)
             \/ Snoop \/ ReceiveWrite \/ RequestBackup \/ MarkBackedUp
             \/ BackupTask \/ PressButton \/ UNCHANGED vars
    BY <1>6
    DEF PlaceFigure, ReadBlock, Snoop, SnoopStatus, SnoopQuery, ReceiveWrite,
        RequestBackup, MarkBackedUp, BackupTask, TakeBackup, SaveBackup,
        PressButton, vars, RestoreIsExact
  <1> QED
    BY <1>1, <1>2, <1>3, <1>4, <1>5, <1>6
    DEF Next, Portal, RxTask, ButtonTask

(* The invariant of the backup and the restore together.                    *)
LEMMA RestoreInvariant ==
  Spec => [](TypeOK /\ TruthInv /\ FiledUnderOwnUid /\ RestoreIsTrue /\ RestoreIsExact)
  <1>1. TypeOK /\ TruthInv /\ FiledUnderOwnUid /\ RestoreIsTrue /\ RestoreIsExact
          /\ [Next]_vars
          => (TruthInv /\ FiledUnderOwnUid /\ RestoreIsTrue /\ RestoreIsExact)'
    BY NextTruth, NextFiled, NextRestore, NextExact
  <1> QED
    BY <1>1, Typing, InitSnoop, InitFiled, PTL DEF Spec

(* A restore of a figure whose UID is known writes that figure's image.     *)
THEOREM OwnImage == Spec => []RestoreOwnImage
  <1>1. RestoreIsTrue => RestoreOwnImage
    BY DEF RestoreIsTrue, RestoreOwnImage
  <1> QED
    BY <1>1, RestoreInvariant, PTL

(* The blocks a restore that nothing disturbs has gone through are the      *)
(* blocks of the image.                                                    *)
THEOREM Exact == Spec => []RestoreIsExact
  BY RestoreInvariant, PTL

=============================================================================
