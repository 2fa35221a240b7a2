----------------------------- MODULE PanelProofs -----------------------------
(***************************************************************************)
(* Proofs about Panel: for every number of rows that fits the screen and   *)
(* any number of lost commands.  The module has no specification of its    *)
(* own; what is proved of its steps is used in StatusDisplayProofs.        *)
(***************************************************************************)
EXTENDS Panel, SequenceTheorems, FiniteSetTheorems, TLAPS

(***************************************************************************)
(* The inductive invariant: what the set-up has come to after each call.   *)
(***************************************************************************)

\* So many calls have returned, or will never be made.
returned == Len(Calls) - Len(todo)

\* The driver's copy of the registers follows its own calls, lost or not.
CopyInv ==
  /\ s_panel.gap = IF returned < 4 THEN <<0, 0>> ELSE <<1, 26>>
  /\ s_panel.madctl = IF returned < 5 THEN {"BGR"}
                      ELSE IF returned < 6 THEN {"BGR", "MV"} ELSE {"BGR", "MV", "MY"}

\* How far the controller has come with the commands of the init call, of which
\* the fourth resets it.
InitInv ==
  /\ cmd > 5 => lcd.awake
  /\ cmd > 7 => lcd.inverted
  /\ cmd > 8 => lcd.colmod = 16
  /\ cmd > 10 => lcd.on

\* What has not been lost has got through, and nothing after the init call
\* takes it back.
ControllerInv ==
  /\ returned >= 2 /\ "init" \notin lost =>
       lcd.awake /\ lcd.colmod = 16 /\ lcd.inverted /\ lcd.on
  /\ returned >= 3 /\ "invert_color" \notin lost => lcd.inverted
  /\ returned >= 5 /\ "swap_xy" \notin lost => "MV" \in lcd.madctl
  /\ returned >= 6 /\ "mirror" \notin lost => lcd.madctl = {"BGR", "MV", "MY"}
  /\ returned >= 7 /\ "disp_on_off" \notin lost => lcd.on
  /\ returned >= 8 => PIN_BL

PanelInv ==
  /\ PanelTypeOK
  /\ ~s_panel.ready => s_panel.madctl = {"BGR"} /\ s_panel.gap = <<0, 0>> /\ cmd = 1
  /\ s_panel.ready => CopyInv /\ ControllerInv
  /\ s_panel.ready /\ returned = 0 => cmd = 1
  /\ s_panel.ready /\ returned = 1 => InitInv

-----------------------------------------------------------------------------
CallNames == {"reset", "init", "invert_color", "set_gap", "swap_xy", "mirror",
              "disp_on_off", "backlight", "fill"}
CommandNames == {"SWRESET", "SLPOUT", "MADCTL", "COLMOD", "INVON", "DISPON", "other"}

(* The calls in their order.                                                *)
LEMMA CallFacts ==
  /\ Calls \in Seq(CallNames) /\ Len(Calls) = 10
  /\ Calls[1] = "reset" /\ Calls[2] = "init" /\ Calls[3] = "invert_color"
  /\ Calls[4] = "set_gap" /\ Calls[5] = "swap_xy" /\ Calls[6] = "mirror"
  /\ Calls[7] = "disp_on_off" /\ Calls[8] = "backlight" /\ Calls[9] = "fill"
  /\ Calls[10] = "fill"
  <1>1. Calls \in Seq(CallNames)
    BY DEF Calls, CallNames
  <1>2. Len(Calls) = 10
    BY DEF Calls
  <1> QED
    BY <1>1, <1>2 DEF Calls

(* The commands of the init call: the table comes after three of its own.   *)
LEMMA CommandFacts ==
  /\ Len(InitCommands) = 10
  /\ InitCommands[1] = "SLPOUT" /\ InitCommands[2] = "MADCTL"
  /\ InitCommands[3] = "COLMOD" /\ InitCommands[4] = "SWRESET"
  /\ InitCommands[5] = "SLPOUT" /\ InitCommands[6] = "other"
  /\ InitCommands[7] = "INVON" /\ InitCommands[8] = "COLMOD"
  /\ InitCommands[9] = "other" /\ InitCommands[10] = "DISPON"
  <1> DEFINE head == <<"SLPOUT", "MADCTL", "COLMOD">>
             v == vendor_specific_init_default
  <1>1. /\ head \in Seq(CommandNames) /\ v \in Seq(CommandNames)
        /\ Len(head) = 3 /\ Len(v) = 7
    BY DEF vendor_specific_init_default, CommandNames
  <1>2. /\ head[1] = "SLPOUT" /\ head[2] = "MADCTL" /\ head[3] = "COLMOD"
        /\ v[1] = "SWRESET" /\ v[2] = "SLPOUT" /\ v[3] = "other" /\ v[4] = "INVON"
        /\ v[5] = "COLMOD" /\ v[6] = "other" /\ v[7] = "DISPON"
    BY DEF vendor_specific_init_default
  <1>3. InitCommands = head \o v
    BY DEF InitCommands
  <1> HIDE DEF head, v
  <1>4. /\ Len(InitCommands) = Len(head) + Len(v)
        /\ \A i \in 1..(Len(head) + Len(v)) : InitCommands[i] =
             IF i <= Len(head) THEN head[i] ELSE v[i - Len(head)]
    BY <1>1, <1>3, ConcatProperties
  <1>5. /\ Len(InitCommands) = 10
        /\ \A i \in 1..10 : InitCommands[i] = IF i <= 3 THEN head[i] ELSE v[i - 3]
    BY <1>1, <1>4
  <1>6. /\ InitCommands[1] = head[1] /\ InitCommands[2] = head[2]
        /\ InitCommands[3] = head[3] /\ InitCommands[4] = v[1]
        /\ InitCommands[5] = v[2] /\ InitCommands[6] = v[3] /\ InitCommands[7] = v[4]
        /\ InitCommands[8] = v[5] /\ InitCommands[9] = v[6] /\ InitCommands[10] = v[7]
    BY <1>5
  <1> QED
    BY <1>2, <1>5, <1>6

(* What is left of the calls when n of them are gone.                       *)
LEMMA CallTails ==
  ASSUME NEW n \in 0..10
  PROVE  /\ SubSeq(Calls, n + 1, 10) \in Seq(CallNames)
         /\ Len(SubSeq(Calls, n + 1, 10)) = 10 - n
         /\ \A i \in 1..(10 - n) : SubSeq(Calls, n + 1, 10)[i] = Calls[n + i]
  <1>1. \A i \in (n + 1)..10 : Calls[i] \in CallNames
    <2>1. ASSUME NEW i \in 1..Len(Calls) PROVE Calls[i] \in CallNames
      BY CallFacts, ElementOfSeq
    <2> QED
      BY <2>1, CallFacts
  <1>2. n + 1 \in Int /\ 10 \in Int
    OBVIOUS
  <1>3. /\ SubSeq(Calls, n + 1, 10) \in Seq(CallNames)
        /\ Len(SubSeq(Calls, n + 1, 10)) = IF n + 1 <= 10 THEN 10 - (n + 1) + 1 ELSE 0
        /\ \A i \in 1..(10 - (n + 1) + 1) :
             SubSeq(Calls, n + 1, 10)[i] = Calls[(n + 1) + i - 1]
    BY <1>1, <1>2, SubSeqProperties
  <1> QED
    BY <1>3

(* What is left to do is a tail of the calls, and says how many returned.   *)
LEMMA TodoFacts ==
  ASSUME PanelTypeOK
  PROVE  /\ returned \in 0..10 /\ todo \in Seq(CallNames)
         /\ todo = <<>> <=> returned = 10
         /\ todo # <<>> =>
              /\ next = Calls[returned + 1]
              /\ Len(Tail(todo)) = Len(todo) - 1
              /\ \E n \in 0..10 : Tail(todo) = SubSeq(Calls, n + 1, 10)
  <1>1. PICK n \in 0..10 : todo = SubSeq(Calls, n + 1, 10)
    BY CallFacts DEF PanelTypeOK
  <1>2. /\ todo \in Seq(CallNames) /\ Len(todo) = 10 - n
        /\ \A i \in 1..(10 - n) : todo[i] = Calls[n + i]
    BY <1>1, CallTails
  <1>3. returned = n
    BY <1>2, CallFacts DEF returned
  <1>4. todo = <<>> <=> n = 10
    BY <1>2, EmptySeq
  <1>5. ASSUME todo # <<>>
        PROVE  /\ next = Calls[n + 1]
               /\ Len(Tail(todo)) = Len(todo) - 1
               /\ Tail(todo) = SubSeq(Calls, n + 2, 10)
    <2>1. n < 10
      BY <1>4, <1>5
    <2>2. next = Calls[n + 1]
      BY <1>2, <2>1 DEF next
    <2>3. /\ Tail(todo) \in Seq(CallNames) /\ Len(Tail(todo)) = 9 - n
          /\ \A i \in 1..(9 - n) : Tail(todo)[i] = todo[i + 1]
      BY <1>2, <1>5, HeadTailProperties
    <2>4. n + 1 \in 0..10 /\ (n + 1) + 1 = n + 2 /\ 10 - (n + 1) = 9 - n
      BY <2>1
    <2>6. /\ SubSeq(Calls, n + 2, 10) \in Seq(CallNames)
          /\ Len(SubSeq(Calls, n + 2, 10)) = 9 - n
          /\ \A i \in 1..(9 - n) : SubSeq(Calls, n + 2, 10)[i] = Calls[(n + 1) + i]
      BY <2>4, CallTails
    <2>5. \A i \in 1..(9 - n) : Tail(todo)[i] = SubSeq(Calls, n + 2, 10)[i]
      BY <1>2, <2>1, <2>3, <2>6
    <2>7. Tail(todo) = SubSeq(Calls, n + 2, 10)
      BY <2>3, <2>5, <2>6, SeqEqual
    <2> QED
      BY <1>2, <2>1, <2>2, <2>3, <2>7
  <1>6. todo # <<>> => \E m \in 0..10 : Tail(todo) = SubSeq(Calls, m + 1, 10)
    <2>1. todo # <<>> => n + 1 \in 0..10 /\ (n + 1) + 1 = n + 2
      BY <1>4
    <2> QED
      BY <1>5, <2>1
  <1> QED
    BY <1>2, <1>3, <1>4, <1>5, <1>6

(* Which call is the next says how many have returned.                      *)
LEMMA AtFacts ==
  ASSUME PanelTypeOK, NEW c, At(c)
  PROVE  /\ s_panel.ready /\ todo # <<>> /\ next = c
         /\ returned \in 0..9 /\ c = Calls[returned + 1]
         /\ c \in {Calls[i] : i \in 1..10}
         /\ c = "reset" => returned = 0
         /\ c = "init" => returned = 1
         /\ c = "invert_color" => returned = 2
         /\ c = "set_gap" => returned = 3
         /\ c = "swap_xy" => returned = 4
         /\ c = "mirror" => returned = 5
         /\ c = "disp_on_off" => returned = 6
         /\ c = "backlight" => returned = 7
         /\ c = "fill" => returned \in {8, 9}
  <1>1. s_panel.ready /\ todo # <<>> /\ next = c
    BY DEF At
  <1>2. returned \in 0..9 /\ c = Calls[returned + 1]
    BY <1>1, TodoFacts
  <1>3. c \in {Calls[i] : i \in 1..10}
    BY <1>2
  <1>4. \A k \in 0..9 : Calls[k + 1] =
          IF k = 0 THEN "reset" ELSE IF k = 1 THEN "init"
          ELSE IF k = 2 THEN "invert_color" ELSE IF k = 3 THEN "set_gap"
          ELSE IF k = 4 THEN "swap_xy" ELSE IF k = 5 THEN "mirror"
          ELSE IF k = 6 THEN "disp_on_off" ELSE IF k = 7 THEN "backlight" ELSE "fill"
    BY CallFacts
  <1> QED
    BY <1>1, <1>2, <1>3, <1>4

(* A call that returns leaves a tail of the calls to do.                    *)
LEMMA ReturnFacts ==
  ASSUME PanelTypeOK, todo # <<>>, Return
  PROVE  /\ returned' = returned + 1
         /\ \E n \in 0..Len(Calls) : todo' = SubSeq(Calls, n + 1, Len(Calls))
  <1>1. Len(todo) \in Nat /\ Len(Tail(todo)) = Len(todo) - 1
    BY TodoFacts, LenProperties
  <1>2. returned' = returned + 1
    BY <1>1, CallFacts DEF Return, returned
  <1> QED
    BY <1>2, TodoFacts, CallFacts DEF Return

(* Nothing has been done of the set-up at the start.                        *)
LEMMA InitPanel == PanelInit => PanelInv
  <1> SUFFICES ASSUME PanelInit PROVE PanelInv
    OBVIOUS
  <1>1. returned = 0
    BY CallFacts DEF PanelInit, returned
  <1>2. \E n \in 0..Len(Calls) : todo = SubSeq(Calls, n + 1, Len(Calls))
    <2>1. /\ SubSeq(Calls, 1, 10) \in Seq(CallNames) /\ Len(SubSeq(Calls, 1, 10)) = 10
          /\ \A i \in 1..10 : SubSeq(Calls, 1, 10)[i] = Calls[i]
      BY CallTails
    <2>2. SubSeq(Calls, 1, 10) = Calls
      BY <2>1, CallFacts, SeqEqual
    <2> QED
      BY <2>2, CallFacts DEF PanelInit
  <1>3. PanelTypeOK
    <2>1. /\ s_panel \in [ready : BOOLEAN, madctl : SUBSET {"BGR", "MV", "MX", "MY"},
                          gap : {<<0, 0>>, <<1, 26>>}]
          /\ lcd \in [awake : BOOLEAN, on : BOOLEAN, inverted : BOOLEAN,
                      madctl : SUBSET {"BGR", "MV", "MX", "MY"}, colmod : {16, 18}]
      BY DEF PanelInit, ResetState
    <2>2. PIN_BL \in BOOLEAN
      BY DEF PanelInit
    <2>3. cmd \in 1..(Len(InitCommands) + 1) /\ events \in 0..MaxEvents
      BY CommandFacts, RowsAssumption DEF PanelInit
    <2> QED
      BY <1>2, <2>1, <2>2, <2>3 DEF PanelInit, PanelTypeOK
  <1> QED
    BY <1>1, <1>3 DEF PanelInit, PanelInv

-----------------------------------------------------------------------------
\* The types of the driver's copy and of the controller's registers.
Bits == {"BGR", "MV", "MX", "MY"}
Copies == [ready : BOOLEAN, madctl : SUBSET Bits, gap : {<<0, 0>>, <<1, 26>>}]
Registers == [awake : BOOLEAN, on : BOOLEAN, inverted : BOOLEAN,
              madctl : SUBSET Bits, colmod : {16, 18}]

(* A command that is sent is obeyed, or it is lost and its call is noted.   *)
LEMMA SendFacts ==
  ASSUME PanelTypeOK, todo # <<>>, NEW c, NEW m \in SUBSET Bits, Send(c, m)
  PROVE  /\ lcd \in Registers /\ lcd' \in Registers
         /\ lost' \subseteq {Calls[i] : i \in 1..Len(Calls)}
         /\ events' \in 0..MaxEvents
         /\ \/ lcd' = Obeyed(c, m) /\ lost' = lost
            \/ lcd' = lcd /\ lost' = lost \cup {next}
  <1>1. lcd \in Registers
    BY DEF PanelTypeOK, Registers, Bits
  <1>2. CASE Obey(c, m)
    <2>1. Obeyed(c, m) \in Registers
      BY <1>1 DEF Obeyed, ResetState, Registers
    <2> QED
      BY <1>1, <1>2, <2>1 DEF Obey, PanelTypeOK
  <1>3. CASE Lose
    <2>1. next \in {Calls[i] : i \in 1..Len(Calls)}
      BY TodoFacts, AtFacts, CallFacts
    <2>2. events' \in 0..MaxEvents
      BY <1>3, RowsAssumption DEF Lose, PanelTypeOK
    <2> QED
      BY <1>1, <1>3, <2>1, <2>2 DEF Lose, PanelTypeOK
  <1> QED
    BY <1>2, <1>3 DEF Send

(* One or more drawings keep the bound on what may be lost.                 *)
LEMMA DrawnFacts ==
  ASSUME PanelTypeOK, NEW parts, IsFiniteSet(parts), NEW missed \in SUBSET parts,
         events + Cardinality(missed) <= MaxEvents,
         events' = events + Cardinality(missed)
  PROVE  events' \in 0..MaxEvents /\ events <= events'
  <1>1. Cardinality(missed) \in Nat
    BY FS_Subset, FS_CardinalityType
  <1> QED
    BY <1>1, RowsAssumption DEF PanelTypeOK

(* Filling the screen loses as many strips as it may.                       *)
LEMMA FillFacts ==
  ASSUME PanelTypeOK, display_fill
  PROVE  /\ events' \in 0..MaxEvents /\ DOMAIN screen' = 0..(Rows - 1)
         /\ events <= events'
  <1>1. PICK missed \in SUBSET {0, 20, 40, 60} :
          /\ events + Cardinality(missed) <= MaxEvents
          /\ events' = events + Cardinality(missed)
          /\ screen' = [r \in 0..(Rows - 1) |->
               IF \E y \in missed : r \in Touched(y) THEN screen[r] ELSE AsDrawn(Blank)]
    BY DEF display_fill, Drawn
  <1>2. IsFiniteSet({0, 20, 40, 60})
    <2>1. IsFiniteSet({0}) /\ IsFiniteSet({20}) /\ IsFiniteSet({40}) /\ IsFiniteSet({60})
      BY FS_Singleton
    <2>2. IsFiniteSet({0} \cup {20}) /\ IsFiniteSet({40} \cup {60})
      BY <2>1, FS_Union
    <2>3. IsFiniteSet(({0} \cup {20}) \cup ({40} \cup {60}))
      BY <2>2, FS_Union
    <2>4. {0, 20, 40, 60} = ({0} \cup {20}) \cup ({40} \cup {60})
      OBVIOUS
    <2> QED
      BY <2>3, <2>4
  <1> QED
    BY <1>1, <1>2, DrawnFacts

(* What has been lost in the set-up stays lost.                             *)
LEMMA CallEvents ==
  ASSUME PanelTypeOK, display_init
  PROVE  events <= events'
  <1>1. events \in Nat
    BY DEF PanelTypeOK
  <1>2. ASSUME UNCHANGED events PROVE events <= events'
    BY <1>1, <1>2
  <1>3. ASSUME events' = events + 1 PROVE events <= events'
    BY <1>1, <1>3
  <1>4. CASE \/ CreatePanel \/ CreationFails \/ panel_st7735_reset
             \/ panel_st7735_set_gap \/ Backlight
    BY <1>2, <1>3, <1>4
    DEF CreatePanel, CreationFails, panel_st7735_reset, panel_st7735_set_gap, Backlight
  <1>5. ASSUME NEW c, NEW m, Send(c, m) PROVE events <= events'
    BY <1>2, <1>3, <1>5 DEF Send, Obey, Lose
  <1>6. CASE \/ panel_st7735_invert_color \/ panel_st7735_swap_xy
             \/ panel_st7735_mirror \/ panel_st7735_disp_on_off
    BY <1>5, <1>6
    DEF panel_st7735_invert_color, panel_st7735_swap_xy, panel_st7735_mirror,
        panel_st7735_disp_on_off
  <1>7. CASE panel_st7735_init
    BY <1>2, <1>3, <1>7 DEF panel_st7735_init, Obey, Lose
  <1>8. CASE display_fill
    BY <1>8, FillFacts
  <1> QED
    BY <1>4, <1>6, <1>7, <1>8 DEF display_init

(* Every call of the set-up keeps the types.                                *)
LEMMA CallTypes == PanelInv /\ display_init => PanelTypeOK'
  <1> SUFFICES ASSUME PanelInv, display_init PROVE PanelTypeOK'
    OBVIOUS
  <1>0. /\ PanelTypeOK /\ s_panel \in Copies /\ lcd \in Registers
        /\ Len(InitCommands) = 10 /\ cmd \in 1..11
        /\ ResetState \in Registers /\ {"BGR", "MV"} \in SUBSET Bits
    BY CommandFacts DEF PanelInv, PanelTypeOK, Copies, Registers, Bits, ResetState
  <1>1. CASE CreatePanel
    BY <1>0, <1>1 DEF CreatePanel, PanelTypeOK
  <1>2. CASE CreationFails
    <2>0. SubSeq(Calls, 11, 10) = <<>>
      BY SubSeqEmpty
    <2>1. todo' = SubSeq(Calls, 11, 10)
      BY <1>2, <2>0 DEF CreationFails
    <2>2. \E n \in 0..Len(Calls) : todo' = SubSeq(Calls, n + 1, Len(Calls))
      <3>1. 10 \in 0..Len(Calls) /\ 10 + 1 = 11 /\ Len(Calls) = 10
        BY CallFacts
      <3> QED
        BY <2>1, <3>1
    <2>3. events' \in 0..MaxEvents
      BY <1>0, <1>2, RowsAssumption DEF CreationFails, PanelTypeOK
    <2> QED
      BY <1>0, <1>2, <2>2, <2>3 DEF CreationFails, PanelTypeOK
  <1>3. CASE panel_st7735_reset
    BY <1>0, <1>3, AtFacts, ReturnFacts
    DEF panel_st7735_reset, PanelTypeOK, Registers, Bits
  <1>4. CASE panel_st7735_init
    <2>1. todo # <<>> /\ UNCHANGED <<s_panel, PIN_BL, screen>>
      BY <1>0, <1>4, AtFacts DEF panel_st7735_init
    <2>2. CASE cmd > Len(InitCommands)
      BY <1>0, <1>4, <2>1, <2>2, ReturnFacts DEF panel_st7735_init, PanelTypeOK
    <2>3. CASE ~(cmd > Len(InitCommands))
      <3>1. s_panel.madctl \in SUBSET Bits
        BY <1>0 DEF Copies
      <3>2. CASE /\ Obey(InitCommands[cmd], s_panel.madctl)
                 /\ cmd' = cmd + 1 /\ UNCHANGED todo
        <4>1. lcd' \in Registers /\ UNCHANGED <<lost, events>>
          BY <1>0, <2>1, <3>1, <3>2, SendFacts DEF Send, Obey
        <4>2. cmd' \in 1..(Len(InitCommands) + 1)
          BY <1>0, <2>3, <3>2
        <4> QED
          BY <1>0, <2>1, <3>2, <4>1, <4>2 DEF PanelTypeOK, Registers, Bits
      <3>3. CASE Lose /\ Return /\ UNCHANGED cmd
        BY <1>0, <2>1, <3>1, <3>3, SendFacts, ReturnFacts
        DEF Send, PanelTypeOK, Registers, Bits
      <3> QED
        BY <1>4, <2>3, <3>2, <3>3 DEF panel_st7735_init
    <2> QED
      BY <2>2, <2>3
  <1>5. CASE panel_st7735_invert_color
    BY <1>0, <1>5, AtFacts, SendFacts, ReturnFacts
    DEF panel_st7735_invert_color, PanelTypeOK, Registers, Bits
  <1>6. CASE panel_st7735_set_gap
    <2>1. s_panel' \in Copies
      BY <1>0, <1>6 DEF panel_st7735_set_gap, Copies
    <2> QED
      BY <1>0, <1>6, <2>1, AtFacts, ReturnFacts
      DEF panel_st7735_set_gap, PanelTypeOK, Copies, Bits
  <1>7. CASE panel_st7735_swap_xy \/ panel_st7735_mirror
    <2>1. PICK c \in {"swap_xy", "mirror"}, bits \in SUBSET Bits :
            /\ At(c) /\ Return
            /\ s_panel' = [s_panel EXCEPT !.madctl = bits] /\ Send("MADCTL", bits)
            /\ UNCHANGED <<PIN_BL, cmd, screen>>
      BY <1>0, <1>7 DEF panel_st7735_swap_xy, panel_st7735_mirror, Copies, Bits
    <2>2. s_panel' \in Copies
      BY <1>0, <2>1 DEF Copies
    <2> QED
      BY <1>0, <2>1, <2>2, AtFacts, SendFacts, ReturnFacts
      DEF PanelTypeOK, Registers, Copies, Bits
  <1>8. CASE panel_st7735_disp_on_off
    BY <1>0, <1>8, AtFacts, SendFacts, ReturnFacts
    DEF panel_st7735_disp_on_off, PanelTypeOK, Registers, Bits
  <1>9. CASE Backlight
    BY <1>0, <1>9, AtFacts, ReturnFacts DEF Backlight, PanelTypeOK
  <1>10. CASE display_fill
    BY <1>0, <1>10, AtFacts, ReturnFacts, FillFacts DEF display_fill, PanelTypeOK
  <1> QED
    BY <1>1, <1>2, <1>3, <1>4, <1>5, <1>6, <1>7, <1>8, <1>9, <1>10 DEF display_init

(* What a command of the init call brings about stays until the call is     *)
(* over, the software reset coming before all that matters.                *)
LEMMA InitCommandFacts ==
  ASSUME PanelInv, s_panel.ready, returned = 1, cmd \in 1..10, NEW m,
         lcd' = Obeyed(InitCommands[cmd], m), cmd' = cmd + 1
  PROVE  InitInv'
  <1>1. InitInv /\ lcd \in Registers
    BY DEF PanelInv, PanelTypeOK, Registers, Bits
  <1>2. CASE cmd \in 1..4
    BY <1>2 DEF InitInv
  <1>3. CASE cmd = 5
    BY <1>1, <1>3, CommandFacts DEF InitInv, Obeyed, Registers
  <1>4. CASE cmd \in {6, 9}
    BY <1>1, <1>4, CommandFacts DEF InitInv, Obeyed, Registers
  <1>5. CASE cmd = 7
    BY <1>1, <1>5, CommandFacts DEF InitInv, Obeyed, Registers
  <1>6. CASE cmd = 8
    BY <1>1, <1>6, CommandFacts DEF InitInv, Obeyed, Registers
  <1>7. CASE cmd = 10
    BY <1>1, <1>7, CommandFacts DEF InitInv, Obeyed, Registers
  <1> QED
    BY <1>2, <1>3, <1>4, <1>5, <1>6, <1>7

(* Each call of the set-up leaves what it promises, or is among the lost.   *)
LEMMA CallPanel == PanelInv /\ display_init => PanelInv'
  <1> SUFFICES ASSUME PanelInv, display_init PROVE PanelInv'
    OBVIOUS
  <1>0. /\ PanelTypeOK /\ PanelTypeOK' /\ s_panel \in Copies /\ lcd \in Registers
        /\ Len(InitCommands) = 10 /\ cmd \in 1..11
    <2>1. PanelTypeOK /\ PanelTypeOK'
      BY CallTypes DEF PanelInv
    <2>2. s_panel \in Copies /\ lcd \in Registers
      BY <2>1 DEF PanelTypeOK, Copies, Registers, Bits
    <2>3. Len(InitCommands) = 10 /\ cmd \in 1..11
      BY <2>1, CommandFacts DEF PanelTypeOK
    <2> QED
      BY <2>1, <2>2, <2>3
  <1>1. CASE CreatePanel
    <2>1. returned = 0 /\ returned' = 0
      BY <1>1, CallFacts DEF CreatePanel, returned
    <2> QED
      BY <1>0, <1>1, <2>1 DEF CreatePanel, PanelInv, CopyInv, ControllerInv, Copies
  <1>2. CASE CreationFails
    BY <1>0, <1>2 DEF CreationFails, PanelInv
  <1>3. CASE panel_st7735_reset
    <2>1. s_panel.ready /\ returned = 0 /\ returned' = 1 /\ cmd = 1
      BY <1>0, <1>3, AtFacts, ReturnFacts DEF panel_st7735_reset, PanelInv
    <2> QED
      BY <1>0, <1>3, <2>1
      DEF panel_st7735_reset, PanelInv, CopyInv, ControllerInv, InitInv
  <1>4. CASE panel_st7735_init
    <2>1. /\ s_panel.ready /\ returned = 1 /\ todo # <<>> /\ next = "init"
          /\ UNCHANGED s_panel /\ InitInv /\ CopyInv
      BY <1>0, <1>4, AtFacts DEF panel_st7735_init, PanelInv
    <2>2. CASE cmd > Len(InitCommands)
      <3>1. returned' = 2 /\ UNCHANGED <<lcd, lost>>
        BY <1>0, <1>4, <2>1, <2>2, ReturnFacts DEF panel_st7735_init
      <3> QED
        BY <1>0, <2>1, <2>2, <3>1 DEF PanelInv, CopyInv, ControllerInv, InitInv
    <2>3. CASE /\ cmd <= Len(InitCommands)
               /\ Obey(InitCommands[cmd], s_panel.madctl)
               /\ cmd' = cmd + 1 /\ UNCHANGED todo
      <3>1. returned' = 1
        BY <2>1, <2>3 DEF returned
      <3>2. InitInv'
        BY <1>0, <2>1, <2>3, InitCommandFacts DEF Obey
      <3> QED
        BY <1>0, <2>1, <3>1, <3>2 DEF PanelInv, CopyInv, ControllerInv
    <2>4. CASE Lose /\ Return
      <3>1. returned' = 2 /\ "init" \in lost'
        BY <1>0, <2>1, <2>4, ReturnFacts DEF Lose
      <3> QED
        BY <1>0, <2>1, <3>1 DEF PanelInv, CopyInv, ControllerInv
    <2>5. cmd > Len(InitCommands) \/ cmd <= Len(InitCommands)
      BY <1>0
    <2> QED
      BY <1>4, <2>2, <2>3, <2>4, <2>5 DEF panel_st7735_init
  <1>5. CASE panel_st7735_invert_color
    <2>1. /\ s_panel.ready /\ returned = 2 /\ returned' = 3
          /\ next = "invert_color" /\ UNCHANGED s_panel
          /\ CopyInv /\ ControllerInv
      BY <1>0, <1>5, AtFacts, ReturnFacts DEF panel_st7735_invert_color, PanelInv
    <2>2. \/ lcd' = Obeyed("INVON", {}) /\ lost' = lost
          \/ lcd' = lcd /\ lost' = lost \cup {"invert_color"}
      BY <1>0, <1>5, <2>1 DEF panel_st7735_invert_color, Send, Obey, Lose
    <2>3. ControllerInv'
      BY <1>0, <2>1, <2>2 DEF ControllerInv, Obeyed, Registers
    <2> QED
      BY <1>0, <2>1, <2>3 DEF PanelInv, CopyInv
  <1>6. CASE panel_st7735_set_gap
    <2>1. /\ s_panel.ready /\ returned = 3 /\ returned' = 4
          /\ CopyInv /\ ControllerInv
      BY <1>0, <1>6, AtFacts, ReturnFacts DEF panel_st7735_set_gap, PanelInv
    <2> QED
      BY <1>0, <1>6, <2>1
      DEF panel_st7735_set_gap, PanelInv, CopyInv, ControllerInv, Copies
  <1>7. CASE panel_st7735_swap_xy
    <2>1. /\ s_panel.ready /\ returned = 4 /\ returned' = 5 /\ next = "swap_xy"
          /\ CopyInv /\ ControllerInv
      BY <1>0, <1>7, AtFacts, ReturnFacts DEF panel_st7735_swap_xy, PanelInv
    <2>2. /\ s_panel' = [s_panel EXCEPT !.madctl = {"BGR", "MV"}]
          /\ \/ lcd' = Obeyed("MADCTL", {"BGR", "MV"}) /\ lost' = lost
             \/ lcd' = lcd /\ lost' = lost \cup {"swap_xy"}
      <3>1. s_panel.madctl \cup {"MV"} = {"BGR", "MV"}
        BY <2>1 DEF CopyInv
      <3> QED
        BY <1>7, <2>1, <3>1 DEF panel_st7735_swap_xy, Send, Obey, Lose
    <2>3. ControllerInv'
      BY <1>0, <2>1, <2>2 DEF ControllerInv, Obeyed, Registers
    <2>4. CopyInv' /\ s_panel'.ready
      BY <1>0, <2>1, <2>2 DEF CopyInv, Copies
    <2> QED
      BY <1>0, <2>1, <2>3, <2>4 DEF PanelInv
  <1>8. CASE panel_st7735_mirror
    <2>1. /\ s_panel.ready /\ returned = 5 /\ returned' = 6 /\ next = "mirror"
          /\ CopyInv /\ ControllerInv
      BY <1>0, <1>8, AtFacts, ReturnFacts DEF panel_st7735_mirror, PanelInv
    <2>2. /\ s_panel' = [s_panel EXCEPT !.madctl = {"BGR", "MV", "MY"}]
          /\ \/ lcd' = Obeyed("MADCTL", {"BGR", "MV", "MY"}) /\ lost' = lost
             \/ lcd' = lcd /\ lost' = lost \cup {"mirror"}
      <3>1. (s_panel.madctl \ {"MX"}) \cup {"MY"} = {"BGR", "MV", "MY"}
        BY <2>1 DEF CopyInv
      <3> QED
        BY <1>8, <2>1, <3>1 DEF panel_st7735_mirror, Send, Obey, Lose
    <2>3. ControllerInv'
      BY <1>0, <2>1, <2>2 DEF ControllerInv, Obeyed, Registers
    <2>4. CopyInv' /\ s_panel'.ready
      BY <1>0, <2>1, <2>2 DEF CopyInv, Copies
    <2> QED
      BY <1>0, <2>1, <2>3, <2>4 DEF PanelInv
  <1>9. CASE panel_st7735_disp_on_off
    <2>1. /\ s_panel.ready /\ returned = 6 /\ returned' = 7
          /\ next = "disp_on_off" /\ UNCHANGED s_panel
          /\ CopyInv /\ ControllerInv
      BY <1>0, <1>9, AtFacts, ReturnFacts DEF panel_st7735_disp_on_off, PanelInv
    <2>2. \/ lcd' = Obeyed("DISPON", {}) /\ lost' = lost
          \/ lcd' = lcd /\ lost' = lost \cup {"disp_on_off"}
      BY <1>0, <1>9, <2>1 DEF panel_st7735_disp_on_off, Send, Obey, Lose
    <2>3. ControllerInv'
      BY <1>0, <2>1, <2>2 DEF ControllerInv, Obeyed, Registers
    <2> QED
      BY <1>0, <2>1, <2>3 DEF PanelInv, CopyInv
  <1>10. CASE Backlight
    <2>1. /\ s_panel.ready /\ returned = 7 /\ returned' = 8
          /\ CopyInv /\ ControllerInv /\ PIN_BL'
      BY <1>0, <1>10, AtFacts, ReturnFacts DEF Backlight, PanelInv
    <2> QED
      BY <1>0, <1>10, <2>1 DEF Backlight, PanelInv, CopyInv, ControllerInv
  <1>11. CASE display_fill
    <2>1. /\ s_panel.ready /\ returned \in {8, 9} /\ returned' = returned + 1
          /\ CopyInv /\ ControllerInv /\ UNCHANGED <<s_panel, lcd, PIN_BL, lost>>
      BY <1>0, <1>11, AtFacts, ReturnFacts DEF display_fill, PanelInv
    <2> QED
      BY <1>0, <2>1 DEF PanelInv, CopyInv, ControllerInv
  <1> QED
    BY <1>1, <1>2, <1>3, <1>4, <1>5, <1>6, <1>7, <1>8, <1>9, <1>10, <1>11
    DEF display_init

(* Once the set-up is over nothing touches what it has left.                *)
LEMMA OtherPanel ==
  ASSUME PanelInv, UNCHANGED <<s_panel, lcd, PIN_BL, todo, cmd, lost>>,
         events' \in 0..MaxEvents, DOMAIN screen' = 0..(Rows - 1)
  PROVE  PanelInv'
  <1>1. PanelTypeOK'
    BY DEF PanelInv, PanelTypeOK
  <1>2. UNCHANGED returned
    BY DEF returned
  <1> QED
    BY <1>1, <1>2 DEF PanelInv, CopyInv, InitInv, ControllerInv

-----------------------------------------------------------------------------
(* What is drawn lies in the memory the controller has, for every number    *)
(* of rows that fits the screen, unless both commands that exchange rows   *)
(* and columns were lost.                                                  *)
LEMMA InvDraws == PanelInv => DrawsInRam
  <1> SUFFICES ASSUME PanelInv, drawing, ~({"swap_xy", "mirror"} \subseteq lost),
                      NEW w \in Windows
               PROVE  w[3] <= RamWidth /\ w[4] <= RamHeight
    BY DEF DrawsInRam
  <1>1. s_panel.ready /\ returned \in 8..10
    <2>1. CASE todo = <<>>
      BY <2>1, TodoFacts DEF drawing, PanelInv
    <2>2. CASE todo # <<>> /\ next = "fill"
      BY <2>2, AtFacts DEF drawing, PanelInv, At
    <2> QED
      BY <2>1, <2>2 DEF drawing
  <1>2. s_panel.gap = <<1, 26>>
    BY <1>1 DEF PanelInv, CopyInv
  <1>3. "MV" \in lcd.madctl
    BY <1>1 DEF PanelInv, ControllerInv
  <1>4. RamWidth = 162 /\ RamHeight = 132
    BY <1>3 DEF RamWidth, RamHeight
  <1>5. /\ s_panel.gap[1] = 1 /\ s_panel.gap[2] = 26
    BY <1>2
  <1>6. ASSUME NEW y \in {0, 20, 40, 60}, w = Window(0, y, LCD_W, 20)
        PROVE  w[3] <= 162 /\ w[4] <= 132
    BY <1>5, <1>6 DEF Window, LCD_W
  <1>7. ASSUME NEW c \in 0..(LCD_W \div 8 - 1), NEW r \in 0..(Rows - 1),
               w = Window(8 * c, 8 * r, 8, 8)
        PROVE  w[3] <= 162 /\ w[4] <= 132
    <2>1. c \in 0..19 /\ r \in 0..9
      BY RowsAssumption DEF LCD_W
    <2> QED
      BY <1>5, <1>7, <2>1 DEF Window
  <1> QED
    BY <1>4, <1>6, <1>7 DEF Windows

(* The screen is as display_init wants it, up to the calls that lost a      *)
(* command for good.                                                       *)
LEMMA InvSetUp == PanelInv => SetUp
  <1> SUFFICES ASSUME PanelInv, drawing PROVE SetUp
    BY DEF SetUp
  <1>1. s_panel.ready /\ returned \in 8..10
    <2>1. CASE todo = <<>>
      BY <2>1, TodoFacts DEF drawing, PanelInv
    <2>2. CASE todo # <<>> /\ next = "fill"
      BY <2>2, AtFacts DEF drawing, PanelInv, At
    <2> QED
      BY <2>1, <2>2 DEF drawing
  <1> QED
    BY <1>1 DEF PanelInv, ControllerInv, SetUp

=============================================================================
