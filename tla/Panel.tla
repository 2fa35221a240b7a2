-------------------------------- MODULE Panel --------------------------------
(***************************************************************************)
(* console-side/src/display.c on the panel driver esp_lcd_st7735.c: the    *)
(* panel is set up call by call, and any command to its controller may get *)
(* lost on the bus.  The driver then leaves the call, display_init goes on *)
(* with the next one, and no result is looked at but that of the creation. *)
(*                                                                         *)
(* The controller is what its registers are; of the picture, a row of text *)
(* is one value.  Delays, voltages and gamma tables are left out.          *)
(***************************************************************************)
EXTENDS Integers, Sequences, FiniteSets

CONSTANTS
  MaxEvents,            \* bound: commands lost, and whatever else happens to a
                        \* module that has a panel
  Rows                  \* rows of text on the screen

LCD_W == 160
LCD_H == 80
ASSUME RowsAssumption == Rows \in 1..10 /\ MaxEvents \in Nat

VARIABLES
  s_panel,              \* the driver's panel: does it exist, its copy of the
                        \* MADCTL register and its gap
  lcd,                  \* the controller
  PIN_BL,               \* the backlight is on
  todo,                 \* calls display_init and app_main have yet to make
  cmd,                  \* the next command of the init call
  lost,                 \* calls that lost a command
  events,               \* so many have been
  screen                \* what the controller's memory holds of each row, as it
                        \* would be read there

panelVars == <<s_panel, lcd, PIN_BL, todo, cmd, lost, events, screen>>

Blank == <<>>
Noise == <<"noise">>    \* never drawn, or drawn in part

\* The registers that tell, after a reset by the line or by SWRESET.
ResetState == [awake |-> FALSE, on |-> FALSE, inverted |-> FALSE,
               madctl |-> {}, colmod |-> 18]

vendor_specific_init_default ==
  <<"SWRESET", "SLPOUT", "other", "INVON", "COLMOD", "other", "DISPON">>
InitCommands == <<"SLPOUT", "MADCTL", "COLMOD">> \o vendor_specific_init_default

\* What a command makes of the controller; MADCTL takes the driver's copy.
Obeyed(c, madctl_val) ==
  CASE c = "SWRESET" -> ResetState
    [] c = "SLPOUT" -> [lcd EXCEPT !.awake = TRUE]
    [] c = "MADCTL" -> [lcd EXCEPT !.madctl = madctl_val]
    [] c = "COLMOD" -> [lcd EXCEPT !.colmod = 16]
    [] c = "INVON"  -> [lcd EXCEPT !.inverted = TRUE]
    [] c = "DISPON" -> [lcd EXCEPT !.on = TRUE]
    [] OTHER        -> lcd

Calls == <<"reset", "init", "invert_color", "set_gap", "swap_xy", "mirror",
           "disp_on_off", "backlight", "fill", "fill">>

PanelTypeOK ==
  /\ s_panel \in [ready : BOOLEAN, madctl : SUBSET {"BGR", "MV", "MX", "MY"},
                  gap : {<<0, 0>>, <<1, 26>>}]
  /\ lcd \in [awake : BOOLEAN, on : BOOLEAN, inverted : BOOLEAN,
              madctl : SUBSET {"BGR", "MV", "MX", "MY"}, colmod : {16, 18}]
  /\ PIN_BL \in BOOLEAN
  /\ \E n \in 0..Len(Calls) : todo = SubSeq(Calls, n + 1, Len(Calls))
  /\ cmd \in 1..(Len(InitCommands) + 1)
  /\ lost \subseteq {Calls[i] : i \in 1..Len(Calls)}
  /\ events \in 0..MaxEvents
  /\ DOMAIN screen = 0..(Rows - 1)

PanelInit ==
  /\ s_panel = [ready |-> FALSE, madctl |-> {"BGR"}, gap |-> <<0, 0>>]
  /\ lcd = ResetState
  /\ PIN_BL = FALSE
  /\ todo = Calls
  /\ cmd = 1
  /\ lost = {}
  /\ events = 0
  /\ screen = [r \in 0..(Rows - 1) |-> Noise]

-----------------------------------------------------------------------------
next == Head(todo)
Return == todo' = Tail(todo)

\* The bus, the panel's interface and the driver's panel are there, or one of
\* them is not and nothing is ever drawn.
CreatePanel ==
  /\ todo = Calls /\ ~s_panel.ready
  /\ s_panel' = [s_panel EXCEPT !.ready = TRUE]
  /\ UNCHANGED <<lcd, PIN_BL, todo, cmd, lost, events, screen>>

CreationFails ==
  /\ todo = Calls /\ ~s_panel.ready
  /\ events < MaxEvents
  /\ events' = events + 1
  /\ todo' = <<>>
  /\ UNCHANGED <<s_panel, lcd, PIN_BL, cmd, lost, screen>>

\* A command is obeyed, or it is lost and the call ends with an error.
Obey(c, madctl_val) ==
  /\ lcd' = Obeyed(c, madctl_val)
  /\ UNCHANGED <<lost, events>>
Lose ==
  /\ events < MaxEvents
  /\ events' = events + 1
  /\ lost' = lost \cup {next}
  /\ UNCHANGED lcd
Send(c, madctl_val) == Obey(c, madctl_val) \/ Lose

At(call) == s_panel.ready /\ todo # <<>> /\ next = call

panel_st7735_reset ==
  /\ At("reset") /\ lcd' = ResetState /\ Return
  /\ UNCHANGED <<s_panel, PIN_BL, cmd, lost, events, screen>>

panel_st7735_init ==
  /\ At("init")
  /\ IF cmd > Len(InitCommands)
     THEN Return /\ UNCHANGED <<lcd, cmd, lost, events>>
     ELSE \/ /\ Obey(InitCommands[cmd], s_panel.madctl)
             /\ cmd' = cmd + 1 /\ UNCHANGED todo
          \/ Lose /\ Return /\ UNCHANGED cmd
  /\ UNCHANGED <<s_panel, PIN_BL, screen>>

panel_st7735_invert_color ==
  /\ At("invert_color") /\ Send("INVON", {}) /\ Return
  /\ UNCHANGED <<s_panel, PIN_BL, cmd, screen>>

panel_st7735_set_gap ==
  /\ At("set_gap") /\ Return
  /\ s_panel' = [s_panel EXCEPT !.gap = <<1, 26>>]
  /\ UNCHANGED <<lcd, PIN_BL, cmd, lost, events, screen>>

panel_st7735_swap_xy ==
  /\ At("swap_xy") /\ Return
  /\ LET bits == s_panel.madctl \cup {"MV"}
     IN  s_panel' = [s_panel EXCEPT !.madctl = bits] /\ Send("MADCTL", bits)
  /\ UNCHANGED <<PIN_BL, cmd, screen>>

\* Faulty variant: only the mirror bits are sent.
MirrorAlone ==
  /\ At("mirror") /\ Return
  /\ s_panel' = [s_panel EXCEPT !.madctl = (@ \ {"MX"}) \cup {"MY"}]
  /\ Send("MADCTL", {"MY"})
  /\ UNCHANGED <<PIN_BL, cmd, screen>>

panel_st7735_mirror ==
  /\ At("mirror") /\ Return
  /\ LET bits == (s_panel.madctl \ {"MX"}) \cup {"MY"}
     IN  s_panel' = [s_panel EXCEPT !.madctl = bits] /\ Send("MADCTL", bits)
  /\ UNCHANGED <<PIN_BL, cmd, screen>>

panel_st7735_disp_on_off ==
  /\ At("disp_on_off") /\ Send("DISPON", {}) /\ Return
  /\ UNCHANGED <<s_panel, PIN_BL, cmd, screen>>

Backlight ==
  /\ At("backlight") /\ PIN_BL' = TRUE /\ Return
  /\ UNCHANGED <<s_panel, lcd, cmd, lost, events, screen>>

\* What is drawn comes out where and as it is meant to; otherwise the rows that
\* are drawn turn to noise.
Oriented == lcd.madctl = {"BGR", "MV", "MY"} /\ lcd.colmod = 16
AsDrawn(text) == IF Oriented THEN text ELSE Noise

\* What there is to be seen of a row: nothing, of a panel that sleeps or is dark.
Shown(r) == IF lcd.awake /\ lcd.on /\ PIN_BL THEN screen[r] ELSE Noise

\* One or more drawings, of which some are lost.
Drawn(parts, Draw(_)) ==
  \E missed \in SUBSET parts :
    /\ events + Cardinality(missed) <= MaxEvents
    /\ events' = events + Cardinality(missed)
    /\ Draw(missed)

\* Strips of 20 lines, from the top.  A row that a lost strip touches is
\* taken to stay as it is.
Touched(y) == {r \in 0..(Rows - 1) : r * 8 < y + 20 /\ y < r * 8 + 8}
display_fill ==
  /\ At("fill") /\ Return
  /\ LET Draw(missed) == screen' = [r \in 0..(Rows - 1) |->
           IF \E y \in missed : r \in Touched(y) THEN screen[r] ELSE AsDrawn(Blank)]
     IN  Drawn({0, 20, 40, 60}, Draw)
  /\ UNCHANGED <<s_panel, lcd, PIN_BL, cmd, lost>>

display_init ==
  \/ CreatePanel \/ CreationFails
  \/ panel_st7735_reset \/ panel_st7735_init \/ panel_st7735_invert_color
  \/ panel_st7735_set_gap \/ panel_st7735_swap_xy \/ panel_st7735_mirror
  \/ panel_st7735_disp_on_off \/ Backlight \/ display_fill

\* Rows of text; a lost command leaves a letter of its row as it was.
display_text(texts) ==
  /\ LET Draw(missed) == screen' = [r \in DOMAIN screen |->
           IF r \in missed THEN Noise
           ELSE IF r \in DOMAIN texts THEN AsDrawn(texts[r]) ELSE screen[r]]
     IN  IF s_panel.ready THEN Drawn(DOMAIN texts, Draw)
         ELSE UNCHANGED <<screen, events>>
  /\ UNCHANGED <<s_panel, lcd, PIN_BL, todo, cmd, lost>>

-----------------------------------------------------------------------------
\* The rectangles that are drawn: left, top, right and bottom, the last two
\* exclusive, as panel_st7735_draw_bitmap sends them.
Window(x, y, w, h) == <<x + s_panel.gap[1], y + s_panel.gap[2],
                        x + s_panel.gap[1] + w, y + s_panel.gap[2] + h>>
Windows ==
  {Window(0, y, LCD_W, 20) : y \in {0, 20, 40, 60}}
  \cup {Window(8 * c, 8 * r, 8, 8) : c \in 0..(LCD_W \div 8 - 1), r \in 0..(Rows - 1)}

\* The memory of the controller, which exchanges rows and columns under MV.
RamWidth == IF "MV" \in lcd.madctl THEN 162 ELSE 132
RamHeight == IF "MV" \in lcd.madctl THEN 132 ELSE 162

drawing == s_panel.ready /\ (todo = <<>> \/ next = "fill")

(* Whichever command is lost while the panel is set up, everything that is  *)
(* drawn lies in the controller's memory, unless both commands that         *)
(* exchange rows and columns are lost: the one repeats the other.           *)
DrawsInRam ==
  drawing /\ ~({"swap_xy", "mirror"} \subseteq lost) =>
    \A w \in Windows : w[3] <= RamWidth /\ w[4] <= RamHeight

(* What a lost command can spoil (display_init looks at no result).  After  *)
(* the last call the controller shows the right way up and in the right     *)
(* colours whatever happened to the calls before it, the software reset in  *)
(* the middle of the init call included; only a command lost in the init    *)
(* call leaves it asleep or with another size of pixel for good.            *)
SetUp ==
  drawing =>
    /\ "mirror" \notin lost => lcd.madctl = {"BGR", "MV", "MY"}
    /\ ~({"init", "invert_color"} \subseteq lost) => lcd.inverted
    /\ ~({"init", "disp_on_off"} \subseteq lost) => lcd.on
    /\ "init" \notin lost => lcd.awake /\ lcd.colmod = 16
    /\ PIN_BL

=============================================================================
