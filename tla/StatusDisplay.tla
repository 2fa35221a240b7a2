---------------------------- MODULE StatusDisplay ----------------------------
(***************************************************************************)
(* The status screen of console-side/src/main.c: the counters and flags it *)
(* shows, the ring of log lines two tasks write without a lock, and        *)
(* display_task, which draws all of it every 200 ms.  link_is_linked(),    *)
(* tud_mounted() and the reports of the portal change under its hands.     *)
(* Signal strength, the count of audio packets and the mark of a recent    *)
(* write are left out.                                                     *)
(***************************************************************************)
EXTENDS Panel, SkyProtocol

CONSTANTS
  LogLines,             \* LOG_LINES
  Reports               \* what the portal may report: records of the bytes and
                        \* of what they tell

StatusRows == 5
ASSUME LogAssumption == LogLines \in Nat \ {0} /\ Rows = StatusRows + LogLines

\* What a report of the portal tells, by the comments its parsers carry: which
\* figures stand on it, whatever else has changed, or which toy one of them is,
\* or neither, being cut short, an error or an answer about something else.
Told(tells, figures, toy, r) ==
  \/ /\ tells = "figures" /\ figures \in SUBSET Slots
     /\ \E changed \in SUBSET Slots : r = StatusReport(figures, changed)
  \/ /\ tells = "toy" /\ toy \in ToyIds
     /\ \E slot \in Slots : r = QueryAnswer(slot, SKY_BLOCK_TOY_ID, toy)
  \/ /\ tells = "nothing"
     /\ \/ Len(r) < 5
        \/ r[1] \notin {SKY_CMD_STATUS, SKY_CMD_QUERY}
        \/ r[1] = SKY_CMD_QUERY /\ (r[2] = 1 \/ r[3] # SKY_BLOCK_TOY_ID)
ASSUME ReportsAssumption ==
  \A m \in Reports : Told(m.tells, m.figures, m.toy, m.bytes)

Tasks == {"display", "write"}
Topics == <<"link", "usb", "figures", "toy">>   \* in the order they are compared

VARIABLES
  linked, mounted,      \* link_is_linked(), tud_mounted()
  s_present_count, s_toy, s_writes,
  s_log, s_log_head,
  dlog,                 \* per task: the line it is logging, and how far it is
  frame,                \* display_task: what it has read for this frame
  p,                    \* display_task: what it logged last
  stage,                \* display_task: the step of the loop, "boot" before it
  row,                  \* display_task: the row it draws next
  reported,             \* what the reports said: figures and toy
  lines,                \* the last lines logged, in the order of their texts
  said,                 \* the last thing logged about each topic
  raced                 \* two tasks have been in dlog at once

screenVars == <<linked, mounted, s_present_count, s_toy, s_writes>>
logVars == <<s_log, s_log_head, dlog, lines, said, raced>>
taskVars == <<frame, p, stage, row>>
vars == <<panelVars, screenVars, logVars, taskVars, reported>>

Idle == [at |-> "idle", line |-> Blank, row |-> 0, head |-> 0]
Values == [link : BOOLEAN, usb : BOOLEAN, figures : (-1)..SKY_MAX_SLOTS,
           toy : ToyIds]
Nothing == [link |-> FALSE, usb |-> FALSE, figures |-> -1, toy |-> 65535]

TypeOK ==
  /\ PanelTypeOK
  /\ linked \in BOOLEAN /\ mounted \in BOOLEAN
  /\ s_present_count \in 0..SKY_MAX_SLOTS /\ s_toy \in ToyIds
  /\ s_writes \in 0..MaxEvents
  /\ DOMAIN s_log = 0..(LogLines - 1) /\ s_log_head \in DOMAIN s_log
  /\ \A t \in Tasks :
       /\ dlog[t].at \in {"idle", "format", "load", "store"}
       /\ {dlog[t].row, dlog[t].head} \subseteq DOMAIN s_log
  /\ {frame, p, said} \subseteq Values
  /\ stage \in {"boot", "read", "log", "draw"}
  /\ row \in 0..(Rows - 1)
  /\ Len(lines) = LogLines

Init ==
  /\ PanelInit
  /\ linked = FALSE /\ mounted = FALSE
  /\ s_present_count = 0 /\ s_toy = 0 /\ s_writes = 0
  /\ s_log = [i \in 0..(LogLines - 1) |-> Blank] /\ s_log_head = 0
  /\ dlog = [t \in Tasks |-> Idle]
  /\ frame = Nothing /\ p = Nothing /\ said = Nothing
  /\ stage = "boot" /\ row = 0
  /\ reported = [figures |-> {}, toy |-> 0]
  /\ lines = [i \in 1..LogLines |-> Blank] /\ raced = FALSE

-----------------------------------------------------------------------------
\* dlog: the address of the line, its text, and the new head, for which the
\* compiler may keep the head it has or read it again.
StartLog(t, line) ==
  /\ dlog' = [dlog EXCEPT ![t] = [at |-> "format", line |-> line,
                                  row |-> s_log_head, head |-> 0]]
  /\ raced' = (raced \/ \E u \in Tasks \ {t} : dlog[u].at # "idle")
  /\ UNCHANGED <<s_log, s_log_head, lines, said>>

Format(t) ==
  /\ dlog[t].at = "format"
  /\ LET line == dlog[t].line
     IN  /\ s_log' = [s_log EXCEPT ![dlog[t].row] = line]
         /\ lines' = Append(Tail(lines), line)
         /\ said' = IF line[1] \in DOMAIN said
                    THEN [said EXCEPT ![line[1]] = line[2]] ELSE said
  /\ dlog' = [dlog EXCEPT ![t].at = "load"]
  /\ UNCHANGED <<s_log_head, raced>>

LoadHead(t) ==
  /\ dlog[t].at = "load"
  /\ \E h \in {dlog[t].row, s_log_head} :
       dlog' = [dlog EXCEPT ![t] = [@ EXCEPT !.at = "store", !.head = h]]
  /\ UNCHANGED <<s_log, s_log_head, lines, said, raced>>

\* Faulty variant: the head goes past the last line before it wraps.
StoreOffByOne(t) ==
  /\ dlog[t].at = "store"
  /\ s_log_head' = (dlog[t].head + 1) % (LogLines + 1)
  /\ dlog' = [dlog EXCEPT ![t] = Idle]
  /\ UNCHANGED <<s_log, lines, said, raced>>

StoreHead(t) ==
  /\ dlog[t].at = "store"
  /\ s_log_head' = (dlog[t].head + 1) % LogLines
  /\ dlog' = [dlog EXCEPT ![t] = Idle]
  /\ UNCHANGED <<s_log, lines, said, raced>>

Logging(t) == Format(t) \/ LoadHead(t) \/ StoreHead(t)
idle(t) == dlog[t].at = "idle"
running == stage # "boot"

\* app_main: the screen is set up, the first line is logged, the tasks start.
Boot ==
  /\ stage = "boot"
  /\ \/ display_init /\ UNCHANGED <<logVars, stage>>
     \/ /\ todo = <<>> /\ idle("display")
        /\ IF lines[LogLines] = Blank
           THEN StartLog("display", <<"boot">>) /\ UNCHANGED stage
           ELSE stage' = "read" /\ UNCHANGED logVars
        /\ UNCHANGED panelVars
  /\ UNCHANGED <<screenVars, frame, p, row, reported>>

-----------------------------------------------------------------------------
\* The link, USB, the reports, and writes that end: all bounded together.
Happens ==
  /\ running /\ events < MaxEvents /\ events' = events + 1
  /\ UNCHANGED <<s_panel, lcd, PIN_BL, todo, cmd, lost, screen, taskVars>>

Change == Happens /\ UNCHANGED <<s_writes, logVars>>

LinkChanges ==
  /\ Change /\ linked' = ~linked
  /\ UNCHANGED <<mounted, s_present_count, s_toy, reported>>

UsbChanges ==
  /\ Change /\ mounted' = ~mounted
  /\ UNCHANGED <<linked, s_present_count, s_toy, reported>>

isStatus(r) == r[1] = SKY_CMD_STATUS /\ Len(r) >= 5
isToy(r) == r[1] = SKY_CMD_QUERY /\ sky_query_ok(r)
            /\ sky_query_block(r) = SKY_BLOCK_TOY_ID /\ Len(r) >= 5

\* Faulty variant: one bit for a slot instead of two.
CountBits(r) ==
  /\ s_present_count' = IF isStatus(r)
       THEN Cardinality({i \in Slots : StatusBit(r, i) = 1}) ELSE s_present_count
  /\ s_toy' = IF isToy(r) THEN ToyId(r) ELSE s_toy

snoop_in(r) ==
  /\ s_present_count' = IF isStatus(r)
       THEN Cardinality(sky_present_mask(r)) ELSE s_present_count
  /\ s_toy' = IF isToy(r) THEN ToyId(r) ELSE s_toy

ReportArrives ==
  /\ Change
  /\ \E m \in Reports :
       /\ snoop_in(m.bytes)
       /\ reported' = [figures |-> IF m.tells = "figures" THEN m.figures
                                   ELSE reported.figures,
                       toy |-> IF m.tells = "toy" THEN m.toy ELSE reported.toy]
  /\ UNCHANGED <<linked, mounted>>

\* write_task when a write has been acknowledged or its attempts are used up,
\* which it logs; what comes before is ReliableWrite.
EndWrite ==
  /\ Happens /\ idle("write")
  /\ s_writes' = s_writes + 1
  /\ \/ UNCHANGED logVars
     \/ StartLog("write", <<"lost", s_writes + 1>>)
  /\ UNCHANGED <<linked, mounted, s_present_count, s_toy, reported>>

-----------------------------------------------------------------------------
\* display_task.  Steps that touch nothing but its own variables are one.
Now == [link |-> linked, usb |-> mounted, figures |-> s_present_count,
        toy |-> s_toy]

\* Faulty variant: while the link is down the old values are shown.
ReadWhenLinked ==
  /\ stage = "read"
  /\ frame' = IF linked \/ frame = Nothing THEN Now ELSE frame
  /\ stage' = "log"
  /\ UNCHANGED <<panelVars, screenVars, logVars, p, row, reported>>

ReadState ==
  /\ stage = "read"
  /\ frame' = Now
  /\ stage' = "log"
  /\ UNCHANGED <<panelVars, screenVars, logVars, p, row, reported>>

Compared == {i \in 1..Len(Topics) : frame[Topics[i]] # p[Topics[i]]}

\* Faulty variant: the values are read again when one has been logged.
RememberLatest ==
  /\ stage = "log" /\ idle("display") /\ Compared # {}
  /\ LET t == Topics[CHOOSE i \in Compared : \A j \in Compared : i <= j]
     IN  /\ p' = [p EXCEPT ![t] = Now[t]]
         /\ frame' = [frame EXCEPT ![t] = Now[t]]
         /\ IF t = "toy" /\ frame[t] = 0 THEN UNCHANGED logVars
            ELSE StartLog("display", <<t, frame[t]>>)
  /\ UNCHANGED <<panelVars, screenVars, stage, row, reported>>

LogChange ==
  /\ stage = "log" /\ idle("display") /\ Compared # {}
  /\ LET t == Topics[CHOOSE i \in Compared : \A j \in Compared : i <= j]
     IN  /\ p' = [p EXCEPT ![t] = frame[t]]
         /\ IF t = "toy" /\ frame[t] = 0 THEN UNCHANGED logVars
            ELSE StartLog("display", <<t, frame[t]>>)
  /\ UNCHANGED <<panelVars, screenVars, frame, stage, row, reported>>

StatusText(r, v, writes) ==
  CASE r = 0 -> <<"title">>
    [] r = 1 -> <<"link", v.link>>
    [] r = 2 -> <<"usb", v.usb>>
    [] r = 3 -> <<"figures", v.figures, v.toy>>
    [] r = 4 -> <<"writes", writes>>

DrawStatus ==
  /\ stage = "log" /\ idle("display") /\ Compared = {}
  /\ display_text([r \in 0..(StatusRows - 1) |-> StatusText(r, frame, s_writes)])
  /\ stage' = "draw" /\ row' = StatusRows
  /\ UNCHANGED <<screenVars, logVars, frame, p, reported>>

LogRow(i) == (s_log_head + i) % LogLines

\* The oldest line first.  A line write_task is putting there is read in part.
DrawLog ==
  /\ stage = "draw"
  /\ LET k == LogRow(row - StatusRows)
     IN  \/ display_text([r \in {row} |-> s_log[k]])
         \/ /\ dlog["write"].at = "format" /\ dlog["write"].row = k
            /\ display_text([r \in {row} |-> Noise])
  /\ IF row = Rows - 1 THEN stage' = "read" /\ row' = 0
     ELSE row' = row + 1 /\ UNCHANGED stage
  /\ UNCHANGED <<screenVars, logVars, frame, p, reported>>

InDlog(t) ==
  /\ Logging(t)
  /\ UNCHANGED <<panelVars, screenVars, taskVars, reported>>

DisplayTask ==
  running /\ (ReadState \/ LogChange \/ DrawStatus \/ DrawLog \/ InDlog("display"))

Next ==
  \/ Boot \/ (stage = "boot" /\ InDlog("display"))
  \/ DisplayTask \/ InDlog("write")
  \/ LinkChanges \/ UsbChanges \/ ReportArrives \/ EndWrite

\* The tasks run; nothing is assumed of the rest.
Spec ==
  /\ Init /\ [][Next]_vars
  /\ WF_vars(Boot) /\ WF_vars(stage = "boot" /\ InDlog("display"))
  /\ WF_vars(DisplayTask) /\ WF_vars(InDlog("write"))

-----------------------------------------------------------------------------
(* Properties. *)

(* As long as the two tasks have not been in dlog at once, which nothing    *)
(* prevents (main.c:81-86), the ring holds the last lines, the oldest one   *)
(* where display_task begins to draw.                                       *)
LogInOrder ==
  ~raced /\ (\A t \in Tasks : idle(t)) =>
    \A i \in 1..LogLines : s_log[LogRow(i - 1)] = lines[i]

(* The count of figures and the toy are those the last report told, for     *)
(* every slot and whatever the other bits of a Status report are; errors,   *)
(* other blocks and short reports change neither (main.c:88-97).            *)
ReportsUnderstood ==
  /\ s_present_count = Cardinality(reported.figures)
  /\ s_toy = reported.toy

(* When nothing changes any more, there comes to be seen on the screen what *)
(* is the case and the lines of the ring, whatever drawing was lost, torn   *)
(* or overtaken by a change, two changes within a frame or a race of the    *)
(* two tasks included: every frame draws all of it again.  It takes a panel *)
(* that was created and set up; a command lost in the init call or with the *)
(* mirror call is never sent again, and the screen may stay dark or         *)
(* garbled.  A command lost in another call of the set-up does no harm.     *)
ScreenCatchesUp ==
  <>[](s_panel.ready /\ "init" \notin lost /\ "mirror" \notin lost =>
         /\ \A r \in 0..(StatusRows - 1) : Shown(r) = StatusText(r, Now, s_writes)
         /\ \A i \in 0..(LogLines - 1) : Shown(StatusRows + i) = s_log[LogRow(i)])

(* Every change that lasts is logged, also one that falls into the drawing  *)
(* of a frame, with or without a screen: the last line about the link, USB, *)
(* the figures and the toy comes to be the state they are in.  "Link lost", *)
(* "host gone" and toy 0 are not logged at the start.  A line counts as     *)
(* logged when it has been written, also where a race of the two tasks then *)
(* overwrites it.                                                           *)
LogCatchesUp ==
  <>[](/\ said.link = linked /\ said.usb = mounted
       /\ said.figures = s_present_count
       /\ s_toy = 0 \/ said.toy = s_toy)

=============================================================================
