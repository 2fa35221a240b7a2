---------------------------- MODULE ConsoleReports ----------------------------
(***************************************************************************)
(* The reports on their way to the game: console-side/src/main.c without   *)
(* its write path.                                                         *)
(*                                                                         *)
(* Two tasks push reports on s_in_q, without a lock: rx_task those of the  *)
(* real portal (on_link_recv) and TinyUSB's task the answers to Ready and  *)
(* Activate that the dongle makes up itself (tud_hid_set_report_cb).       *)
(* tx_task takes them off and gives them to the USB stack, which hands     *)
(* them over when the game polls.  TinyUSB's task also resets the queue    *)
(* when the game's console connects or disconnects.                        *)
(*                                                                         *)
(* Reports are numbered in the order rx_task gets them; all that is left   *)
(* of their contents is the command letter.  Of the two stored answers,    *)
(* learned from the real portal, only the byte that says whether the       *)
(* portal is on is kept, s_act_resp[1].                                    *)
(* snoop_in, which only feeds the display, is in StatusDisplay.            *)
(***************************************************************************)
EXTENDS Integers, Sequences

CONSTANTS
  InQCap,               \* length of s_in_q (48 in the code)
  MaxTx,                \* attempts of tx_task (3 in the code)
  MaxReports,           \* bound: Status and Query reports of the real portal
  MaxCommands,          \* bound: Ready and Activate commands of the game
  MaxSessions           \* bound: times the console connects

ASSUME ConsoleReportsAssumption ==
  /\ InQCap \in Nat \ {0}
  /\ MaxTx \in Nat \ {0}
  /\ MaxReports \in Nat
  /\ MaxCommands \in Nat
  /\ MaxSessions \in Nat

Producers == {"rx", "usb"}
PortalReports == {"S", "Q"}        \* SKY_CMD_STATUS, SKY_CMD_QUERY
Answers == {"R", "A"}              \* SKY_CMD_READY, SKY_CMD_ACTIVATE

\* The second byte of a command or of its answer; a Ready has none, and an
\* Activate may come without it.
OnBytes == {"on", "off", "none"}

\* no: rank of a report, rank of the command an answer is for.
\* session: in which connection of the console it was let through.
Items ==
  [kind : PortalReports, no : 1..MaxReports, session : 0..MaxSessions]
    \cup [kind : Answers, no : 1..MaxCommands, session : 1..MaxSessions,
           on : OnBytes]
NoItem == [kind |-> "none", no |-> 0, session |-> 0]

Commands ==
  [kind : {"R"}, no : 1..MaxCommands, on : {"none"}]
    \cup [kind : {"A"}, no : 1..MaxCommands, on : OnBytes]
NoCommand == [kind |-> "none", no |-> 0]

VARIABLES
  s_in_q,
  pushing,              \* per producer: the item push_in was called with
  pushPc,               \* per producer: "idle", "send", "drop" or "again"
  s_console_active,
  s_act_resp,           \* its second byte
  \* TinyUSB's task and the console behind it
  mounted,              \* tud_mounted()
  usbPc,                \* "idle", "reset" (in tud_(u)mount_cb), "copy" (in
                        \* tud_hid_set_report_cb, before queue_local)
  command,              \* the command it is answering
  commands,             \* commands so far
  session,              \* connections so far
  inEp,                 \* the report the IN endpoint is armed with
  \* rx_task and the portal behind it
  reports,              \* reports so far
  echoes,               \* forwarded commands the real portal will answer
  \* tx_task
  txPc,                 \* "idle" or "send"
  txItem,
  txAttempt,
  \* what has happened so far
  activated,            \* the console has switched the portal on, this session
  got,                  \* the last report of the real portal the game got
  answered,             \* how many answers it got to each command
  asked                 \* the second byte of each command

queueVars == <<s_in_q, pushing, pushPc>>
usbVars == <<mounted, usbPc, command, commands, session, asked>>
rxVars == <<reports, echoes, s_act_resp>>
txVars == <<txPc, txItem, txAttempt>>
gameVars == <<activated, got, answered>>

vars == <<queueVars, s_console_active, usbVars, inEp, rxVars, txVars,
          gameVars>>

(* One type invariant: every variable is in range.                         *)
TypeOK ==
  /\ s_in_q \in Seq(Items) /\ Len(s_in_q) <= InQCap
  /\ pushing \in [Producers -> Items \cup {NoItem}]
  /\ pushPc \in [Producers -> {"idle", "send", "drop", "again"}]
  /\ \A p \in Producers : pushPc[p] # "idle" => pushing[p] \in Items
  /\ s_console_active \in BOOLEAN
  /\ mounted \in BOOLEAN
  /\ usbPc \in {"idle", "reset", "copy"}
  /\ command \in Commands \cup {NoCommand}
  /\ usbPc = "copy" => command \in Commands
  /\ commands \in 0..MaxCommands
  /\ session \in 0..MaxSessions
  /\ inEp \in Items \cup {NoItem}
  /\ reports \in 0..MaxReports
  /\ echoes \in Seq(Commands)
  /\ txPc \in {"idle", "send"}
  /\ txItem \in Items \cup {NoItem}
  /\ txPc = "send" => txItem \in Items
  /\ txAttempt \in 0..(MaxTx - 1)
  /\ activated \in BOOLEAN
  /\ got \in 0..MaxReports
  /\ answered \in [1..MaxCommands -> Nat]
  /\ asked \in [1..MaxCommands -> OnBytes]
  /\ s_act_resp \in {"on", "off"}

-----------------------------------------------------------------------------
Init ==
  /\ s_in_q = <<>>
  /\ pushing = [p \in Producers |-> NoItem]
  /\ pushPc = [p \in Producers |-> "idle"]
  /\ s_console_active = FALSE
  /\ mounted = FALSE
  /\ usbPc = "idle"
  /\ command = NoCommand
  /\ commands = 0
  /\ session = 0
  /\ inEp = NoItem
  /\ reports = 0
  /\ echoes = <<>>
  /\ txPc = "idle"
  /\ txItem = NoItem
  /\ txAttempt = 0
  /\ activated = FALSE
  /\ got = 0
  /\ answered = [c \in 1..MaxCommands |-> 0]
  /\ asked = [c \in 1..MaxCommands |-> "none"]
  /\ s_act_resp = "on"

-----------------------------------------------------------------------------
(* push_in, by either task: send, and if the queue is full drop the oldest  *)
(* and send again.                                                         *)

StartPush(p, item) ==
  /\ pushPc[p] = "idle"
  /\ pushing' = [pushing EXCEPT ![p] = item]
  /\ pushPc' = [pushPc EXCEPT ![p] = "send"]
  /\ UNCHANGED s_in_q

QueueItem(p) ==
  /\ pushPc[p] = "send"
  /\ IF Len(s_in_q) < InQCap
     THEN /\ s_in_q' = Append(s_in_q, pushing[p])
          /\ pushPc' = [pushPc EXCEPT ![p] = "idle"]
          /\ pushing' = [pushing EXCEPT ![p] = NoItem]
     ELSE /\ pushPc' = [pushPc EXCEPT ![p] = "drop"]
          /\ UNCHANGED <<s_in_q, pushing>>
  /\ UNCHANGED <<s_console_active, usbVars, inEp, rxVars, txVars,
                 gameVars>>

\* Faulty variant: nothing is dropped.
KeepOldest(p) ==
  /\ pushPc[p] = "drop"
  /\ pushPc' = [pushPc EXCEPT ![p] = "again"]
  /\ UNCHANGED <<s_in_q, pushing, s_console_active, usbVars, inEp, rxVars,
                 txVars, gameVars>>

\* xQueueReceive without waiting: nothing to drop if the queue is empty now.
DropOldest(p) ==
  /\ pushPc[p] = "drop"
  /\ s_in_q' = IF s_in_q = <<>> THEN <<>> ELSE Tail(s_in_q)
  /\ pushPc' = [pushPc EXCEPT ![p] = "again"]
  /\ UNCHANGED <<pushing, s_console_active, usbVars, inEp, rxVars,
                 txVars, gameVars>>

\* Faulty variant: the report that had to wait goes to the front.
QueueAtFront(p) ==
  /\ pushPc[p] = "again"
  /\ s_in_q' = IF Len(s_in_q) < InQCap THEN <<pushing[p]>> \o s_in_q ELSE s_in_q
  /\ pushPc' = [pushPc EXCEPT ![p] = "idle"]
  /\ pushing' = [pushing EXCEPT ![p] = NoItem]
  /\ UNCHANGED <<s_console_active, usbVars, inEp, rxVars, txVars,
                 gameVars>>

\* The result of the second xQueueSend is not looked at.
QueueAgain(p) ==
  /\ pushPc[p] = "again"
  /\ s_in_q' = IF Len(s_in_q) < InQCap THEN Append(s_in_q, pushing[p]) ELSE s_in_q
  /\ pushPc' = [pushPc EXCEPT ![p] = "idle"]
  /\ pushing' = [pushing EXCEPT ![p] = NoItem]
  /\ UNCHANGED <<s_console_active, usbVars, inEp, rxVars, txVars,
                 gameVars>>

-----------------------------------------------------------------------------
(* TinyUSB's task.  It runs one callback at a time.                         *)

usbFree == usbPc = "idle" /\ pushPc["usb"] = "idle"

\* tud_mount_cb: the gate closes, then the queue is emptied.
Mount ==
  /\ usbFree
  /\ ~mounted
  /\ session < MaxSessions
  /\ mounted' = TRUE
  /\ session' = session + 1
  /\ s_console_active' = FALSE
  /\ activated' = FALSE
  /\ usbPc' = "reset"
  /\ UNCHANGED <<queueVars, command, commands, asked, inEp, rxVars, txVars,
                 got, answered>>

\* The console resets the bus: no callback, the gate stays as it is.
BusReset ==
  /\ usbFree
  /\ mounted
  /\ mounted' = FALSE
  /\ activated' = FALSE
  /\ inEp' = NoItem
  /\ UNCHANGED <<queueVars, s_console_active, usbPc, command, commands, session,
                 asked, rxVars, txVars, got, answered>>

\* tud_umount_cb; the report in the endpoint is gone with the console.
Umount ==
  /\ usbFree
  /\ mounted
  /\ mounted' = FALSE
  /\ s_console_active' = FALSE
  /\ activated' = FALSE
  /\ inEp' = NoItem
  /\ usbPc' = "reset"
  /\ UNCHANGED <<queueVars, command, commands, session, asked, rxVars,
                 txVars, got, answered>>

\* Faulty variant: the mount callbacks leave the queue alone.
KeepQueue ==
  /\ usbPc = "reset"
  /\ usbPc' = "idle"
  /\ UNCHANGED <<queueVars, s_console_active, mounted, command,
                 commands, session, asked, inEp, rxVars, txVars, gameVars>>

\* xQueueReset, the end of both callbacks.
ResetQueue ==
  /\ usbPc = "reset"
  /\ s_in_q' = <<>>
  /\ usbPc' = "idle"
  /\ UNCHANGED <<pushing, pushPc, s_console_active, mounted, command,
                 commands, session, asked, inEp, rxVars, txVars, gameVars>>

\* Ready or Activate arrives: the second byte of an Activate, if it has one,
\* opens or closes the gate and goes into the stored answer.
ReceiveCommand ==
  /\ usbFree
  /\ mounted
  /\ commands < MaxCommands
  /\ commands' = commands + 1
  /\ command' \in {c \in Commands : c.no = commands + 1}
  /\ asked' = [asked EXCEPT ![commands + 1] = command'.on]
  /\ \/ /\ command'.on # "none"
        /\ s_act_resp' = command'.on
        /\ s_console_active' = (command'.on = "on")
     \/ /\ command'.on = "none"
        /\ UNCHANGED <<s_act_resp, s_console_active>>
  /\ activated' = (activated \/ command'.on = "on")
  /\ usbPc' = "copy"
  /\ UNCHANGED <<queueVars, mounted, session, inEp, reports, echoes, txVars,
                 got, answered>>

\* queue_local copies the stored answer; then the command goes on to the real
\* portal, whose reply the radio may lose.
AnswerCommand ==
  /\ usbPc = "copy"
  /\ StartPush("usb", [kind |-> command.kind, no |-> command.no,
                       session |-> session,
                       on |-> IF command.kind = "A" THEN s_act_resp ELSE "none"])
  /\ echoes' \in {echoes, Append(echoes, command)}
  /\ usbPc' = "idle"
  /\ command' = NoCommand
  /\ UNCHANGED <<s_console_active, s_act_resp, mounted, commands, session, asked,
                 inEp, reports, txVars, gameVars>>

-----------------------------------------------------------------------------
(* rx_task: on_link_recv, LINK_T_TUN_IN.                                    *)

\* Faulty variant: the gate lets everything through.
UngatedReport ==
  /\ pushPc["rx"] = "idle"
  /\ reports < MaxReports
  /\ reports' = reports + 1
  /\ \E kind \in PortalReports :
       StartPush("rx", [kind |-> kind, no |-> reports + 1,
                        session |-> session])
  /\ UNCHANGED <<s_console_active, s_act_resp, usbVars, inEp, echoes, txVars,
                 gameVars>>

\* A Status or Query report; a Status is held back while the gate is closed.
ReceiveReport ==
  /\ pushPc["rx"] = "idle"
  /\ reports < MaxReports
  /\ reports' = reports + 1
  /\ \E kind \in PortalReports :
       IF kind = "S" /\ ~s_console_active
       THEN UNCHANGED queueVars
       ELSE StartPush("rx", [kind |-> kind, no |-> reports + 1,
                             session |-> session])
  /\ UNCHANGED <<s_console_active, s_act_resp, usbVars, inEp, echoes, txVars,
                 gameVars>>

\* Faulty variant: the real portal's answer is passed on as well.
ForwardEcho ==
  /\ pushPc["rx"] = "idle"
  /\ echoes # <<>>
  /\ echoes' = Tail(echoes)
  /\ StartPush("rx", [kind |-> Head(echoes).kind, no |-> Head(echoes).no,
                      session |-> session, on |-> Head(echoes).on])
  /\ UNCHANGED <<s_console_active, s_act_resp, usbVars, inEp, reports, txVars,
                 gameVars>>

\* The second byte of the real portal's answer: that of the Activate, or if it
\* had none whatever the portal makes of it.
EchoBytes(c) == IF c.on = "none" THEN {"on", "off"} ELSE {c.on}

\* The real portal's own answer to a forwarded command: learn + swallow.
LearnEcho ==
  /\ pushPc["rx"] = "idle"
  /\ echoes # <<>>
  /\ echoes' = Tail(echoes)
  /\ \/ /\ Head(echoes).kind = "A"
        /\ s_act_resp' \in EchoBytes(Head(echoes))
     \/ /\ Head(echoes).kind = "R"
        /\ UNCHANGED s_act_resp
  /\ UNCHANGED <<queueVars, s_console_active, usbVars, inEp, reports, txVars,
                 gameVars>>

-----------------------------------------------------------------------------
(* tx_task, and the game that polls the IN endpoint.                        *)

TakeItem ==
  /\ txPc = "idle"
  /\ s_in_q # <<>>
  /\ txItem' = Head(s_in_q)
  /\ s_in_q' = Tail(s_in_q)
  /\ txPc' = "send"
  /\ UNCHANGED <<txAttempt, pushing, pushPc, s_console_active, usbVars, inEp,
                 rxVars, gameVars>>

\* Back to the queue.
ItemDone == txPc' = "idle" /\ txItem' = NoItem /\ txAttempt' = 0

\* The endpoint is free, and tud_hid_report takes the report.
SendItem ==
  /\ txPc = "send"
  /\ mounted
  /\ inEp = NoItem
  /\ inEp' = txItem
  /\ ItemDone
  /\ UNCHANGED <<queueVars, s_console_active, usbVars, rxVars, gameVars>>

\* Not connected: the report is dropped.
DropItem ==
  /\ txPc = "send"
  /\ ~mounted
  /\ ItemDone
  /\ UNCHANGED <<queueVars, s_console_active, usbVars, inEp, rxVars, gameVars>>

\* Faulty variant: the attempts are not counted.
PatientRetry ==
  /\ txPc = "send"
  /\ mounted
  /\ inEp # NoItem
  /\ txAttempt' = (txAttempt + 1) % MaxTx
  /\ UNCHANGED <<queueVars, s_console_active, usbVars, inEp, rxVars,
                 txPc, txItem, gameVars>>

\* Faulty variant: one attempt too many.
ExtraRetry ==
  /\ txPc = "send"
  /\ mounted
  /\ inEp # NoItem
  /\ IF txAttempt < MaxTx
     THEN txAttempt' = txAttempt + 1 /\ UNCHANGED <<txPc, txItem>>
     ELSE ItemDone
  /\ UNCHANGED <<queueVars, s_console_active, usbVars, inEp, rxVars, gameVars>>

\* 50 ms without a free endpoint, and tud_hid_report refuses the report: one
\* attempt less.
RetryItem ==
  /\ txPc = "send"
  /\ mounted
  /\ inEp # NoItem
  /\ IF txAttempt + 1 < MaxTx
     THEN txAttempt' = txAttempt + 1 /\ UNCHANGED <<txPc, txItem>>
     ELSE ItemDone
  /\ UNCHANGED <<queueVars, s_console_active, usbVars, inEp, rxVars, gameVars>>

\* The game has collected the report: TinyUSB's task frees the endpoint.
HostPoll ==
  /\ usbFree
  /\ mounted
  /\ inEp # NoItem
  /\ inEp' = NoItem
  /\ got' = IF inEp.kind \in PortalReports THEN inEp.no ELSE got
  /\ answered' = IF inEp.kind \in Answers
                 THEN [answered EXCEPT ![inEp.no] = @ + 1] ELSE answered
  /\ UNCHANGED <<queueVars, s_console_active, usbVars, rxVars, txVars,
                 activated>>

-----------------------------------------------------------------------------
PushIn == \E p \in Producers : QueueItem(p) \/ DropOldest(p) \/ QueueAgain(p)

UsbTask ==
  \/ Mount \/ BusReset \/ Umount \/ ResetQueue
  \/ ReceiveCommand \/ AnswerCommand

RxTask == ReceiveReport \/ LearnEcho

TxTask == TakeItem \/ SendItem \/ DropItem \/ RetryItem

Next == PushIn \/ UsbTask \/ RxTask \/ TxTask \/ HostPoll

Spec == Init /\ [][Next]_vars

\* FreeRTOS runs tx_task while it is ready, and its waits are bounded.  Nothing
\* is assumed of the console, of the radio or of the other tasks.
FairSpec == Spec /\ WF_vars(TxTask)

-----------------------------------------------------------------------------
(* Properties. *)

(* The reports of the real portal reach the game in the order rx_task got   *)
(* them, drops and reconnections included: it is never shown a figure again *)
(* that has been taken away (main.c:59-68).                                 *)
ReportsInOrder == [][got' >= got]_vars

(* The game gets one answer to a command at most: the local one, and not    *)
(* the real portal's on top of it (main.c:104-107).                         *)
AnsweredOnce == \A c \in 1..MaxCommands : answered[c] <= 1

(* push_in gives up its own report only to a report of the other task that  *)
(* took the place it had made (main.c:59-68).                               *)
KindsOf == [rx |-> PortalReports, usb |-> Answers]
OnlyRacesLose ==
  \A p, q \in Producers :
    p # q /\ pushPc[p] = "again" /\ Len(s_in_q) = InQCap
      => s_in_q[InQCap].kind \in KindsOf[q]

(* Once a connection has reset the queue, tx_task has at most one more      *)
(* report from before it to take: the one rx_task had let through and not   *)
(* queued yet.  What tx_task holds at that moment, or has armed the         *)
(* endpoint with, comes on top (main.c:227-232).                           *)
IsStale(item) == item # NoItem /\ item.session # session
OneStaleToTake ==
  usbPc # "reset" =>
    /\ \A i, j \in 1..Len(s_in_q) :
         IsStale(s_in_q[i]) /\ IsStale(s_in_q[j]) => i = j
    /\ IsStale(pushing["rx"]) => \A i \in 1..Len(s_in_q) : ~IsStale(s_in_q[i])

(* No Status report that was let through since the console has connected    *)
(* is sent before the console has switched the portal on (main.c:113-116).  *)
GateHolds ==
  inEp.kind = "S" /\ inEp.session = session => activated

(* tx_task is never held up for good by a console that does not poll        *)
(* (main.c:131-137).                                                       *)
TxGoesOn == (txPc = "send") ~> (txPc = "idle")

-----------------------------------------------------------------------------
(* What the documentation says and the code does not do; see README.md.     *)

(* A console that connects gets no Status report before it has switched the *)
(* portal on: "no stale stream, not yet activated" (main.c:228-230).        *)
QuietUntilActivated == inEp.kind = "S" => activated

(* The answer to an Activate has the byte of that Activate, "echo requested *)
(* on/off" (main.c:279), whatever the real portal answers to the ones       *)
(* before; of Activates without that byte nothing is said.                  *)
EchoRequested ==
  inEp.kind = "A" /\ (\A c \in 1..inEp.no : asked[c] # "none")
    => inEp.on = asked[inEp.no]

=============================================================================
