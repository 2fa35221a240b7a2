---------------------------- MODULE ReliableWrite ----------------------------
(***************************************************************************)
(* The reliable write path: console-side/src/main.c (the write branch of   *)
(* tud_hid_set_report_cb, write_task and the ACK branch of on_link_recv),  *)
(* the s_rx_q of both boards' esp_now_link.c, and the LINK_T_TUN_WRITE     *)
(* branch of portal-side/src/main.c.                                       *)
(*                                                                         *)
(* A write is named by its rank in the order s_write_q accepted it; its 64 *)
(* bytes are abstracted to that name.  write_task gives it a 16-bit        *)
(* sequence number, sends it up to MaxAttempts times and waits 100 ms for  *)
(* an ACK after each transmission.  The portal's rx_task hands every copy  *)
(* it dequeues to the portal over USB and acknowledges it.                 *)
(*                                                                         *)
(* Each direction of the radio is one lossy FIFO, the receiver's s_rx_q: a *)
(* frame is lost (peer unlinked, full radio buffer, interference, pushed   *)
(* out of the queue by other traffic) or is queued by recv_cb, which drops *)
(* the oldest frame of a full queue.  A frame still in the air cannot be   *)
(* told from one waiting in the queue, since only rx_task looks at either. *)
(***************************************************************************)
EXTENDS Integers, Sequences

CONSTANTS
  MaxWrites,            \* bound: writes the game makes in one run
  MaxAttempts,          \* transmissions of one write (6 in the code)
  WriteQCap,            \* length of s_write_q (16 in the code)
  RxQCap,               \* length of s_rx_q (32 in the code)
  SeqMod,               \* sequence numbers are uint16_t (65536 in the code)
  MaxPortalReboots,     \* bound: restarts of the portal-side board
  MaxConsoleReboots     \* bound: restarts of the console-side board

(* Fewer than SeqMod writes in a run: 65535 of them, 600 ms apart at the   *)
(* slowest, with one frame of the first still queued all the while.        *)
ASSUME ReliableWriteAssumption ==
  /\ MaxWrites \in Nat \ {0}
  /\ MaxAttempts \in Nat \ {0}
  /\ WriteQCap \in Nat \ {0}
  /\ RxQCap \in Nat \ {0}
  /\ SeqMod \in Nat
  /\ MaxWrites < SeqMod
  /\ MaxPortalReboots \in Nat
  /\ MaxConsoleReboots \in Nat

Ids == 1..MaxWrites
Seqs == 0..(SeqMod - 1)
Frames == [id : Ids, seq : Seqs]
NoFrame == [id |-> 0, seq |-> 0]

VARIABLES
  \* console side, TinyUSB task and write_task
  accepted,         \* writes put on s_write_q since the beginning
  writeQ,           \* s_write_q
  pc,               \* write_task: "idle", "send", "wait" or "check"
  cur,              \* the write it took last (w), 0 before the first
  myseq,            \* its sequence number (myseq)
  attempt,          \* index of the current transmission (attempt)
  seq,              \* the next sequence number (static seq)
  \* console side, rx_task
  sem,              \* s_ack_sem is available
  ackedSeq,         \* s_acked_seq
  giving,           \* s_acked_seq is stored, s_ack_sem not yet given
  toConsole,        \* console-side s_rx_q: the ack_seq of each ACK
  \* portal side
  toPortal,         \* portal-side s_rx_q: the LINK_T_TUN_WRITE frames
  worker,           \* the frame rx_task is working on, or NoFrame
  workerPc,         \* rx_task: "recv", "deliver" or "ack"
  devUp,            \* s_dev is set: the portal is enumerated
  portalReboots,
  consoleReboots,
  \* what has happened so far
  acked,            \* writes that ended acknowledged
  lost,             \* writes that ended as "WRITE %u LOST!"
  handled,          \* writes the portal side's handler has run for
  applied,          \* writes some SET_REPORT carried to the portal
  lastHandled       \* the write it ran for most recently, 0 at first

writeTaskVars == <<pc, cur, myseq, attempt, seq>>
ackVars == <<sem, ackedSeq, giving>>
portalVars == <<worker, workerPc, devUp>>
rebootVars == <<portalReboots, consoleReboots>>
outcomeVars == <<acked, lost>>
deliveryVars == <<handled, applied, lastHandled>>

vars == <<accepted, writeQ, writeTaskVars, ackVars, toConsole,
          toPortal, portalVars, rebootVars, outcomeVars, deliveryVars>>

-----------------------------------------------------------------------------
(* One type invariant: every variable is in range, in particular attempt   *)
(* never leaves the range of the retry loop and the queues never exceed    *)
(* the length they were created with.                                      *)
TypeOK ==
  /\ accepted \in 0..MaxWrites
  /\ writeQ \in Seq(Ids) /\ Len(writeQ) <= WriteQCap
  /\ pc \in {"idle", "send", "wait", "check"}
  /\ cur \in 0..MaxWrites
  /\ myseq \in Seqs
  /\ attempt \in 0..MaxAttempts
  /\ pc # "idle" => attempt < MaxAttempts /\ cur \in Ids
  /\ seq \in Seqs
  /\ sem \in BOOLEAN
  /\ ackedSeq \in Seqs
  /\ giving \in BOOLEAN
  /\ toConsole \in Seq(Seqs) /\ Len(toConsole) <= RxQCap
  /\ toPortal \in Seq(Frames) /\ Len(toPortal) <= RxQCap
  /\ worker \in Frames \cup {NoFrame}
  /\ workerPc \in {"recv", "deliver", "ack"}
  /\ workerPc # "recv" => worker \in Frames
  /\ devUp \in BOOLEAN
  /\ portalReboots \in 0..MaxPortalReboots
  /\ consoleReboots \in 0..MaxConsoleReboots
  /\ acked \subseteq Ids
  /\ lost \subseteq Ids
  /\ handled \subseteq Ids
  /\ applied \subseteq Ids
  /\ lastHandled \in 0..MaxWrites

-----------------------------------------------------------------------------
(* Radio and queues. *)

\* Faulty variant: the new frame jumps the queue when it is full.
QueueReorderingPush(q, x) ==
  IF Len(q) < RxQCap THEN Append(q, x) ELSE <<x>> \o Tail(q)

\* recv_cb of esp_now_link.c queues a frame; a full queue loses its oldest.
DropOldestPush(q, x) ==
  IF Len(q) < RxQCap THEN Append(q, x) ELSE Append(Tail(q), x)

\* link_send: the result is ignored by every caller, so a frame that could
\* not be sent and one the radio lost are the same thing.
AfterSend(q, x) == {q, DropOldestPush(q, x)}

-----------------------------------------------------------------------------
(* Console side. *)

Init ==
  /\ accepted = 0
  /\ writeQ = <<>>
  /\ pc = "idle"
  /\ cur = 0
  /\ myseq = 0
  /\ attempt = 0
  /\ seq = 1
  /\ sem = FALSE
  /\ ackedSeq = 0
  /\ giving = FALSE
  /\ toConsole = <<>>
  /\ toPortal = <<>>
  /\ worker = NoFrame
  /\ workerPc = "recv"
  /\ devUp = FALSE
  /\ portalReboots = 0
  /\ consoleReboots = 0
  /\ acked = {}
  /\ lost = {}
  /\ handled = {}
  /\ applied = {}
  /\ lastHandled = 0

\* The game issues a valid write report; xQueueSend does not wait, and its
\* result is not looked at.
ConsoleWrite ==
  /\ accepted < MaxWrites
  /\ IF Len(writeQ) < WriteQCap
     THEN /\ accepted' = accepted + 1
          /\ writeQ' = Append(writeQ, accepted + 1)
     ELSE UNCHANGED <<accepted, writeQ>>
  /\ UNCHANGED <<writeTaskVars, ackVars, toConsole, toPortal, portalVars,
                 rebootVars, outcomeVars, deliveryVars>>

\* Faulty variant: every write gets the same number.
StuckSequence ==
  /\ pc = "idle"
  /\ writeQ # <<>>
  /\ cur' = Head(writeQ)
  /\ writeQ' = Tail(writeQ)
  /\ myseq' = seq
  /\ attempt' = 0
  /\ pc' = "send"
  /\ UNCHANGED <<accepted, seq, ackVars, toConsole, toPortal,
                 portalVars, rebootVars, outcomeVars, deliveryVars>>

\* write_task blocks on s_write_q, then numbers the write it got.
TakeWrite ==
  /\ pc = "idle"
  /\ writeQ # <<>>
  /\ cur' = Head(writeQ)
  /\ writeQ' = Tail(writeQ)
  /\ myseq' = seq
  /\ seq' = (seq + 1) % SeqMod
  /\ attempt' = 0
  /\ pc' = "send"
  /\ UNCHANGED <<accepted, ackVars, toConsole, toPortal,
                 portalVars, rebootVars, outcomeVars, deliveryVars>>

\* Empty the semaphore without waiting and transmit.
SendWrite ==
  /\ pc = "send"
  /\ sem' = FALSE
  /\ toPortal' \in AfterSend(toPortal, [id |-> cur, seq |-> myseq])
  /\ pc' = "wait"
  /\ UNCHANGED <<accepted, writeQ, cur, myseq, attempt, seq,
                 ackedSeq, giving, toConsole, portalVars, rebootVars,
                 outcomeVars, deliveryVars>>

\* Faulty variant: retry for ever.
UncountedRetry ==
  /\ pc' = "send"
  /\ UNCHANGED <<attempt, lost>>

\* Faulty variant: one transmission too many.
OffByOneRetry ==
  /\ attempt' = attempt + 1
  /\ IF attempt + 1 <= MaxAttempts
     THEN pc' = "send" /\ UNCHANGED lost
     ELSE pc' = "idle" /\ lost' = lost \cup {cur}

\* Faulty variant: give up without a word.
SilentGiveUp ==
  /\ attempt' = attempt + 1
  /\ pc' = IF attempt + 1 < MaxAttempts THEN "send" ELSE "idle"
  /\ UNCHANGED lost

\* The transmission failed: go round the loop, or leave it and report a loss.
NextAttempt ==
  /\ attempt' = attempt + 1
  /\ IF attempt + 1 < MaxAttempts
     THEN pc' = "send" /\ UNCHANGED lost
     ELSE pc' = "idle" /\ lost' = lost \cup {cur}

\* xSemaphoreTake(s_ack_sem, 100 ms) succeeds...
AckWakes ==
  /\ pc = "wait"
  /\ sem
  /\ sem' = FALSE
  /\ pc' = "check"
  /\ UNCHANGED <<accepted, writeQ, cur, myseq, attempt, seq,
                 ackedSeq, giving, toConsole, toPortal, portalVars,
                 rebootVars, outcomeVars, deliveryVars>>

\* Faulty variant: any ACK will do.
AnyAckAccepted ==
  /\ pc = "check"
  /\ pc' = "idle"
  /\ acked' = acked \cup {cur}
  /\ UNCHANGED <<attempt, lost>>
  /\ UNCHANGED <<accepted, writeQ, cur, myseq, seq, ackVars,
                 toConsole, toPortal, portalVars, rebootVars, deliveryVars>>

\* ... and s_acked_seq is read after it: another ACK may have changed it.
CheckAck ==
  /\ pc = "check"
  /\ \/ /\ ackedSeq = myseq
        /\ pc' = "idle"
        /\ acked' = acked \cup {cur}
        /\ UNCHANGED <<attempt, lost>>
     \/ /\ ackedSeq # myseq
        /\ NextAttempt
        /\ UNCHANGED acked
  /\ UNCHANGED <<accepted, writeQ, cur, myseq, seq, ackVars,
                 toConsole, toPortal, portalVars, rebootVars, deliveryVars>>

\* 100 ms pass without an ACK.
AckTimeout ==
  /\ pc = "wait"
  /\ ~sem
  /\ NextAttempt
  /\ UNCHANGED <<accepted, writeQ, cur, myseq, seq, ackVars,
                 toConsole, toPortal, portalVars, rebootVars, acked,
                 deliveryVars>>

\* on_link_recv, LINK_T_ACK: store the number, then give the semaphore.
ReceiveAck ==
  /\ toConsole # <<>>
  /\ ~giving
  /\ ackedSeq' = Head(toConsole)
  /\ toConsole' = Tail(toConsole)
  /\ giving' = TRUE
  /\ UNCHANGED <<accepted, writeQ, writeTaskVars, sem, toPortal,
                 portalVars, rebootVars, outcomeVars, deliveryVars>>

GiveAckSem ==
  /\ giving
  /\ giving' = FALSE
  /\ sem' = TRUE
  /\ UNCHANGED <<accepted, writeQ, writeTaskVars, ackedSeq,
                 toConsole, toPortal, portalVars, rebootVars, outcomeVars,
                 deliveryVars>>

-----------------------------------------------------------------------------
(* Portal side. *)

\* rx_task takes the next frame off s_rx_q.
PortalReceive ==
  /\ workerPc = "recv"
  /\ toPortal # <<>>
  /\ worker' = Head(toPortal)
  /\ toPortal' = Tail(toPortal)
  /\ workerPc' = "deliver"
  /\ UNCHANGED <<accepted, writeQ, writeTaskVars, ackVars,
                 toConsole, devUp, rebootVars, outcomeVars, deliveryVars>>

\* tunnel_host_send: a blocking SET_REPORT, which fails with the device gone
\* and may fail with it present; nobody looks at the result.
PortalDeliver ==
  /\ workerPc = "deliver"
  /\ handled' = handled \cup {worker.id}
  /\ lastHandled' = worker.id
  /\ \/ devUp /\ applied' = applied \cup {worker.id}
     \/ UNCHANGED applied
  /\ workerPc' = "ack"
  /\ UNCHANGED <<accepted, writeQ, writeTaskVars, ackVars,
                 toConsole, toPortal, worker, devUp, rebootVars, outcomeVars>>

\* The acknowledgement, always LINK_OK.
PortalAck ==
  /\ workerPc = "ack"
  /\ toConsole' \in AfterSend(toConsole, worker.seq)
  /\ worker' = NoFrame
  /\ workerPc' = "recv"
  /\ UNCHANGED <<accepted, writeQ, writeTaskVars, ackVars,
                 toPortal, devUp, rebootVars, outcomeVars, deliveryVars>>

\* device_cb and the disconnect event of iface_cb set and clear s_dev.
PortalPlugged ==
  /\ ~devUp
  /\ devUp' = TRUE
  /\ UNCHANGED <<accepted, writeQ, writeTaskVars, ackVars,
                 toConsole, toPortal, worker, workerPc, rebootVars,
                 outcomeVars, deliveryVars>>

PortalUnplugged ==
  /\ devUp
  /\ devUp' = FALSE
  /\ UNCHANGED <<accepted, writeQ, writeTaskVars, ackVars,
                 toConsole, toPortal, worker, workerPc, rebootVars,
                 outcomeVars, deliveryVars>>

-----------------------------------------------------------------------------
(* Power loss or reset of a board: everything it keeps is in RAM. *)

PortalReboot ==
  /\ portalReboots < MaxPortalReboots
  /\ portalReboots' = portalReboots + 1
  /\ toPortal' = <<>>
  /\ worker' = NoFrame
  /\ workerPc' = "recv"
  /\ devUp' = FALSE
  /\ UNCHANGED <<accepted, writeQ, writeTaskVars, ackVars,
                 toConsole, consoleReboots, outcomeVars, deliveryVars>>

ConsoleReboot ==
  /\ consoleReboots < MaxConsoleReboots
  /\ consoleReboots' = consoleReboots + 1
  /\ writeQ' = <<>>
  /\ pc' = "idle"
  /\ cur' = 0
  /\ myseq' = 0
  /\ attempt' = 0
  /\ seq' = 1
  /\ sem' = FALSE
  /\ ackedSeq' = 0
  /\ giving' = FALSE
  /\ toConsole' = <<>>
  /\ UNCHANGED <<accepted, toPortal, portalVars, portalReboots,
                 outcomeVars, deliveryVars>>

-----------------------------------------------------------------------------
WriteTask ==
  TakeWrite \/ SendWrite \/ AckWakes \/ CheckAck \/ AckTimeout

AckPath == ReceiveAck \/ GiveAckSem

PortalWorker == PortalReceive \/ PortalDeliver \/ PortalAck

Environment ==
  \/ ConsoleWrite
  \/ PortalPlugged
  \/ PortalUnplugged
  \/ PortalReboot
  \/ ConsoleReboot

Next == WriteTask \/ AckPath \/ PortalWorker \/ Environment

Spec == Init /\ [][Next]_vars

\* FreeRTOS always runs a ready task of this priority in the end, and the
\* 100 ms wait always ends: write_task is never stuck.  Nothing is assumed of
\* the radio, of the portal side or of the game.
FairSpec == Spec /\ WF_vars(WriteTask)

-----------------------------------------------------------------------------
(* Properties. *)

\* Writes 1..finished have left write_task, when the console side has not
\* been restarted.
finished == IF pc = "idle" THEN cur ELSE cur - 1

(* While the console side is not restarted, a write that write_task takes   *)
(* for acknowledged has been through the portal side's handler: neither a   *)
(* late ACK of another write nor an ACK that changes s_acked_seq between    *)
(* the wake-up and the comparison is taken for its own (README.md:55-56).   *)
AckedWasHandled == consoleReboots = 0 => acked \subseteq handled

(* A retransmission never reaches the portal after a newer write has: the   *)
(* figure is not taken back to an older block (esp_now_link.c:76, "keep     *)
(* order").                                                                 *)
WriteOrder == [][lastHandled' >= lastHandled]_vars

(* The game's writes reach the portal in order and without silent gaps:     *)
(* once a write has been handled every older one has been too, or is        *)
(* reported lost ("a dropped radio frame can't silently skip a block",      *)
(* README.md:55-56).                                                        *)
NoSilentGap ==
  consoleReboots = 0 => 1..lastHandled \subseteq handled \cup lost

(* The code implements the abstract write channel, step by step, restarts   *)
(* of both boards included (README.md:55-56).                               *)
Channel == INSTANCE WriteChannel WITH
             trusted <- consoleReboots = 0,
             accepted <- accepted,
             finished <- finished,
             acked <- acked,
             handled <- handled,
             lastHandled <- lastHandled
ChannelSafety == Channel!ChannelSpec

(* No write keeps write_task busy for ever: with the radio dead and the     *)
(* portal side gone, every accepted write is still acknowledged or given up *)
(* (the bounded loop of main.c:148), as the abstract channel promises.      *)
ChannelLiveness == Channel!LiveChannelSpec

(* A write both acknowledged and reported lost, or one that left write_task *)
(* as neither, would make the "WRITE LOST!" log useless.                    *)
OneOutcome ==
  /\ acked \cap lost = {}
  /\ consoleReboots = 0 => acked \cup lost = 1..finished

-----------------------------------------------------------------------------
(* What the documentation says and the code does not do; see README.md.     *)

(* The sequence number of an acknowledgement tells which write it is for,   *)
(* restarts of the console side included: header sequences increase         *)
(* monotonically (link_protocol.h:66, README.md:55-56).                     *)
AckNamesItsWrite == acked \subseteq handled

(* An acknowledgement says that the write reached the portal                *)
(* (portal-side/src/main.c:135-136).                                        *)
AckSaysDelivered == acked \subseteq applied

=============================================================================
