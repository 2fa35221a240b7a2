---------------------------- MODULE FigureBackup ----------------------------
(***************************************************************************)
(* The pre-write backup and the restore of portal-side/src/main.c, and the *)
(* figures on the portal it is there to protect.                           *)
(*                                                                         *)
(* Four tasks share s_snoop, s_backed_up, s_present_mask, s_bak_q and NVS: *)
(* the HID host task copies every block the console reads (snoop), rx_task *)
(* handles writes, backup_task commits images to NVS and button_task       *)
(* restores them.  People put figures on the portal and take them away     *)
(* without asking any of the four.                                         *)
(*                                                                         *)
(* The 16 bytes of a block are abstracted to where they come from: a       *)
(* figure (what it held at first, its UID when it is block 0), the game's  *)
(* n-th write, or Blank for the zeros of memory nothing was copied to.     *)
(***************************************************************************)
EXTENDS Integers, Sequences

CONSTANTS
  Figures,              \* the figures, told apart by their UID
  Blank,                \* zeros
  NoFigure,             \* nothing on the slot
  NoImage,              \* no blob under that key
  NumSlots,             \* SKY_MAX_SLOTS (16 in the code)
  NumBlocks,            \* SKY_NUM_BLOCKS (64 in the code)
  BakQCap,              \* length of s_bak_q (4 in the code)
  MaxWrites,            \* bound: writes the game makes
  MaxEvents             \* bound: figures put on the portal, and restarts

Slots == 0..(NumSlots - 1)
Blocks == 0..(NumBlocks - 1)
Values == Figures \cup {Blank} \cup 1..MaxWrites
Keys == Figures \cup {Blank}
Images == {img \in [Blocks -> Values] : img[0] \in Keys}

ASSUME FigureBackupAssumption ==
  /\ NumSlots \in Nat \ {0}
  /\ NumBlocks \in Nat \ {0}
  /\ BakQCap \in Nat \ {0}
  /\ MaxWrites \in Nat
  /\ MaxEvents \in Nat
  /\ Blank \notin Figures
  /\ NoFigure \notin Figures
  /\ NoImage \notin Images

VARIABLES
  \* the portal and its figures
  contents,             \* what each figure's tag holds
  onSlot,               \* the figure on each slot, or NoFigure
  answer,               \* the Query response on its way to snoop
  \* HID host task
  s_snoop,
  s_backed_up,
  s_present_mask,       \* as a set of slots
  \* rx_task
  rxPc,                 \* "idle", "snapshot", "mark" or "deliver"
  frame,                \* the LINK_T_TUN_WRITE frame it got last
  writes,               \* writes the game has made
  \* backup_task
  s_bak_q,
  bakPc,                \* "idle" or "save"
  req,                  \* the image it took last
  nvs,                  \* the blobs of namespace "skybak"
  \* button_task
  rsPc,                 \* "idle", "load" or "write"
  rsSlot,               \* slot of do_restore
  bak,                  \* its static image
  next,                 \* b, the block it writes next
  events,               \* placements and restarts so far
  \* what the properties compare with
  known,                \* blocks of s_snoop copied since they last changed
  expect,               \* what the figure held when the write arrived
  restoreFor,           \* the figure a restore was started for
  exact                 \* nothing has disturbed that restore

tagVars == <<contents, onSlot, answer>>
snoopVars == <<s_snoop, s_backed_up, s_present_mask>>
rxVars == <<rxPc, frame, writes>>
nvsVars == <<s_bak_q, bakPc, req, nvs>>
restoreVars == <<rsPc, rsSlot, bak, next>>
ghostVars == <<known, expect, restoreFor, exact>>

vars == <<tagVars, snoopVars, rxVars, nvsVars, restoreVars, events, ghostVars>>

Answers == [slot : Slots, block : Blocks, value : Values, fresh : BOOLEAN]
WriteFrames == [slot : Slots, block : Blocks, value : Values]
NoAnswer == [slot |-> -1, block |-> 0, value |-> Blank, fresh |-> FALSE]
NoFrame == [slot |-> -1, block |-> 0, value |-> Blank]
BlankImage == [b \in Blocks |-> Blank]

(* One type invariant: every variable is in range.                         *)
TypeOK ==
  /\ contents \in [Figures -> Images]
  /\ onSlot \in [Slots -> Figures \cup {NoFigure}]
  /\ answer \in Answers \cup {NoAnswer}
  /\ answer.block = 0 => answer.value \in Keys
  /\ s_snoop \in [Slots -> Images]
  /\ s_backed_up \in [Slots -> BOOLEAN]
  /\ s_present_mask \subseteq Slots
  /\ rxPc \in {"idle", "snapshot", "mark", "deliver"}
  /\ frame \in WriteFrames \cup {NoFrame}
  /\ rxPc # "idle" => frame # NoFrame
  /\ writes \in 0..MaxWrites
  /\ s_bak_q \in Seq(Images) /\ Len(s_bak_q) <= BakQCap
  /\ bakPc \in {"idle", "save"}
  /\ req \in Images
  /\ nvs \in [Keys -> Images \cup {NoImage}]
  /\ rsPc \in {"idle", "load", "write"}
  /\ rsSlot \in Slots
  /\ bak \in Images
  /\ next \in 1..NumBlocks
  /\ events \in 0..MaxEvents
  /\ known \in [Slots -> SUBSET Blocks]
  /\ expect \in Images \cup {NoImage}
  /\ restoreFor \in Figures \cup {NoFigure}
  /\ exact \in BOOLEAN
-----------------------------------------------------------------------------
Init ==
  /\ contents = [f \in Figures |-> [b \in Blocks |-> f]]
  /\ onSlot = [s \in Slots |-> NoFigure]
  /\ answer = NoAnswer
  /\ s_snoop = [s \in Slots |-> BlankImage]
  /\ s_backed_up = [s \in Slots |-> FALSE]
  /\ s_present_mask = {}
  /\ rxPc = "idle"
  /\ frame = NoFrame
  /\ writes = 0
  /\ s_bak_q = <<>>
  /\ bakPc = "idle"
  /\ req = BlankImage
  /\ nvs = [k \in Keys |-> NoImage]
  /\ rsPc = "idle"
  /\ rsSlot = 0
  /\ bak = BlankImage
  /\ next = 1
  /\ events = 0
  /\ known = [s \in Slots |-> {}]
  /\ expect = NoImage
  /\ restoreFor = NoFigure
  /\ exact = FALSE

-----------------------------------------------------------------------------
(* The portal.  It reads and writes whatever figure stands on the slot;    *)
(* block 0 of a tag is read-only.                                          *)

PlaceFigure(f, s) ==
  /\ events < MaxEvents
  /\ onSlot[s] = NoFigure
  /\ \A t \in Slots : onSlot[t] # f
  /\ events' = events + 1
  /\ onSlot' = [onSlot EXCEPT ![s] = f]
  /\ UNCHANGED <<contents, answer, snoopVars, rxVars, nvsVars, restoreVars,
                 ghostVars>>

RemoveFigure(s) ==
  /\ onSlot[s] # NoFigure
  /\ onSlot' = [onSlot EXCEPT ![s] = NoFigure]
  /\ answer' = IF answer.slot = s THEN [answer EXCEPT !.fresh = FALSE] ELSE answer
  /\ known' = [known EXCEPT ![s] = {}]
  /\ expect' = IF frame.slot = s THEN NoImage ELSE expect
  /\ restoreFor' = IF rsSlot = s THEN NoFigure ELSE restoreFor
  /\ exact' = (exact /\ rsSlot # s)
  /\ UNCHANGED <<contents, snoopVars, rxVars, nvsVars, restoreVars,
                 events>>

\* The console reads a block; the answer waits to be collected over USB.  The
\* error answer for an empty slot is not copied by snoop.
ReadBlock(s, b) ==
  /\ answer = NoAnswer
  /\ onSlot[s] # NoFigure
  /\ answer' = [slot |-> s, block |-> b, value |-> contents[onSlot[s]][b],
                fresh |-> TRUE]
  /\ UNCHANGED <<contents, onSlot, snoopVars, rxVars, nvsVars,
                 restoreVars, events, ghostVars>>

\* A Write command changes the tag, if there is one.
StoreBlock(s, b, v) ==
  IF onSlot[s] = NoFigure \/ b = 0
  THEN UNCHANGED <<contents, answer, known>>
  ELSE /\ contents' = [contents EXCEPT ![onSlot[s]][b] = v]
       /\ answer' = IF answer.slot = s /\ answer.block = b
                    THEN [answer EXCEPT !.fresh = FALSE] ELSE answer
       /\ known' = [known EXCEPT ![s] = @ \ {b}]

-----------------------------------------------------------------------------
(* snoop, in the HID host task. *)

\* A Status report: the slots with bit 0 set, then the flags of the others.
\* No other task can tell the two halves apart: a flag that the second half
\* clears is of a slot the first half has taken out of the mask.
SnoopStatus ==
  /\ s_present_mask' = {s \in Slots : onSlot[s] # NoFigure}
  /\ s_backed_up' = [s \in Slots |-> s_backed_up[s] /\ s \in s_present_mask']
  /\ UNCHANGED <<tagVars, s_snoop, rxVars, nvsVars, restoreVars, events,
                 ghostVars>>

\* A Query response.
SnoopQuery ==
  /\ answer # NoAnswer
  /\ s_snoop' = [s_snoop EXCEPT ![answer.slot][answer.block] = answer.value]
  /\ known' = [known EXCEPT ![answer.slot] =
                 IF answer.fresh THEN @ \cup {answer.block} ELSE @ \ {answer.block}]
  /\ answer' = NoAnswer
  /\ UNCHANGED <<contents, onSlot, s_backed_up, s_present_mask,
                 rxVars, nvsVars, restoreVars, events, expect, restoreFor,
                 exact>>

-----------------------------------------------------------------------------
(* LINK_T_TUN_WRITE, in rx_task. *)

NewFrames ==
  {[slot |-> s, block |-> b, value |-> writes + 1] : s \in Slots, b \in Blocks}

\* What the figure on the slot holds, if s_snoop has all of it.
SnoopedWhole(s) ==
  IF onSlot[s] # NoFigure /\ known[s] = Blocks
  THEN contents[onSlot[s]] ELSE NoImage

\* Does the write have to wait for a snapshot?
NeedsBackup(s) == ~s_backed_up[s] /\ s \in s_present_mask

\* Faulty variant: the write goes to the figure first, the snapshot is taken
\* afterwards.
WriteBeforeSnapshot ==
  /\ rxPc = "idle"
  /\ writes < MaxWrites
  /\ frame' \in NewFrames
  /\ writes' = writes + 1
  /\ StoreBlock(frame'.slot, frame'.block, frame'.value)
  /\ rxPc' = IF NeedsBackup(frame'.slot) THEN "snapshot" ELSE "idle"
  /\ expect' = SnoopedWhole(frame'.slot)
  /\ exact' = (exact /\ rsSlot # frame'.slot)
  /\ UNCHANGED <<onSlot, snoopVars, nvsVars, restoreVars, events,
                 restoreFor>>

\* A new write of the game, or a retransmission of the last one, arrives.
ReceiveWrite ==
  /\ rxPc = "idle"
  /\ \/ /\ writes < MaxWrites
        /\ frame' \in NewFrames
        /\ writes' = writes + 1
     \/ /\ frame # NoFrame
        /\ UNCHANGED <<frame, writes>>
  /\ rxPc' = IF NeedsBackup(frame'.slot) THEN "snapshot" ELSE "deliver"
  /\ expect' = IF NeedsBackup(frame'.slot)
               THEN SnoopedWhole(frame'.slot) ELSE NoImage
  /\ UNCHANGED <<tagVars, snoopVars, nvsVars, restoreVars, events, known,
                 restoreFor, exact>>

\* Faulty variant: the length of s_bak_q is not looked at.
UnboundedBackupQueue ==
  /\ rxPc = "snapshot"
  /\ s_bak_q' = Append(s_bak_q, s_snoop[frame.slot])
  /\ rxPc' = "mark"
  /\ expect' = NoImage
  /\ UNCHANGED <<tagVars, snoopVars, frame, writes, bakPc, req, nvs,
                 restoreVars, events, known, restoreFor, exact>>

\* request_backup: a full s_bak_q loses the image, and nobody is told.
RequestBackup ==
  /\ rxPc = "snapshot"
  /\ s_bak_q' = IF Len(s_bak_q) < BakQCap
                THEN Append(s_bak_q, s_snoop[frame.slot]) ELSE s_bak_q
  /\ rxPc' = "mark"
  /\ expect' = NoImage
  /\ UNCHANGED <<tagVars, snoopVars, frame, writes, bakPc, req, nvs,
                 restoreVars, events, known, restoreFor, exact>>

MarkBackedUp ==
  /\ rxPc = "mark"
  /\ s_backed_up' = [s_backed_up EXCEPT ![frame.slot] = TRUE]
  /\ rxPc' = "deliver"
  /\ UNCHANGED <<tagVars, s_snoop, s_present_mask, frame, writes, nvsVars,
                 restoreVars, events, ghostVars>>

\* tunnel_host_send: carried out by the portal, or failed.
DeliverWrite ==
  /\ rxPc = "deliver"
  /\ rxPc' = "idle"
  /\ \/ /\ StoreBlock(frame.slot, frame.block, frame.value)
        /\ exact' = (exact /\ rsSlot # frame.slot)
     \/ UNCHANGED <<contents, answer, known, exact>>
  /\ UNCHANGED <<onSlot, snoopVars, frame, writes, nvsVars,
                 restoreVars, events, expect, restoreFor>>

-----------------------------------------------------------------------------
(* backup_task. *)

TakeBackup ==
  /\ bakPc = "idle"
  /\ s_bak_q # <<>>
  /\ req' = Head(s_bak_q)
  /\ s_bak_q' = Tail(s_bak_q)
  /\ bakPc' = "save"
  /\ UNCHANGED <<tagVars, snoopVars, rxVars, nvs, restoreVars, events, ghostVars>>

\* Faulty variant: the key is made when the image is committed, from the slot.
KeyFromSlot ==
  /\ bakPc = "save"
  /\ nvs' \in {nvs, [nvs EXCEPT ![s_snoop[0][0]] = req]}
  /\ bakPc' = "idle"
  /\ UNCHANGED <<tagVars, snoopVars, rxVars, s_bak_q, req, restoreVars, events,
                 ghostVars>>

\* NVS may be full, or fail to open: only the log says "saved" then.
SaveBackup ==
  /\ bakPc = "save"
  /\ nvs' \in {nvs, [nvs EXCEPT ![req[0]] = req]}
  /\ bakPc' = "idle"
  /\ UNCHANGED <<tagVars, snoopVars, rxVars, s_bak_q, req, restoreVars, events,
                 ghostVars>>

-----------------------------------------------------------------------------
(* do_restore, in button_task. *)

\* The first slot the last Status report had a figure on.
PressButton ==
  /\ rsPc = "idle"
  /\ rsSlot' \in s_present_mask
  /\ \A t \in s_present_mask : rsSlot' <= t
  /\ rsPc' = "load"
  /\ UNCHANGED <<tagVars, snoopVars, rxVars, nvsVars, bak, next, events,
                 ghostVars>>

\* Faulty variant: a missing blob is not noticed.
StaleImage ==
  /\ rsPc = "load"
  /\ LET blob == nvs[s_snoop[rsSlot][0]] IN
       bak' = IF blob # NoImage THEN blob ELSE bak
  /\ rsPc' = "write"
  /\ restoreFor' = IF 0 \in known[rsSlot] THEN onSlot[rsSlot] ELSE NoFigure
  /\ exact' = (0 \in known[rsSlot])
  /\ UNCHANGED <<tagVars, snoopVars, rxVars, nvsVars, rsSlot, next, events,
                 known, expect>>

\* The blob under the UID that was read last on that slot, unless there is
\* none or NVS does not give it out.
LoadBackup ==
  /\ rsPc = "load"
  /\ LET blob == nvs[s_snoop[rsSlot][0]] IN
       \/ /\ blob # NoImage
          /\ bak' = blob
          /\ rsPc' = "write"
          /\ restoreFor' = IF 0 \in known[rsSlot] THEN onSlot[rsSlot] ELSE NoFigure
          /\ exact' = (0 \in known[rsSlot])
       \/ /\ rsPc' = "idle"
          /\ UNCHANGED <<bak, restoreFor, exact>>
  /\ UNCHANGED <<tagVars, snoopVars, rxVars, nvsVars, rsSlot, next, events,
                 known, expect>>

\* Faulty variant: the image is read one block too early.
ShiftedBlock ==
  /\ rsPc = "write"
  /\ next < NumBlocks
  /\ next' = next + 1
  /\ StoreBlock(rsSlot, next, bak[next - 1])
  /\ UNCHANGED <<onSlot, snoopVars, rxVars, nvsVars, rsPc, rsSlot,
                 bak, events, restoreFor, exact, expect>>

\* One turn of the loop over blocks 1..63.
RestoreBlock ==
  /\ rsPc = "write"
  /\ next < NumBlocks
  /\ next' = next + 1
  /\ \/ /\ StoreBlock(rsSlot, next, bak[next])
        /\ expect' = IF frame.slot = rsSlot THEN NoImage ELSE expect
        /\ UNCHANGED exact
     \/ /\ exact' = FALSE
        /\ UNCHANGED <<contents, answer, known, expect>>
  /\ UNCHANGED <<onSlot, snoopVars, rxVars, nvsVars, rsPc, rsSlot,
                 bak, events, restoreFor>>

EndRestore ==
  /\ rsPc = "write"
  /\ next = NumBlocks
  /\ rsPc' = "idle"
  /\ next' = 1
  /\ restoreFor' = NoFigure
  /\ exact' = FALSE
  /\ UNCHANGED <<tagVars, snoopVars, rxVars, nvsVars, rsSlot, bak, events,
                 known, expect>>

-----------------------------------------------------------------------------
(* Power loss or reset: the tags and NVS stay, except that link_init erases *)
(* an NVS it cannot mount.                                                 *)
Reboot ==
  /\ events < MaxEvents
  /\ events' = events + 1
  /\ answer' = NoAnswer
  /\ s_snoop' = [s \in Slots |-> BlankImage]
  /\ s_backed_up' = [s \in Slots |-> FALSE]
  /\ s_present_mask' = {}
  /\ rxPc' = "idle"
  /\ s_bak_q' = <<>>
  /\ bakPc' = "idle"
  /\ req' = BlankImage
  /\ nvs' \in {nvs, [k \in Keys |-> NoImage]}
  /\ rsPc' = "idle"
  /\ rsSlot' = 0
  /\ bak' = BlankImage
  /\ next' = 1
  /\ known' = [s \in Slots |-> {}]
  /\ expect' = NoImage
  /\ restoreFor' = NoFigure
  /\ exact' = FALSE
  /\ UNCHANGED <<contents, onSlot, frame, writes>>

-----------------------------------------------------------------------------
Portal ==
  \/ \E f \in Figures, s \in Slots : PlaceFigure(f, s)
  \/ \E s \in Slots : RemoveFigure(s)
  \/ \E s \in Slots, b \in Blocks : ReadBlock(s, b)

Snoop == SnoopStatus \/ SnoopQuery

RxTask == ReceiveWrite \/ RequestBackup \/ MarkBackedUp \/ DeliverWrite

BackupTask == TakeBackup \/ SaveBackup

ButtonTask == PressButton \/ LoadBackup \/ RestoreBlock \/ EndRestore

Next == Portal \/ Snoop \/ RxTask \/ BackupTask \/ ButtonTask \/ Reboot

Spec == Init /\ [][Next]_vars

-----------------------------------------------------------------------------
(* Properties. *)

(* An image is filed under the UID it contains, whatever was put on the     *)
(* slot between the snapshot and the commit (main.c:82-84).                 *)
FiledUnderOwnUid ==
  \A k \in Keys : nvs[k] # NoImage => nvs[k][0] = k

(* When the console has read the whole figure, the image request_backup     *)
(* copies is what the figure held when the write arrived: nothing of the    *)
(* write itself, read back while rx_task is at work, gets into it           *)
(* (main.c:131-135).                                                       *)
SnapshotIsPreWrite ==
  rxPc = "snapshot" /\ expect # NoImage => s_snoop[frame.slot] = expect

(* A restore of a figure whose UID the console has read since it was placed, *)
(* and that stays where it is, uses the image of that figure and no other   *)
(* (main.c:153-158).                                                       *)
RestoreOwnImage == restoreFor # NoFigure => bak[0] = restoreFor

(* If moreover every transfer succeeds and the game does not write, the     *)
(* figure holds the image again, block by block: once the loop has ended,   *)
(* all of it (main.c:161-166).                                             *)
RestoreIsExact ==
  exact => \A b \in 0..(next - 1) : contents[restoreFor][b] = bak[b]

-----------------------------------------------------------------------------
(* What the documentation says and the code does not do; see README.md.     *)

(* The images request_backup has taken and backup_task has not committed.   *)
Uncommitted ==
  {s_bak_q[i] : i \in 1..Len(s_bak_q)} \cup (IF bakPc = "save" THEN {req} ELSE {})

(* A figure whose whole image was taken has it in NVS before a write        *)
(* reaches it (README.md:52-53): the image does not wait while the figure   *)
(* holds the write already (main.c:132-135).                               *)
BackupBeforeWrite ==
  \A f \in Figures :
    /\ [b \in Blocks |-> f] \in Uncommitted
    /\ \E b \in Blocks : contents[f][b] \in 1..MaxWrites
    => nvs[f] # NoImage

(* The button restores the figure on the portal (README.md:53-54): while    *)
(* the image of a figure is being written, no other figure gets its blocks  *)
(* (main.c:153-165).                                                       *)
NoForeignBlock ==
  rsPc = "write" /\ bak[0] \in Figures =>
    \A f \in Figures \ {bak[0]} : \A b \in Blocks : contents[f][b] # bak[0]

=============================================================================
