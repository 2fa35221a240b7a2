# Verification of the wireless Portal of Power bridge

Two ESP32-S3 boards carry the USB traffic between a game console and a real
Skylanders Portal of Power over ESP-NOW. The *console side* (T-Dongle) is a USB
device that pretends to be a portal; the *portal side* (N16R8) is the USB host
of the real one. This directory holds TLA+ models of that firmware, TLC runs on
small instances and TLAPS proofs. Paths below are relative to the repository's
`src/`; `PROJECT.json` maps every definition to the lines it stands for.

    tlc -workers 2 -config write_safety.cfg MCReliableWrite
    tlapm ReliableWriteProofs.tla

## 1. Inventory

| Component | Where | State | Operations |
|---|---|---|---|
| Reliable writes | `console-side/src/main.c` (write branch of `tud_hid_set_report_cb`, `write_task`, ACK branch of `on_link_recv`), `portal-side/src/main.c` (`on_link_recv`) | `s_write_q`, `seq`, `s_acked_seq`, `s_ack_sem`, both `s_rx_q` | accept, number, send up to 6 times, wait 100 ms, compare, handle, acknowledge |
| Reports to the game | `console-side/src/main.c` (`push_in`, `on_link_recv`, `tx_task`, mount and HID callbacks) | `s_in_q`, `s_console_active`, learned answers | push with drop-oldest, gate, answer locally, swallow, send with 3 attempts, reset |
| Pre-write backup and restore | `portal-side/src/main.c` | `s_snoop`, `s_backed_up`, `s_present_mask`, `s_bak_q`, NVS | snoop, snapshot, commit, restore |
| Link discovery | `*/src/esp_now_link.c` (two identical copies) | `s_linked`, `s_peer`, `s_last_rx_ms` | HELLO, pair, lose the peer |
| USB host tunnel | `portal-side/src/tunnel_host.c`, C text inside `shared/patch_components.py` | `s_dev`, `s_connected`, `out_xfer`, `out_busy` | connect, disconnect, SET_REPORT, interrupt OUT |
| Portal protocol | `shared/sky_protocol.h` | none | builders, parsers, CRC |
| Status display | `console-side/src/main.c` (`dlog`, `snoop_in`, `display_task`), `display.c`, `esp_lcd_st7735.c` | log ring, counters, `s_panel`, the controller's registers | set the panel up, log, read the state, draw |
| Link protocol | `shared/link_protocol.h` | none | headers and frame layouts; half of it (v1 messages) is unused |
| Component patcher | `shared/patch_components.py` | fetched source files | find, skip or replace, at every configuration |
| LED, USB descriptors | `portal-side/src/led.c`, `console-side/src/usb_descriptors.c` | none | output only |
| `shared/esp_now_link.c` | | | an older variant, compiled by neither board |

**Interaction.** TinyUSB's task on the console side puts writes on `s_write_q`,
forwards every other command at once (`link_send`, unacknowledged) and pushes
the local answers to Ready and Activate on `s_in_q`. `write_task` sends each
write and waits for its ACK. On both boards `recv_cb`, in the Wi-Fi task, does
the link's bookkeeping and puts the frame on `s_rx_q`; `rx_task` runs the
board's `on_link_recv` on it. On the portal side that handler asks for a
backup, calls the USB host synchronously and sends the ACK; the HID driver's
task snoops every report of the portal and sends it to the console side, whose
`rx_task` pushes it on `s_in_q`. `tx_task` takes it from there to the game.

**What is hard.** Nine tasks and callbacks on two dual-core boards share
variables with no lock at all; every queue is bounded and drops silently; the
radio loses frames in both directions; boards, the portal, the console and the
figures come and go at any moment; retries overlap late answers; and the
backup exists to survive exactly such moments. `PROJECT.json` lists each such
hazard at its line (`hazards`), with the property that covers it or the reason
why none does.

**What makes the components correct**: a write is never taken back by an older
one, is acknowledged only if handled, and always gets one verdict; the game
sees reports in order and each command answered at most once, as it asked; an
image is filed under and restored to the figure it belongs to, and is that
figure before the write; the boards find each other again; the audio path does
not wedge, and audio is not obeyed as a command; the screen comes to say what is
the case. Sections 4 and 5 say how much of that the code keeps, and under what
conditions.

## 2. Plan

| Step | Module | State |
|---|---|---|
| A | `WriteChannel` (abstract), `ReliableWrite`, proofs | done |
| B | `FigureBackup`, proofs | done |
| C | `ConsoleReports`, proofs | done |
| D | `LinkDiscovery`, proofs | done |
| E | `TunnelHost`, `PatchComponents`, composed by `AudioPath`, proofs | done |
| F | `Panel`, `SkyProtocol`, composed by `StatusDisplay`, proofs | done |
| G | composition of A and B: what an acknowledged write means for the figure and for its backup | to do |

A and B come first because they protect the figure, which is the one thing the
firmware can destroy. Each component has its module, an `MC` module that gives
it its bounds, and, where there are proofs, a `Proofs` module. No module uses a
recursive operator.

## 3. The models

### A. ReliableWrite, an implementation of WriteChannel

`WriteChannel` is what the write path promises: writes are accepted in order,
each is handled zero or more times, never after a newer one has been, each ends
acknowledged or given up in order, and acknowledged only if it has been handled.
`AfterRestart` is what it no longer promises once `trusted` is lost: after a
restart of the console side an acknowledgement says nothing.

`ReliableWrite` has one action per step of the code between two points where
another task can interfere: `ConsoleWrite` (the non-blocking send to
`s_write_q`), `TakeWrite` (dequeue and `seq++`), `SendWrite` (empty the
semaphore, send), `AckWakes`/`AckTimeout` (the end of the 100 ms wait),
`CheckAck` (the comparison with `s_acked_seq`, a step of its own because
`rx_task` may store another number in between), `ReceiveAck` and `GiveAckSem`
(the two stores of `on_link_recv`), `PortalReceive`, `PortalDeliver`,
`PortalAck` (the portal's `rx_task`), and restarts of either board. Each
direction of the radio is one queue, the receiver's `s_rx_q`: a send appends the
frame, drops the oldest when the queue is full (`DropOldestPush`) or has no
effect (`AfterSend`). Frames pushed out by audio traffic are among the lost
ones. The contents of a write are its rank. `Channel` is the `INSTANCE` of
`WriteChannel` that maps `trusted` to "the console side has not restarted".

### B. FigureBackup

The tasks that share `s_snoop` are interleaved between their accesses: the HID
task (`SnoopStatus`, `SnoopQuery`), `rx_task` (`ReceiveWrite`,
`RequestBackup`, `MarkBackedUp`, `DeliverWrite`), `backup_task` (`TakeBackup`,
`SaveBackup`) and `button_task` (`PressButton`, `LoadBackup`, one
`RestoreBlock` per turn of the loop, `EndRestore`). People place and remove
figures between any two steps; a Query answer may be in flight when the figure
it is about is exchanged or written. A block's content is its origin: a figure,
a write of the game, or zeros. `known` and `expect` record what the console has
really read, so that the properties can speak of a figure "read whole".

Three things are one step although the code takes several: the copy of a block,
so that tearing inside 16 bytes is left out; the copy of the 1024-byte image in
`RequestBackup`, during which `snoop` may overwrite single blocks
(`SnapshotIsPreWrite` does not lean on it: it holds in every state in which the
copy may be going on, so that each block copied is the one it asks for); and
`uid_key`, `nvs_open` and `nvs_get_blob` in `LoadBackup`, any of which may fail.

### C. ConsoleReports

`push_in` is three steps (`QueueItem`, `DropOldest`, `QueueAgain`) for each of
its two callers. `Mount` and `Umount` close the gate, `ResetQueue` is their
second statement; `BusReset` is the case in which TinyUSB calls neither.
`ReceiveCommand` is `tud_hid_set_report_cb` up to the gate (an Activate without
its second byte leaves gate and stored answer as they are), `AnswerCommand` its
rest. `ReceiveReport` tests the gate and leaves the push to later steps, as the
code does. `LearnEcho` is learn-and-swallow; of the learned answers the on/off
byte of Activate is kept (`s_act_resp`), which `rx_task` stores and TinyUSB's
task overwrites and reads in two steps. What a portal answers to an Activate without
that byte is left open (`EchoBytes`). `tx_task` waits, sends, retries and
drops (`SendItem`, `RetryItem`, `DropItem`). Reports carry their rank and the
connection of the console during which they were let through.

### D. LinkDiscovery

`link_task` is three steps (`CheckPeer`, `PeerLost`, `SendHello`) since
`recv_cb` may run between the test of `s_last_rx_ms` and the store to
`s_linked`; `recv_cb` is `Hear`, `SetPeer`, `SetLinked`. `s_last_rx_ms` is the
number of ticks since it was set, up to `LostAfter + 1`. Boards go on and off
without bound. A neighbour sends HELLOs whenever it is on.

### E. TunnelHost, PatchComponents, AudioPath

The HID driver's callbacks run one at a time; `rx_task` runs
`hid_host_device_output_report` in three steps (lookup and busy test, fill and
set `out_busy`, submit) between them. A transfer is at home, on the bus, or back
with its callback still to come; that the USB host library returns it, at the
latest when its portal is gone and before the driver calls `iface_cb`, is an
assumption about that library. Handles are used again for later portals.

That function, and the tag by which the console side tells audio from commands,
exist only after `patch_components.py` has put them into fetched components.
`PatchComponents` is that script, one patch a step (`SkipPatch`,
`AnchorMissing`, `ApplyPatch`), at every configuration of either project
(`Configure`), with components fetched again in a version that may lack an
anchor or have its files elsewhere (`Fetch`), or left alone. Without a Python
CMake skips it, and it skips a file it does not find; both in silence, which
`missed` remembers. It may die of a failed write (`ScriptDies`; CMake drops the
result) or be killed (`Killed`), either with the file left empty. Of a text
only anchors and replacements are kept, and that the sender's replacement
contains the marker of the fields' one. `AudioPath` flashes what the builds give
and then lets the game send audio: tagged, it takes the way of `TunnelHost`;
not tagged, it is handed to the portal as a command.

### F. Panel, SkyProtocol, StatusDisplay

`Panel` is `display_init` on `esp_lcd_st7735.c`: one action per call of the
panel driver, one step per command of its init call. Any command may be lost;
the call it belongs to ends, and the next one is made (`Lose`). The controller
is its registers; the thirteen commands of `vendor_specific_init_default` that
no property tells apart are two of kind "other". `Window` is what
`panel_st7735_draw_bitmap` sends. `screen` is what the controller's memory holds
of each row: noise if it was drawn with other registers than the set-up intends
(`Oriented`). `Shown` is what there is to see: noise, too, while the panel sleeps,
is off or has no backlight.

`SkyProtocol` has the reports as bytes, with the parsers of `sky_protocol.h`,
which `snoop_in` spells out in place. `StatusDisplay` sets the panel up, starts
the tasks and has `display_task` in steps wherever it touches what others write:
reading the state, each line it logs, the status rows (its own variables but for
`s_writes`), each log row. `dlog` is four steps for each of its two writers:
the address of the line, the text, the head the new one is made from (the one it
has or one read again: a compiler may do either), the store. A row of text is a
value; a row drawn while `write_task` writes it, or with a letter lost, is noise.

## 4. The runs

| Run | Module | Checks | Shows |
|---|---|---|---|
| `write_safety` | A | `TypeOK`, `AckedWasHandled`, `OneOutcome`, `NoSilentGap`, `WriteOrder`, `ChannelSafety`, `ChannelLiveness` | a late or foreign ACK is never taken for a write's own; no write has two verdicts or none, and none that got lost is passed over in silence. Restarts of the portal side change none of that; after one of the console side it is only sure that no write has two verdicts and that no older one comes after a newer one. The code implements `WriteChannel`, which says the same, including that every accepted write ends |
| `write_console_reboot_ack` | A | `AckNamesItsWrite` violated | see findings |
| `write_ack_delivered` | A | `AckSaysDelivered` violated | see findings |
| `backup_safety` | B | `TypeOK`, `FiledUnderOwnUid`, `SnapshotIsPreWrite`, `RestoreOwnImage`, `RestoreIsExact` | two figures taking turns on a slot, or one and a restart with NVS kept or erased: images are filed and restored by UID, the snapshot of a figure read whole is the figure before the write, and a restore that nothing disturbs is exact |
| `backup_late` | B | `BackupBeforeWrite` violated | see findings |
| `restore_wrong_figure` | B | `NoForeignBlock` violated | see findings |
| `reports` | C | `TypeOK`, `AnsweredOnce`, `OnlyRacesLose`, `OneStaleToTake`, `GateHolds`, `ReportsInOrder`, `TxGoesOn` | the queue to the game under two producers, reconnections and a game that polls when it likes: order, at most one answer to a command, what a reset of the queue leaves over, and that `tx_task` goes on |
| `reports_stale` | C | `QuietUntilActivated` violated | see findings |
| `reports_echo` | C | `EchoRequested` violated | see findings |
| `link` | D | `TypeOK`, `LinkedToOtherRole`, `LinkHeals`, `LinkDrops` | pairing, healing, and dropping back to discovery |
| `host` | E | `PathTypeOK`, `DeviceIsKnown`, `BufferIntact`, `RerunChangesNothing`, `AudioNotObeyed`, `AudioGoesOn` | builds interrupted anywhere, then plugging, failing driver calls and the OUT transfer: later runs of the script leave a file it has been through alone, and audio is taken for a command only by firmware whose configuration complained, had no Python or did not find the file. `README.md:42-45` says "never mis-parsed" without these conditions |
| `display` | F | `TypeOK`, `DrawsInRam`, `SetUp`, `LogInOrder`, `ReportsUnderstood`, `ScreenCatchesUp`, `LogCatchesUp` | which lost commands spoil the picture for good and which do not; the log with and without the race of its writers; the log says what is the case in the end, and so does the screen of a panel that lost no command of its init or mirror call |

**Bounds.** Queues of one or two places instead of 16, 32, 48 and 4 make "full"
one or two steps away and leave nothing out that a longer queue could do: the
code tells only "room" from "no room". Two or three attempts instead of six
have a first, a middle and a last one. Three writes give an older, a current
and a newer one, and the proofs cover any number. Two blocks instead of 64 are
the UID block, which is treated specially, and one that is not; one slot
suffices for the races, which are all within a slot, and the proofs cover any
number of slots. Two figures are the one backed up and the one that takes its
place; the two events of `backup_safety` are to place both, one of them twice,
or one with a restart before or after it. Two connections of the console are
the one a report was let through in and the next. In `link` and `host` nothing is counted. Three events in `display`
are enough to lose both commands that set the orientation, or to have a write
end between two changes, with the log of two lines wrapped around; each
LCD command, report and change has been lost, sent or made at every step. `SeqMod` is one more
than the writes of a run: `ReliableWriteAssumption` excludes the wrap-around of
`seq`, which takes 65536 writes while one frame stays queued. `reports`,
`reports_stale` and `reports_echo` turn the deadlock check off because there the
bounded inputs run out.

**Fairness.** `write_safety`: weak fairness of `write_task`, a ready FreeRTOS
task of high priority whose wait is bounded; nothing is assumed of the radio,
the portal side or the game. `reports`: weak fairness of `tx_task` alone.
`link`: weak fairness of time, `link_task` and `recv_cb`, and strong fairness of
a HELLO being heard: a frame sent again and again gets through some time.
`host`: weak fairness of the driver's task, of a call in progress, and of the USB
host library giving a transfer back; nothing of builds or of the game.
`display`: weak fairness of `app_main`, `display_task` and of a `dlog` that
`write_task` has begun.

## 5. Findings

Each is a property the documentation states and a run refutes.

- `write_console_reboot_ack`: `write_task` numbers from 1 again after a restart
  and the portal side answers with the number alone, so an ACK of the previous
  boot that is still queued acknowledges a write the portal side never saw.
- `write_ack_delivered`: the portal side sends `LINK_OK` without looking at
  the result of `tunnel_host_send`, also with no portal plugged in.
- `backup_late`: a figure that has been read whole gets the first write while its
  image still waits in `s_bak_q`; NVS has nothing of it then. (That a full
  queue, an NVS that fails or a power cut then loses the image is in the model
  as well, but it is not what the run shows.)
- `restore_wrong_figure`: the restore takes its key from the UID last *read* on
  the slot, not from the figure on it. In the run a figure is backed up, another
  one takes its place without being read, the button is pressed, and the second
  one gets a block of the first.
- `reports_stale`: a Status report that is between the gate and the queue, or
  in `tx_task`'s hands, when the console connects reaches a console that has
  not switched the portal on.
- `reports_echo`: between the store of the requested on/off byte into
  `s_act_resp` and the copy of it to the queue, `rx_task` may put the portal's
  answer to an earlier Activate over it: an Activate-off is answered with "on".

Two more, about the link, are listed under `hazards` only: any frame of any
board keeps a dead link alive (`esp_now_link.c:52`), and a HELLO of a second
board replaces the peer at any time (`esp_now_link.c:60`), so that with a
neighbour on the air `LinkHeals` would not hold.

## 6. The proofs

Every invariant and every action property that a passing run checks is also a
theorem. The theorems hold for every value of the constants that satisfies the
named assumption of the module: capacities and bounds are naturals, the first
ones positive; `Blank`, `NoFigure`, `NoImage` are not figures; neighbours are
other boards, `NoBoard` is none, `NULL` is no handle; the screen has five rows of
status and the log below them. `ReportsAssumption` says of the portal what the parsers' comments
say: a report is a Status report of some figures, a Query answer about block 1,
or one that tells of neither.

`ReliableWriteProofs`
- `Typing`: `TypeOK`. The lemma `SendFacts` says what a send may do to a queue.
- `Order`, `NeverGoesBack`: `WriteOrder` is not inductive. `OrderInv` orders all
  writes in existence by age: the last one handled, then the one the worker
  has, then the frames in `toPortal` from front to back, then `cur`, then
  `s_write_q`. Dropping any frame keeps that order.
- `NoFalseAck`: `AckedWasHandled`. `AckInv` says that, before the console side
  restarts, the number of a write is its rank modulo `SeqMod`
  (`NumbersAreWrites`) and that every number on its way back - in `toConsole`,
  in `s_acked_seq`, with the worker about to acknowledge - belongs to a write
  that has been handled (`AcksAreHandled`). `MaxWrites < SeqMod` then makes the
  number name the write.
- `ImplementsChannel`: every step maps to a step of `WriteChannel` or stutters.
  A restart of the console side maps to the loss of `trusted`, and
  `StepAfterRestart` shows that the steps after it keep what is still promised.
- `NothingSkipped`: `NoSilentGap`, from `LastHandledGrows` and the outcomes.
- `OutcomesAreExclusive`: `OneOutcome`, from `OutcomeInv`, which locates `cur`
  between the writes with a verdict and those without.

`FigureBackupProofs`
- `Typing`; `Filed`: `FiledUnderOwnUid` is inductive with `TypeOK`.
- `Snapshot`: `TruthInv` says that a figure stands on one slot only, its UID
  never changes, every block recorded as read (`known`) is in `s_snoop` as it is
  on the tag, and a Query answer that is still fresh is true. `ExpectIsTrue`
  carries that over the three steps between `ReceiveWrite` and the copy.
- `OwnImage`, `Exact`: `RestoreIsTrue` ties the image in use to the figure on
  the slot while the restore runs; `RestoreInvariant` is the conjunction.

`ConsoleReportsProofs`
- `InOrder`, `OneAnswer`: `ReportsInOrder` and `AnsweredOnce` have one argument,
  which is stated once and used for both. `Line` puts the items of some kinds in
  the order of their way: endpoint, `tx_task`, `s_in_q` from front to back, the
  caller of `push_in`. Along it they get younger, all are younger than what the
  game has had, and none is younger than the last one made. The lemmas of the
  second section say what each move of an item does to a line: it goes on to the
  next place, or it is dropped. `LineInv` is the line of the portal's reports
  and that of the local answers.
- `Gate`: `GateInv` says of every item, wherever it is, that if it was let
  through in this connection the console has switched the portal on.
- `OneStale`, `OnlyRaces`: inductive with the invariants above; `StaleInv` adds
  that TinyUSB's task, which makes the connections, never holds an old item.
  `OneStaleToTake` is about what `tx_task` has yet to take; an old report that it
  or the endpoint holds already comes on top.

`LinkDiscoveryProofs`
- `OtherRoles`: `LinkedToOtherRole` alone is not inductive: `recv_cb` sets
  `s_linked` two steps after it has looked at the role. `PairingInv` says what it
  has established at each of its steps.

`AudioPathProofs`
- `PathSteps`: a step of the whole is one of the host or leaves it alone, and so
  for the patcher; the two invariants are then proved apart.
- `Known`, `Intact`: `DeviceInv` gives `s_dev` at each step of the driver's
  callback, and needs that a device about to be started or published has been
  opened. `OutInv`: a transfer that is not at home is marked busy and is that of
  the portal plugged in; `rx_task` only works on one that is at home.
- `Rerun`: `SettledInv` says that a project the script has been through
  has nothing left to write, patch by patch while it runs; it needs that no patch
  is in a file twice (`AppliedOnce`).
- `NotObeyed`: `TagInv` leads from a build after a script that has gone over the
  file and printed nothing to the tag. Of a build without Python, or with the
  file elsewhere, it says nothing, because nothing holds.
- `BusyIsCleared`: what `AudioGoesOn` has of a safety property. Whenever
  `out_busy` is set, the transfer is under way or `rx_task` is about to submit it,
  so that whoever clears the mark has yet to run.

`PanelProofs` and `StatusDisplayProofs`
- `InRam`, `ScreenSetUp`: `PanelInv` says after each call of `display_init`
  (`returned`) what the driver's copy of the registers is, lost commands or not,
  and what of the controller is certain if a call has lost none; `InitInv` does
  so within the init call, whose fourth command resets the controller.
  `PanelProofs` has the lemmas about the calls. They are used for every
  specification that has a panel, of which `StatusDisplay` is the one.
- `RingOrder`: `RingInv` says that without a race the task in `dlog` is alone,
  that the oldest line is at the head until it has put its own there, and that
  from then on the youngest is, until the head follows. `RingShift` and `RingOther` are
  the arithmetic of the ring, for any length.
- `MaskIsFigures`, `Understood`: the bits `snoop_in` counts are the figures on
  the portal for every state byte of four slots, hence for all sixteen.
- `DisplayTyping`: with the lines that are ever logged (`LogTexts`), since
  `LogInOrder` and `said` depend on what the lines are.
- `FrameLogged`: what `LogCatchesUp` has of a safety property. While a frame is
  drawn, the last lines about the four topics say what its status rows show. `LoggedInv`
  says of every step that the line being written, or else the last one, agrees
  with `p`; write_task, which may be in `dlog` at the same time, has nothing to
  say about these topics.

TLC has checked the strengthened invariants on the bounds of the runs before they
were proved, with the sets they quantify over cut down to what the run uses.

Only model-checked: the liveness properties (`ChannelLiveness`,
`TxGoesOn`, `LinkHeals`, `LinkDrops`, `AudioGoesOn`, `ScreenCatchesUp`,
`LogCatchesUp`), since fairness is beyond the prover, and the refutations, which
are counterexamples and need no proof.

## 7. Not modelled

- The LED (three colours of what `link_is_linked` and `tunnel_host_connected`
  say), the USB descriptors (constants), the unused copy of the transport, the
  v1 messages of `link_protocol.h` that no code sends, `sky_crc16` and the command
  builders, of which only `sky_build_write` is called (by the restore, where
  `FigureBackup` has it).
- Of the display: letters and colours, signal strength, the audio counter, the
  mark of a recent write. Delays: the comments of the init table promise 150 ms
  after SWRESET and 500 ms after SLPOUT where its delay field says 0
  (`esp_lcd_st7735.c:171`). The letter buffer that `display_char` leaves to the
  SPI driver: whether it is still in use depends on ESP-IDF.
- `seq` wrapping around while a frame of its first use is queued
  (`console-side/src/main.c:146`): 65536 writes within one queue's latency.
- A Status report that misses a figure for an instant allows a second backup, of
  the figure as already written (`portal-side/src/main.c:103`): the code means
  it to, `FigureBackup` has the behaviour, no document speaks against it.
- `link_send` reading `s_peer` while `recv_cb` changes it
  (`esp_now_link.c:143`): the frame goes to nobody and counts as lost.
- The bytes of the learned Ready answer, data races inside one `memcpy`, torn
  64-bit time stamps.

What TinyUSB, the HID host driver, ESP-NOW, the LCD controller and the Portal of
Power do is modelled from how this code uses them; those definitions are marked
external.
