--------------------------- MODULE AudioPathProofs ---------------------------
(***************************************************************************)
(* Proofs about AudioPath and the two parts it is composed of, TunnelHost  *)
(* and PatchComponents: for every set of handles and any number of builds. *)
(***************************************************************************)
EXTENDS AudioPath, TLAPS

(***************************************************************************)
(* The inductive invariants of the USB host.                               *)
(***************************************************************************)

\* What the driver's task has done to s_dev wherever it is, of which
\* DeviceIsKnown says only what holds between its callbacks.
Forgotten == s_dev = NULL /\ ~s_connected
DeviceInv ==
  /\ hostPc = "idle" =>
       /\ listed = NULL => Forgotten
       /\ listed # NULL /\ failed => Forgotten
       /\ listed # NULL /\ ~failed => s_dev = listed /\ s_connected /\ opened
  /\ hostPc # "idle" => listed # NULL /\ Forgotten
  /\ hostPc \in {"open", "start", "publish"} => ~failed
  /\ hostPc \in {"start", "publish"} => opened

\* A transfer that is not at home is marked busy and belongs to the portal that
\* is listed; rx_task only holds a transfer that is at home, and has marked it
\* before it submits it.  None leaves for a portal that is being closed.
OutInv ==
  /\ \A h \in Handles : transfer[h] # "home" => out_busy[h] /\ h = listed
  /\ rxPc \in {"fill", "submit"} =>
       rxDev \in Handles /\ out_xfer[rxDev] /\ transfer[rxDev] = "home"
  /\ rxPc = "submit" /\ rxDev = listed => out_busy[rxDev]
  /\ hostPc = "close" => ~plugged /\ transfer[listed] = "home"

(***************************************************************************)
(* The inductive invariants of the component patcher.                      *)
(***************************************************************************)

\* No replacement is made twice.
AppliedOnce == \A p \in Patches : applied[p] <= 1

\* The script has nothing to write for a patch.
Done(p) ==
  HasMarker(p) \/ p \notin anchors \/ files[FileOf[p]] = "elsewhere"

\* For a project it has been through it has nothing left to write, nor for the
\* patches before the one it is at.
SettledInv ==
  /\ \A b \in settled : \A p \in Needed[b] : Done(p)
  /\ running => \A i \in 1..(script - 1) :
                  PATCHES[i] \in Needed[project] => Done(PATCHES[i])

\* A run that has ended without complaint, and has missed nothing, has put the
\* tag in.
TagIsIn ==
  script = 5 /\ ~loud /\ ~missed /\ project = "console" => applied["tag"] = 1

\* So a build that went quietly has it, and audio is only taken for a command by
\* a board without it.
TagInv ==
  /\ TagIsIn
  /\ firmware["console"][1] = "quiet" => firmware["console"][2]
  /\ misparsed => inUse /\ ~firmware["console"][2]

-----------------------------------------------------------------------------
(***************************************************************************)
(* How the two parts take steps.                                           *)
(***************************************************************************)

\* The invariant of each part.
HostInv == TypeOK /\ DeviceInv /\ OutInv
PatchInv == PatchTypeOK /\ AppliedOnce /\ SettledInv

(* A step of the whole is a step of the host or leaves it alone, and a step *)
(* of the patcher or leaves that alone.                                    *)
LEMMA PathSteps ==
  ASSUME [PathNext]_pathVars
  PROVE  [Next]_vars /\ [PatchNext]_patchVars
  <1>1. CASE Build
    BY <1>1 DEF Build
  <1>2. CASE AudioReport
    BY <1>2 DEF AudioReport, Next, RxTask
  <1>3. CASE PortalSide
    BY <1>3 DEF PortalSide, Next, RxTask, SendOut
  <1>4. CASE UNCHANGED pathVars
    BY <1>4 DEF pathVars
  <1> QED
    BY <1>1, <1>2, <1>3, <1>4 DEF PathNext

-----------------------------------------------------------------------------
(***************************************************************************)
(* The USB host.                                                           *)
(***************************************************************************)

(* At the start no portal is plugged in and nothing is in use.              *)
LEMMA InitHost == Init => HostInv
  BY TunnelHostAssumption
  DEF Init, HostInv, TypeOK, DeviceInv, Forgotten, OutInv

(* Every step of the host keeps its types: the one that needs OutInv is     *)
(* that nothing is marked or submitted that is not allocated.              *)
LEMMA NextHostTypes == TypeOK /\ OutInv /\ [Next]_vars => TypeOK'
  <1> SUFFICES ASSUME TypeOK, OutInv, [Next]_vars PROVE TypeOK'
    OBVIOUS
  <1> USE DEF hostVars, driverVars, outVars, rxVars
  <1>1. CASE Plug
    <2>1. PICK h \in Handles \ {rxDev} :
            /\ listed' = h
            /\ out_xfer' = [out_xfer EXCEPT ![h] = FALSE]
            /\ out_busy' = [out_busy EXCEPT ![h] = FALSE]
      BY <1>1 DEF Plug
    <2>2. transfer[h] = "home"
      BY <1>1, TunnelHostAssumption DEF Plug, OutInv
    <2>3. \A g \in Handles : ~out_xfer'[g] => ~out_busy'[g] /\ transfer'[g] = "home"
      BY <1>1, <2>1, <2>2 DEF Plug, TypeOK
    <2>4. /\ out_xfer' \in [Handles -> BOOLEAN]
          /\ out_busy' \in [Handles -> BOOLEAN]
      BY <2>1 DEF TypeOK
    <2> QED
      BY <1>1, <2>1, <2>3, <2>4 DEF Plug, TypeOK
  <1>2. CASE Unplug
    BY <1>2 DEF Unplug, TypeOK
  <1>3. CASE OpenDevice \/ StartDevice \/ PublishDevice
    BY <1>3 DEF OpenDevice, StartDevice, PublishDevice, TypeOK
  <1>4. CASE Disconnected \/ CloseDevice
    BY <1>4 DEF Disconnected, CloseDevice, TypeOK
  <1>5. ASSUME NEW h \in Handles, TransferEnds(h) PROVE TypeOK'
    BY <1>5 DEF TransferEnds, TypeOK
  <1>6. ASSUME NEW h \in Handles, out_xfer_done(h) PROVE TypeOK'
    BY <1>6 DEF out_xfer_done, TypeOK
  <1>7. CASE ReceiveOutEp
    BY <1>7 DEF ReceiveOutEp, TypeOK
  <1>8. CASE CallOutputReport
    BY <1>8 DEF CallOutputReport, RxDone, TypeOK
  <1>9. CASE FillTransfer
    <2>1. rxDev \in Handles /\ out_xfer[rxDev]
      BY <1>9 DEF FillTransfer, OutInv
    <2>2. out_busy' \in [Handles -> BOOLEAN]
      BY <1>9 DEF FillTransfer, TypeOK
    <2>3. \A g \in Handles : ~out_xfer'[g] => ~out_busy'[g] /\ transfer'[g] = "home"
      BY <1>9, <2>1 DEF FillTransfer, TypeOK
    <2> QED
      BY <1>9, <2>2, <2>3 DEF FillTransfer, TypeOK
  <1>10. CASE SubmitTransfer
    <2>1. rxDev \in Handles /\ out_xfer[rxDev]
      BY <1>10 DEF SubmitTransfer, OutInv
    <2>2. /\ out_busy' \in [Handles -> BOOLEAN]
          /\ transfer' \in [Handles -> {"home", "bus", "back"}]
      BY <1>10 DEF SubmitTransfer, TypeOK
    <2>3. \A g \in Handles : ~out_xfer'[g] => ~out_busy'[g] /\ transfer'[g] = "home"
      BY <1>10, <2>1 DEF SubmitTransfer, TypeOK
    <2> QED
      BY <1>10, <2>2, <2>3 DEF SubmitTransfer, RxDone, TypeOK
  <1>11. CASE UNCHANGED vars
    BY <1>11 DEF vars, TypeOK
  <1> QED
    BY <1>1, <1>2, <1>3, <1>4, <1>5, <1>6, <1>7, <1>8, <1>9, <1>10, <1>11
    DEF Next, DriverTask, RxTask

(* The driver's task forgets a portal before it closes it, and publishes    *)
(* the one it has opened.                                                  *)
LEMMA NextDevice == TypeOK /\ DeviceInv /\ [Next]_vars => DeviceInv'
  <1> SUFFICES ASSUME TypeOK, DeviceInv, [Next]_vars PROVE DeviceInv'
    OBVIOUS
  <1> USE DEF hostVars, driverVars, outVars, rxVars, DeviceInv, Forgotten
  <1>1. CASE Plug
    BY <1>1, TunnelHostAssumption DEF Plug
  <1>2. CASE OpenDevice
    <2>1. listed # NULL /\ Forgotten /\ UNCHANGED <<listed, s_dev, s_connected>>
      BY <1>2 DEF OpenDevice
    <2>2. CASE hostPc' = "start" /\ UNCHANGED failed
      BY <1>2, <2>1, <2>2 DEF OpenDevice
    <2>3. CASE hostPc' = "idle" /\ failed' = TRUE
      BY <2>1, <2>3
    <2> QED
      BY <1>2, <2>2, <2>3 DEF OpenDevice
  <1>3. CASE StartDevice
    <2>1. /\ listed # NULL /\ Forgotten /\ ~failed
          /\ UNCHANGED <<listed, opened, s_dev, s_connected>>
      BY <1>3 DEF StartDevice
    <2>2. CASE hostPc' = "publish" /\ UNCHANGED failed
      BY <1>3, <2>1, <2>2 DEF StartDevice
    <2>3. CASE hostPc' = "idle" /\ failed' = TRUE
      BY <2>1, <2>3
    <2> QED
      BY <1>3, <2>2, <2>3 DEF StartDevice
  <1>4. CASE PublishDevice
    BY <1>4 DEF PublishDevice
  <1>5. CASE Disconnected
    <2>1. opened \/ (s_dev = NULL /\ ~s_connected)
      BY <1>5 DEF Disconnected
    <2> QED
      BY <1>5, <2>1 DEF Disconnected
  <1>6. CASE CloseDevice
    BY <1>6 DEF CloseDevice
  <1>7. CASE UNCHANGED <<s_dev, s_connected, listed, opened, hostPc, failed>>
    BY <1>7
  <1>8. CASE Unplug \/ RxTask
    BY <1>7, <1>8 DEF Unplug, RxTask, ReceiveOutEp, CallOutputReport, FillTransfer,
                      SubmitTransfer
  <1>9. ASSUME NEW h \in Handles, TransferEnds(h) \/ out_xfer_done(h) PROVE DeviceInv'
    BY <1>7, <1>9 DEF TransferEnds, out_xfer_done
  <1>10. CASE UNCHANGED vars
    BY <1>7, <1>10 DEF vars
  <1> QED
    BY <1>1, <1>2, <1>3, <1>4, <1>5, <1>6, <1>8, <1>9, <1>10 DEF Next, DriverTask

(* A transfer leaves home marked as busy, is back home before its portal is *)
(* closed, and rx_task's transfer is not given away under its hands.       *)
LEMMA NextOut == TypeOK /\ OutInv /\ [Next]_vars => OutInv'
  <1> SUFFICES ASSUME TypeOK, OutInv, [Next]_vars PROVE OutInv'
    OBVIOUS
  <1> USE DEF hostVars, driverVars, outVars, rxVars
  <1>0. /\ out_xfer \in [Handles -> BOOLEAN]
        /\ out_busy \in [Handles -> BOOLEAN]
        /\ transfer \in [Handles -> {"home", "bus", "back"}]
    BY DEF TypeOK
  <1>1. CASE Plug
    <2>1. PICK h \in Handles \ {rxDev} :
            /\ listed' = h
            /\ out_xfer' = [out_xfer EXCEPT ![h] = FALSE]
            /\ out_busy' = [out_busy EXCEPT ![h] = FALSE]
      BY <1>1 DEF Plug
    <2>2. \A g \in Handles : transfer'[g] = "home"
      BY <1>1, TunnelHostAssumption DEF Plug, OutInv
    <2>3. rxPc' \in {"fill", "submit"} =>
            rxDev' \in Handles /\ out_xfer'[rxDev'] /\ rxDev' # listed'
      BY <1>0, <1>1, <2>1 DEF Plug, OutInv
    <2>4. hostPc' # "close"
      BY <1>1 DEF Plug
    <2> QED
      BY <2>2, <2>3, <2>4 DEF OutInv
  <1>2. CASE CloseDevice
    BY <1>2, TunnelHostAssumption DEF CloseDevice, OutInv
  <1>3. ASSUME NEW h \in Handles, TransferEnds(h) PROVE OutInv'
    BY <1>0, <1>3 DEF TransferEnds, OutInv
  <1>4. ASSUME NEW h \in Handles, out_xfer_done(h) PROVE OutInv'
    <2>1. rxPc \in {"fill", "submit"} => rxDev # h
      BY <1>4 DEF out_xfer_done, OutInv
    <2>2. \A g \in Handles : g # h =>
            transfer'[g] = transfer[g] /\ out_busy'[g] = out_busy[g]
      BY <1>0, <1>4 DEF out_xfer_done
    <2>3. transfer'[h] = "home"
      BY <1>0, <1>4 DEF out_xfer_done
    <2>4. UNCHANGED <<rxPc, rxDev, listed, out_xfer>> /\ hostPc' # "close"
      BY <1>4 DEF out_xfer_done
    <2> QED
      BY <2>1, <2>2, <2>3, <2>4 DEF OutInv
  <1>5. CASE CallOutputReport
    <2>1. CASE RxDone /\ UNCHANGED out_xfer
      BY <1>5, <2>1 DEF CallOutputReport, RxDone, OutInv
    <2>2. CASE /\ s_dev = listed /\ s_dev # NULL
               /\ ~out_busy[s_dev]
               /\ rxPc' = "fill"
               /\ rxDev' = s_dev
               /\ out_xfer' = [out_xfer EXCEPT ![s_dev] = TRUE]
      <3>1. s_dev \in Handles
        BY <2>2 DEF TypeOK
      <3>2. transfer[s_dev] = "home"
        BY <2>2, <3>1 DEF OutInv
      <3>3. out_xfer'[s_dev]
        BY <1>0, <2>2, <3>1
      <3>4. UNCHANGED <<listed, out_busy, transfer, hostPc, plugged>>
        BY <1>5 DEF CallOutputReport
      <3> QED
        BY <2>2, <3>1, <3>2, <3>3, <3>4 DEF OutInv
    <2> QED
      BY <1>5, <2>1, <2>2 DEF CallOutputReport
  <1>6. CASE FillTransfer
    <2>1. rxDev \in Handles /\ out_xfer[rxDev] /\ transfer[rxDev] = "home"
      BY <1>6 DEF FillTransfer, OutInv
    <2>2. rxDev = listed => out_busy'[rxDev]
      BY <1>0, <1>6, <2>1 DEF FillTransfer
    <2>3. \A g \in Handles : g # rxDev => out_busy'[g] = out_busy[g]
      BY <1>0, <1>6 DEF FillTransfer
    <2> QED
      BY <1>6, <2>1, <2>2, <2>3 DEF FillTransfer, OutInv
  <1>7. CASE SubmitTransfer
    <2>1. rxDev \in Handles /\ transfer[rxDev] = "home"
          /\ (rxDev = listed => out_busy[rxDev])
      BY <1>7 DEF SubmitTransfer, OutInv
    <2>2. CASE /\ plugged /\ rxDev = listed
               /\ transfer' = [transfer EXCEPT ![rxDev] = "bus"]
               /\ UNCHANGED out_busy
      BY <1>0, <1>7, <2>1, <2>2 DEF SubmitTransfer, RxDone, OutInv
    <2>3. CASE /\ out_busy' = [out_busy EXCEPT ![rxDev] = FALSE]
               /\ UNCHANGED transfer
      BY <1>0, <1>7, <2>1, <2>3 DEF SubmitTransfer, RxDone, OutInv
    <2> QED
      BY <1>7, <2>2, <2>3 DEF SubmitTransfer
  <1>8. CASE ReceiveOutEp
    BY <1>8 DEF ReceiveOutEp, OutInv
  <1>9. CASE /\ UNCHANGED <<transfer, out_busy, out_xfer, listed, rxPc, rxDev>>
             /\ hostPc' = "close" => ~plugged' /\ transfer[listed] = "home"
    BY <1>9 DEF OutInv
  <1>10. CASE Unplug \/ OpenDevice \/ StartDevice \/ PublishDevice \/ Disconnected
    BY <1>9, <1>10
    DEF OutInv, Unplug, OpenDevice, StartDevice, PublishDevice, Disconnected
  <1>11. CASE UNCHANGED vars
    BY <1>9, <1>11 DEF OutInv, vars
  <1> QED
    BY <1>1, <1>2, <1>3, <1>4, <1>5, <1>6, <1>7, <1>8, <1>10, <1>11
    DEF Next, DriverTask, RxTask

(* The host keeps its invariant whatever the builds and the game do.        *)
LEMMA HostInvariant == PathSpec => []HostInv
  <1>1. PathInit => HostInv
    BY InitHost DEF PathInit
  <1>2. HostInv /\ [PathNext]_pathVars => HostInv'
    BY PathSteps, NextHostTypes, NextDevice, NextOut DEF HostInv
  <1> QED
    BY <1>1, <1>2, PTL DEF PathSpec

(* Between its callbacks the driver's task leaves the portal that is        *)
(* plugged in known, unless it could not be opened, and a portal that is   *)
(* gone forgotten.                                                         *)
THEOREM Known == PathSpec => []DeviceIsKnown
  <1>1. HostInv => DeviceIsKnown
    BY DEF HostInv, DeviceInv, Forgotten, DeviceIsKnown
  <1> QED
    BY <1>1, HostInvariant, PTL

(* A report is never copied over one that is still on its way, although     *)
(* rx_task looks at out_busy long before it copies, and only the driver's  *)
(* task knows where the transfer is.                                       *)
THEOREM Intact == PathSpec => []BufferIntact
  <1>1. HostInv => BufferIntact
    BY DEF HostInv, OutInv, BufferIntact
  <1> QED
    BY <1>1, HostInvariant, PTL

\* Whatever has marked a transfer busy will come to clear the mark: rx_task is
\* about to submit it, or it is out and its callback will.
BusyInUse ==
  \A h \in Handles :
    out_busy[h] => transfer[h] # "home" \/ (rxPc = "submit" /\ rxDev = h)

(* The mark is set before the submission and cleared after it has failed or *)
(* in the callback, and nothing else touches it.                           *)
LEMMA NextBusy == HostInv /\ BusyInUse /\ [Next]_vars => BusyInUse'
  <1> SUFFICES ASSUME HostInv, BusyInUse, [Next]_vars PROVE BusyInUse'
    OBVIOUS
  <1> USE DEF hostVars, driverVars, outVars, rxVars
  <1>0. /\ out_busy \in [Handles -> BOOLEAN]
        /\ transfer \in [Handles -> {"home", "bus", "back"}]
        /\ rxPc \in {"fill", "submit"} => rxDev \in Handles
    BY DEF HostInv, TypeOK, OutInv
  <1>1. CASE Plug
    BY <1>0, <1>1 DEF Plug, BusyInUse
  <1>2. ASSUME NEW h \in Handles, TransferEnds(h) PROVE BusyInUse'
    BY <1>0, <1>2 DEF TransferEnds, BusyInUse
  <1>3. ASSUME NEW h \in Handles, out_xfer_done(h) PROVE BusyInUse'
    BY <1>0, <1>3 DEF out_xfer_done, BusyInUse
  <1>4. CASE ReceiveOutEp \/ CallOutputReport
    BY <1>4 DEF ReceiveOutEp, CallOutputReport, RxDone, BusyInUse
  <1>5. CASE FillTransfer
    BY <1>0, <1>5 DEF FillTransfer, BusyInUse
  <1>6. CASE SubmitTransfer
    BY <1>0, <1>6 DEF SubmitTransfer, RxDone, BusyInUse
  <1>7. CASE UNCHANGED <<transfer, out_busy, rxPc, rxDev>>
    BY <1>7 DEF BusyInUse
  <1>8. CASE \/ Unplug \/ OpenDevice \/ StartDevice \/ PublishDevice
             \/ Disconnected \/ CloseDevice \/ UNCHANGED vars
    BY <1>7, <1>8
    DEF Unplug, OpenDevice, StartDevice, PublishDevice, Disconnected, CloseDevice, vars
  <1> QED
    BY <1>1, <1>2, <1>3, <1>4, <1>5, <1>6, <1>8 DEF Next, DriverTask, RxTask

(* The audio path is marked busy only while somebody has yet to clear the   *)
(* mark (patch_components.py:41, 71-73): the part of AudioGoesOn that needs *)
(* no fairness.                                                            *)
THEOREM BusyIsCleared == PathSpec => []BusyInUse
  <1>1. PathInit => BusyInUse
    BY DEF PathInit, Init, BusyInUse
  <1>2. HostInv /\ BusyInUse /\ [PathNext]_pathVars => BusyInUse'
    BY PathSteps, NextBusy
  <1> QED
    BY <1>1, <1>2, HostInvariant, PTL DEF PathSpec

-----------------------------------------------------------------------------
(***************************************************************************)
(* The component patcher.                                                  *)
(***************************************************************************)

(* The patches, the files they are for and the projects that need them.     *)
LEMMA PatchFacts ==
  /\ Len(PATCHES) = 4
  /\ Patches = {"field", "sender", "declaration", "tag"}
  /\ \A i \in 1..4 : PATCHES[i] \in Patches
  /\ \A p \in Patches : FileOf[p] \in Files
  /\ \A b \in Projects : Needed[b] \subseteq Patches
  /\ PATCHES[4] = "tag"
  <1>1. Len(PATCHES) = 4
    BY DEF PATCHES
  <1>2. Patches = {PATCHES[1], PATCHES[2], PATCHES[3], PATCHES[4]}
    BY <1>1 DEF Patches
  <1>3. Patches = {"field", "sender", "declaration", "tag"}
    BY <1>2 DEF PATCHES
  <1>4. \A i \in 1..4 : PATCHES[i] \in Patches
    BY <1>1 DEF Patches
  <1>5. \A p \in Patches : FileOf[p] \in Files
    BY DEF Files
  <1>6. \A b \in Projects : Needed[b] \subseteq Patches
    BY <1>3 DEF Projects, Needed
  <1> QED
    BY <1>1, <1>3, <1>4, <1>5, <1>6 DEF PATCHES

(* A patch for one of a project's files is one the project needs.           *)
LEMMA NeededFacts ==
  ASSUME NEW b \in Projects, NEW p \in Patches
  PROVE  FileOf[p] \in FilesOf(b) <=> p \in Needed[b]
  <1>1. /\ FileOf["field"] = "hid_host.c" /\ FileOf["sender"] = "hid_host.c"
        /\ FileOf["declaration"] = "hid_host.h" /\ FileOf["tag"] = "hid_device.c"
    BY DEF FileOf
  <1>2. /\ Needed["portal"] = {"field", "sender", "declaration"}
        /\ Needed["console"] = {"tag"}
    BY DEF Needed
  <1>3. /\ FilesOf("portal") = {"hid_host.c", "hid_host.h"}
        /\ FilesOf("console") = {"hid_device.c"}
    BY <1>1, <1>2 DEF FilesOf
  <1> QED
    BY <1>1, <1>2, <1>3, PatchFacts DEF Projects

(* Freshly fetched files hold no patch.                                     *)
LEMMA InitPatch == PatchInit => PatchInv
  <1> SUFFICES ASSUME PatchInit PROVE PatchInv
    OBVIOUS
  <1>1. PatchTypeOK
    <2>1. firmware \in [Projects -> Outcomes \X BOOLEAN]
      <3>1. <<"none", FALSE>> \in Outcomes \X BOOLEAN
        BY DEF Outcomes
      <3> QED
        BY <3>1 DEF PatchInit
    <2>2. files \in [Files -> FileStates]
      BY DEF PatchInit, FileStates
    <2>3. applied \in [Patches -> Nat]
      BY DEF PatchInit
    <2>4. /\ anchors \subseteq Patches /\ project \in Projects
          /\ script \in 0..5 /\ settled \subseteq Projects
      BY DEF PatchInit
    <2>5. loud \in BOOLEAN /\ missed \in BOOLEAN
      BY Zenon DEF PatchInit
    <2> QED
      BY <2>1, <2>2, <2>3, <2>4, <2>5 DEF PatchTypeOK
  <1>2. AppliedOnce
    BY DEF PatchInit, AppliedOnce
  <1>3. SettledInv
    BY DEF PatchInit, SettledInv, running
  <1> QED
    BY <1>1, <1>2, <1>3 DEF PatchInv

(* A file that is fetched or lost has none of the replacements.             *)
LEMMA WipeFacts ==
  ASSUME PatchTypeOK, NEW fs, NEW new \in [fs -> FileStates], Wipe(new)
  PROVE  /\ applied' \in [Patches -> Nat]
         /\ files' \in [Files -> FileStates]
         /\ \A p \in Patches : applied'[p] \in {0, applied[p]}
         /\ \A p \in Patches : FileOf[p] \notin fs =>
              applied'[p] = applied[p] /\ files'[FileOf[p]] = files[FileOf[p]]
  BY PatchFacts DEF Wipe, PatchTypeOK

\* The script's file, emptied.
Emptied == [f \in {FileOf[patch]} |-> "empty"]

(* The same for the two ways there are to wipe a file: fetching it ...      *)
LEMMA FetchFacts ==
  ASSUME PatchTypeOK, NEW b \in Projects, Fetch(b)
  PROVE  /\ applied' \in [Patches -> Nat]
         /\ files' \in [Files -> FileStates]
         /\ \A p \in Patches : applied'[p] \in {0, applied[p]}
         /\ \A p \in Patches : FileOf[p] \notin FilesOf(b) =>
              applied'[p] = applied[p] /\ files'[FileOf[p]] = files[FileOf[p]]
         /\ anchors' \subseteq KeptAnchors(FilesOf(b)) \cup Needed[b]
  <1>1. PICK new \in [FilesOf(b) -> {"whole", "elsewhere"}] :
          /\ Wipe(new)
          /\ \E found \in SUBSET {p \in Needed[b] : new[FileOf[p]] = "whole"} :
               anchors' = KeptAnchors(FilesOf(b)) \cup found
    BY DEF Fetch
  <1>2. new \in [FilesOf(b) -> FileStates]
    BY DEF FileStates
  <1>3. anchors' \subseteq KeptAnchors(FilesOf(b)) \cup Needed[b]
    BY <1>1
  <1> QED
    BY <1>1, <1>2, <1>3, WipeFacts

(* ... and losing it in a write.                                            *)
LEMMA EmptyFacts ==
  ASSUME PatchTypeOK, Wipe(Emptied)
  PROVE  /\ applied' \in [Patches -> Nat]
         /\ files' \in [Files -> FileStates]
         /\ \A p \in Patches : applied'[p] \in {0, applied[p]}
         /\ \A p \in Patches : FileOf[p] # FileOf[patch] =>
              applied'[p] = applied[p] /\ files'[FileOf[p]] = files[FileOf[p]]
  <1>1. Emptied \in [{FileOf[patch]} -> FileStates]
    BY DEF Emptied, FileStates
  <1> QED
    BY <1>1, WipeFacts

\* What every step of a running script does to the texts: it loses one, applies
\* the patch it is at, or does nothing.
ScriptSteps ==
  SkipPatch \/ AnchorMissing \/ ApplyPatch \/ ScriptDies \/ Killed

(* Every step of the script but that of a write leaves the texts alone; a   *)
(* write is to a patch that has not been made and has its anchor, and       *)
(* either applies it or loses its file.                                    *)
LEMMA ScriptFacts ==
  ASSUME PatchTypeOK, ScriptSteps
  PROVE  /\ running /\ patch \in Patches /\ script \in 1..4
         /\ \/ UNCHANGED textVars
            \/ /\ Writing
               /\ applied' = [applied EXCEPT ![patch] = @ + 1]
               /\ anchors' \subseteq anchors
               /\ UNCHANGED files
            \/ /\ Writing
               /\ Wipe(Emptied)
               /\ anchors' = KeptAnchors({FileOf[patch]})
  <1>1. running
    BY DEF ScriptSteps, SkipPatch, AnchorMissing, ApplyPatch, ScriptDies, Killed,
           Writing
  <1>2. script \in 1..4 /\ patch \in Patches
    BY <1>1, PatchFacts DEF running, patch
  <1>3. SkipPatch \/ AnchorMissing => UNCHANGED textVars
    BY DEF SkipPatch, AnchorMissing
  <1>4. ApplyPatch => /\ Writing
                      /\ applied' = [applied EXCEPT ![patch] = @ + 1]
                      /\ anchors' \subseteq anchors
                      /\ UNCHANGED files
    BY DEF ApplyPatch
  <1>5. ScriptDies => Writing /\ LoseText
    BY DEF ScriptDies
  <1>6. Killed => (Writing /\ LoseText) \/ UNCHANGED textVars
    BY DEF Killed
  <1> QED
    BY <1>1, <1>2, <1>3, <1>4, <1>5, <1>6 DEF ScriptSteps, LoseText, Emptied

(* Every step of a build keeps the types.                                   *)
LEMMA NextPatchTypes == PatchTypeOK /\ [PatchNext]_patchVars => PatchTypeOK'
  <1> SUFFICES ASSUME PatchTypeOK, [PatchNext]_patchVars PROVE PatchTypeOK'
    OBVIOUS
  <1> USE DEF textVars
  <1>1. ASSUME NEW b \in Projects, Configure(b) PROVE PatchTypeOK'
    <2>0. /\ project' \in Projects /\ script' \in 0..5
          /\ loud' \in BOOLEAN /\ missed' \in BOOLEAN
          /\ UNCHANGED firmware
      <3>1. /\ project' = b /\ script' \in {1, 5} /\ firmware' = firmware
            /\ loud' = FALSE /\ (missed' = FALSE \/ missed' = TRUE)
        BY <1>1 DEF Configure
      <3>2. script' \in 0..5
        BY <3>1
      <3>3. loud' \in BOOLEAN /\ missed' \in BOOLEAN
        BY <3>1, Zenon
      <3> QED
        BY <3>1, <3>2, <3>3
    <2>1. CASE Fetch(b) /\ settled' = settled \ {b}
      <3>1. anchors' \subseteq Patches
        BY <2>1, FetchFacts, PatchFacts DEF PatchTypeOK, KeptAnchors
      <3>2. /\ applied' \in [Patches -> Nat]
            /\ files' \in [Files -> FileStates]
        BY <2>1, FetchFacts
      <3>3. settled' \subseteq Projects
        BY <2>1 DEF PatchTypeOK
      <3> QED
        BY <2>0, <3>1, <3>2, <3>3 DEF PatchTypeOK
    <2>2. CASE UNCHANGED <<textVars, settled>>
      BY <2>0, <2>2 DEF PatchTypeOK
    <2> QED
      BY <1>1, <2>1, <2>2 DEF Configure
  <1>2. CASE ScriptSteps
    <2>1. script \in 1..4 /\ patch \in Patches
      BY <1>2, ScriptFacts
    <2>2. /\ anchors' \subseteq Patches
          /\ applied' \in [Patches -> Nat]
          /\ files' \in [Files -> FileStates]
      <3>1. CASE UNCHANGED textVars
        BY <3>1 DEF PatchTypeOK
      <3>2. CASE /\ applied' = [applied EXCEPT ![patch] = @ + 1]
                 /\ anchors' \subseteq anchors
                 /\ UNCHANGED files
        BY <2>1, <3>2 DEF PatchTypeOK
      <3>3. CASE /\ Wipe(Emptied)
                 /\ anchors' = KeptAnchors({FileOf[patch]})
        BY <3>3, EmptyFacts DEF PatchTypeOK, KeptAnchors
      <3> QED
        BY <1>2, <3>1, <3>2, <3>3, ScriptFacts
    <2>3. script' \in 0..5 /\ UNCHANGED <<project, firmware>>
      BY <1>2, <2>1
      DEF ScriptSteps, SkipPatch, AnchorMissing, ApplyPatch, ScriptDies, Killed,
          NextPatch
    <2>5. loud' \in BOOLEAN /\ missed' \in BOOLEAN
      BY <1>2
      DEF ScriptSteps, SkipPatch, AnchorMissing, ApplyPatch, ScriptDies, Killed,
          PatchTypeOK
    <2>4. settled' \subseteq Projects
      BY <1>2
      DEF ScriptSteps, SkipPatch, AnchorMissing, ApplyPatch, ScriptDies, Killed,
          NextPatch, PatchTypeOK
    <2> QED
      BY <2>2, <2>3, <2>4, <2>5 DEF PatchTypeOK
  <1>3. CASE Flash
    <2>1. firmware' \in [Projects -> Outcomes \X BOOLEAN]
      BY <1>3 DEF Flash, PatchTypeOK, outcome, Outcomes
    <2> QED
      BY <1>3, <2>1 DEF Flash, PatchTypeOK
  <1>4. CASE UNCHANGED patchVars
    BY <1>4 DEF patchVars, PatchTypeOK
  <1> QED
    BY <1>1, <1>2, <1>3, <1>4 DEF PatchNext, ScriptSteps

(* A replacement that is in a file is never made again.                     *)
LEMMA NextApplied ==
  PatchTypeOK /\ AppliedOnce /\ [PatchNext]_patchVars => AppliedOnce'
  <1> SUFFICES ASSUME PatchTypeOK, AppliedOnce, [PatchNext]_patchVars
               PROVE  AppliedOnce'
    OBVIOUS
  <1>0. applied \in [Patches -> Nat]
    BY DEF PatchTypeOK
  <1>1. CASE UNCHANGED applied
    BY <1>1 DEF AppliedOnce
  <1>2. ASSUME \A p \in Patches : applied'[p] \in {0, applied[p]}
        PROVE  AppliedOnce'
    BY <1>0, <1>2 DEF AppliedOnce
  <1>3. CASE ScriptSteps
    <2>1. CASE UNCHANGED textVars
      BY <1>1, <2>1 DEF textVars
    <2>2. CASE Writing /\ applied' = [applied EXCEPT ![patch] = @ + 1]
      <3>1. applied[patch] = 0 /\ patch \in Patches
        BY <1>0, <1>3, <2>2, ScriptFacts DEF Writing, HasMarker
      <3> QED
        BY <1>0, <2>2, <3>1 DEF AppliedOnce
    <2>3. CASE Wipe(Emptied)
      BY <1>2, <2>3, EmptyFacts
    <2> QED
      BY <1>3, <2>1, <2>2, <2>3, ScriptFacts
  <1>4. ASSUME NEW b \in Projects, Configure(b) PROVE AppliedOnce'
    BY <1>1, <1>2, <1>4, FetchFacts DEF Configure, textVars
  <1>5. CASE Flash \/ UNCHANGED patchVars
    BY <1>1, <1>5 DEF Flash, patchVars, textVars
  <1> QED
    BY <1>3, <1>4, <1>5 DEF PatchNext, ScriptSteps

(* What a write does to the patches that need none: nothing.  It works on   *)
(* one project's files, and if that project has been through the script    *)
(* there is nothing to write.                                              *)
LEMMA WriteIsElsewhere ==
  ASSUME PatchTypeOK, SettledInv, ScriptSteps, Writing,
         NEW b \in settled, NEW p \in Needed[b]
  PROVE  p # patch /\ FileOf[p] # FileOf[patch]
  <1>1. /\ patch \in Patches /\ project \in Projects /\ b \in Projects
        /\ p \in Patches
    BY ScriptFacts, PatchFacts DEF PatchTypeOK
  <1>2. patch \in Needed[project]
    BY <1>1, NeededFacts DEF Writing, inPlace, ours
  <1>3. ~Done(patch)
    BY DEF Writing, Done, inPlace
  <1>4. b # project
    BY <1>2, <1>3 DEF SettledInv
  <1>5. /\ FileOf["field"] = "hid_host.c" /\ FileOf["sender"] = "hid_host.c"
        /\ FileOf["declaration"] = "hid_host.h" /\ FileOf["tag"] = "hid_device.c"
    BY DEF FileOf
  <1>6. /\ Needed["portal"] = {"field", "sender", "declaration"}
        /\ Needed["console"] = {"tag"}
    BY DEF Needed
  <1> QED
    BY <1>1, <1>2, <1>4, <1>5, <1>6 DEF Projects

(* What the script has dealt with stays dealt with: a replacement only goes *)
(* with the whole text, and its anchor with it.                            *)
LEMMA DoneStays ==
  ASSUME PatchTypeOK, ScriptSteps, NEW p \in Patches, Done(p)
  PROVE  Done(p)'
  <1>0. /\ applied \in [Patches -> Nat] /\ patch \in Patches
        /\ p = "field" => FileOf["sender"] = FileOf[p] /\ "sender" \in Patches
    BY ScriptFacts, PatchFacts DEF PatchTypeOK, FileOf
  <1>1. CASE UNCHANGED textVars
    BY <1>1 DEF textVars, Done, HasMarker
  <1>2. CASE /\ applied' = [applied EXCEPT ![patch] = @ + 1]
             /\ anchors' \subseteq anchors
             /\ UNCHANGED files
    <2>1. \A r \in Patches : applied[r] > 0 => applied'[r] > 0
      BY <1>0, <1>2
    <2> QED
      BY <1>0, <1>2, <2>1 DEF Done, HasMarker
  <1>3. CASE /\ Wipe(Emptied)
             /\ anchors' = KeptAnchors({FileOf[patch]})
    <2>1. CASE FileOf[p] = FileOf[patch]
      BY <1>3, <2>1 DEF KeptAnchors, Done
    <2>2. CASE FileOf[p] # FileOf[patch]
      <3>1. /\ applied'[p] = applied[p] /\ files'[FileOf[p]] = files[FileOf[p]]
            /\ p \in anchors' => p \in anchors
        BY <1>3, <2>2, EmptyFacts DEF KeptAnchors
      <3>2. p = "field" => applied'["sender"] = applied["sender"]
        BY <1>0, <1>3, <2>2, EmptyFacts
      <3> QED
        BY <3>1, <3>2 DEF Done, HasMarker
    <2> QED
      BY <2>1, <2>2
  <1> QED
    BY <1>1, <1>2, <1>3, ScriptFacts

(* A patch the script goes on from is dealt with.                           *)
LEMMA PatchIsDone ==
  ASSUME PatchTypeOK, SkipPatch \/ AnchorMissing \/ ApplyPatch,
         NEW p, p = patch, p \in Needed[project]
  PROVE  Done(p)'
  <1>1. ScriptSteps /\ p \in Patches /\ applied \in [Patches -> Nat]
    BY ScriptFacts DEF ScriptSteps, PatchTypeOK
  <1>2. CASE SkipPatch
    <2>1. FileOf[p] \in FilesOf(project)
      BY <1>1, NeededFacts DEF PatchTypeOK
    <2>2. Done(p)
      BY <1>2, <2>1 DEF SkipPatch, Done, inPlace, ours
    <2> QED
      BY <1>1, <2>2, DoneStays
  <1>3. CASE AnchorMissing
    <2>1. Done(p)
      BY <1>3 DEF AnchorMissing, Done
    <2> QED
      BY <1>1, <2>1, DoneStays
  <1>4. CASE ApplyPatch
    <2>1. applied'[p] = applied[p] + 1 /\ applied[p] \in Nat
      BY <1>1, <1>4 DEF ApplyPatch
    <2>2. applied'[p] > 0
      BY <2>1
    <2> QED
      BY <2>2 DEF Done, HasMarker
  <1> QED
    BY <1>2, <1>3, <1>4

(* Fetching a project's components leaves those of the other alone.         *)
LEMMA FetchIsElsewhere ==
  ASSUME PatchTypeOK, NEW b \in Projects, Configure(b),
         NEW c \in settled \cap settled', NEW p \in Needed[c]
  PROVE  /\ p \in Patches
         /\ applied'[p] = applied[p] /\ files'[FileOf[p]] = files[FileOf[p]]
         /\ Done(p) => Done(p)'
  <1>0. c \in Projects /\ p \in Patches
    BY PatchFacts DEF PatchTypeOK
  <1>1. CASE UNCHANGED textVars
    BY <1>0, <1>1 DEF textVars, Done, HasMarker
  <1>2. CASE Fetch(b) /\ settled' = settled \ {b}
    <2>1. c # b
      BY <1>2
    <2>2. p \notin Needed[b] /\ (p = "field" => "sender" \notin Needed[b])
      BY <1>0, <2>1 DEF Projects, Needed
    <2>3. FileOf[p] \notin FilesOf(b)
      BY <1>0, <2>2, NeededFacts
    <2>4. applied'[p] = applied[p] /\ files'[FileOf[p]] = files[FileOf[p]]
      BY <1>0, <1>2, <2>3, FetchFacts
    <2>5. p = "field" => applied'["sender"] = applied["sender"]
      <3>1. p = "field" => "sender" \in Patches /\ FileOf["sender"] \notin FilesOf(b)
        BY <2>2, NeededFacts, PatchFacts
      <3> QED
        BY <1>2, <3>1, FetchFacts
    <2>6. p \in anchors' => p \in anchors
      BY <1>2, <2>2, FetchFacts DEF KeptAnchors
    <2> QED
      BY <1>0, <2>4, <2>5, <2>6 DEF Done, HasMarker
  <1> QED
    BY <1>1, <1>2 DEF Configure

(* The script settles a project: it has been through all the patches, in    *)
(* one run, and they stay dealt with until the project is fetched anew.    *)
LEMMA NextSettled ==
  PatchTypeOK /\ SettledInv /\ [PatchNext]_patchVars => SettledInv'
  <1> SUFFICES ASSUME PatchTypeOK, SettledInv, [PatchNext]_patchVars
               PROVE  SettledInv'
    OBVIOUS
  <1>1. ASSUME NEW b \in Projects, Configure(b) PROVE SettledInv'
    <2>1. settled' \subseteq settled
      BY <1>1 DEF Configure
    <2>2. \A c \in settled' : \A p \in Needed[c] : Done(p)'
      BY <1>1, <2>1, FetchIsElsewhere DEF SettledInv
    <2>3. script' = 1 \/ ~running'
      BY <1>1, PatchFacts DEF Configure, running
    <2> QED
      BY <2>2, <2>3 DEF SettledInv
  <1>2. CASE ScriptSteps
    <2>0. /\ script \in 1..4 /\ running /\ settled \subseteq Projects
          /\ project \in Projects /\ UNCHANGED project
          /\ \A i \in 1..4 : PATCHES[i] \in Patches
          /\ Len(PATCHES) = 4
      BY <1>2, ScriptFacts, PatchFacts
      DEF PatchTypeOK, ScriptSteps, SkipPatch, AnchorMissing, ApplyPatch, ScriptDies,
          Killed, NextPatch
    <2>1. \A b \in settled : \A p \in Needed[b] : Done(p)'
      <3> SUFFICES ASSUME NEW b \in settled, NEW p \in Needed[b] PROVE Done(p)'
        OBVIOUS
      <3>1. p \in Patches /\ Done(p)
        BY <2>0, PatchFacts DEF SettledInv
      <3> QED
        BY <1>2, <3>1, DoneStays
    <2>2. \A i \in 1..(script - 1) : PATCHES[i] \in Needed[project] => Done(PATCHES[i])'
      <3> SUFFICES ASSUME NEW i \in 1..(script - 1), PATCHES[i] \in Needed[project]
                   PROVE  Done(PATCHES[i])'
        OBVIOUS
      <3>1. PATCHES[i] \in Patches
        BY <2>0
      <3>2. Done(PATCHES[i])
        BY <2>0 DEF SettledInv
      <3> QED
        BY <1>2, <3>1, <3>2, DoneStays
    <2>3. CASE ScriptDies \/ Killed
      <3>1. script' \in {0, 5} /\ settled' = settled
        BY <2>3 DEF ScriptDies, Killed
      <3>2. ~running'
        BY <2>0, <3>1 DEF running
      <3> QED
        BY <2>1, <3>1, <3>2 DEF SettledInv
    <2>4. CASE SkipPatch \/ AnchorMissing \/ ApplyPatch
      <3>1. /\ script' = script + 1
            /\ settled' = IF script = 4 THEN settled \cup {project} ELSE settled
        BY <2>0, <2>4 DEF SkipPatch, AnchorMissing, ApplyPatch, NextPatch
      <3>2. \A i \in 1..4 :
              i = script /\ PATCHES[i] \in Needed[project] => Done(PATCHES[i])'
        <4> SUFFICES ASSUME NEW i \in 1..4, i = script, PATCHES[i] \in Needed[project]
                     PROVE  Done(PATCHES[i])'
          OBVIOUS
        <4>1. PATCHES[i] = patch
          BY DEF patch
        <4> QED
          BY <2>4, <4>1, PatchIsDone
      <3>3. \A i \in 1..script : PATCHES[i] \in Needed[project] => Done(PATCHES[i])'
        <4>1. \A i \in 1..script : i \in 1..(script - 1) \/ (i \in 1..4 /\ i = script)
          BY <2>0
        <4> QED
          BY <2>2, <3>2, <4>1
      <3>4. ASSUME script = 4
            PROVE  \A p \in Needed[project] : Done(p)'
        <4>1. Patches = {PATCHES[i] : i \in 1..4}
          BY <2>0 DEF Patches
        <4>2. Needed[project] \subseteq Patches
          BY <2>0, PatchFacts
        <4>3. \A i \in 1..4 : PATCHES[i] \in Needed[project] => Done(PATCHES[i])'
          BY <3>3, <3>4
        <4> QED
          BY <4>1, <4>2, <4>3
      <3>5. \A b \in settled' : \A p \in Needed[b] : Done(p)'
        BY <2>1, <3>1, <3>4
      <3>6. script' - 1 = script
        BY <2>0, <3>1
      <3> QED
        BY <2>0, <3>3, <3>5, <3>6 DEF SettledInv
    <2> QED
      BY <1>2, <2>3, <2>4 DEF ScriptSteps
  <1>3. CASE Flash
    BY <1>3 DEF Flash, SettledInv, running, Done, HasMarker, textVars
  <1>4. CASE UNCHANGED patchVars
    BY <1>4 DEF patchVars, textVars, SettledInv, running, Done, HasMarker
  <1> QED
    BY <1>1, <1>2, <1>3, <1>4 DEF PatchNext, ScriptSteps

(* The patcher keeps its invariant whatever the boards do.                  *)
LEMMA PatchInvariant == PathSpec => []PatchInv
  <1>1. PathInit => PatchInv
    BY InitPatch DEF PathInit
  <1>2. PatchInv /\ [PathNext]_pathVars => PatchInv'
    BY PathSteps, NextPatchTypes, NextApplied, NextSettled DEF PatchInv
  <1> QED
    BY <1>1, <1>2, PTL DEF PathSpec

(* Running the script again over files that it has been through, for this   *)
(* project or the other, whether it ends or is killed, changes none of     *)
(* them.                                                                   *)
THEOREM Rerun == PathSpec => RerunChangesNothing
  <1>1. ASSUME PatchInv, [PathNext]_pathVars, ~UNCHANGED patchVars,
               NEW b \in settled \cap settled', NEW p \in Needed[b]
        PROVE  applied'[p] = applied[p] /\ files'[FileOf[p]] = files[FileOf[p]]
    <2>1. PatchTypeOK /\ SettledInv /\ PatchNext /\ p \in Patches
      BY <1>1, PathSteps, PatchFacts DEF PatchInv, PatchTypeOK
    <2>2. CASE UNCHANGED textVars
      BY <2>2 DEF textVars
    <2>3. ASSUME NEW c \in Projects, Configure(c)
          PROVE  applied'[p] = applied[p] /\ files'[FileOf[p]] = files[FileOf[p]]
      BY <1>1, <2>1, <2>3, FetchIsElsewhere
    <2>4. CASE ScriptSteps
      <3>1. CASE /\ Writing
                 /\ applied' = [applied EXCEPT ![patch] = @ + 1]
                 /\ UNCHANGED files
        <4>1. p # patch /\ applied \in [Patches -> Nat]
          BY <1>1, <2>1, <2>4, <3>1, WriteIsElsewhere DEF PatchTypeOK
        <4> QED
          BY <2>1, <3>1, <4>1
      <3>2. CASE Writing /\ Wipe(Emptied)
        <4>1. FileOf[p] # FileOf[patch]
          BY <1>1, <2>1, <2>4, <3>2, WriteIsElsewhere
        <4> QED
          BY <2>1, <3>2, <4>1, EmptyFacts
      <3> QED
        BY <2>1, <2>2, <2>4, <3>1, <3>2, ScriptFacts
    <2>5. Flash => UNCHANGED textVars
      BY DEF Flash
    <2> QED
      BY <2>1, <2>2, <2>3, <2>4, <2>5 DEF PatchNext, ScriptSteps
  <1>2. PatchInv /\ [PathNext]_pathVars =>
          [\A b \in settled \cap settled' : \A p \in Needed[b] :
             applied'[p] = applied[p] /\ files'[FileOf[p]] = files[FileOf[p]]]_patchVars
    BY <1>1
  <1> QED
    BY <1>2, PatchInvariant, PTL DEF PathSpec, RerunChangesNothing

-----------------------------------------------------------------------------
(***************************************************************************)
(* The whole: what the build warns of, and what the boards then do.        *)
(***************************************************************************)

(* The fourth patch is the tag, and is for the console side's files.        *)
LEMMA TagFacts ==
  /\ PATCHES[4] = "tag" /\ "tag" \in Patches /\ Len(PATCHES) = 4
  /\ Needed["console"] = {"tag"} /\ FileOf["tag"] \in FilesOf("console")
  /\ "console" \in Projects
  <1>1. PATCHES[4] = "tag" /\ Len(PATCHES) = 4
    BY DEF PATCHES
  <1>2. "tag" \in Patches
    BY PatchFacts
  <1>3. Needed["console"] = {"tag"}
    BY DEF Needed
  <1>4. FileOf["tag"] \in FilesOf("console")
    BY <1>3 DEF FilesOf
  <1> QED
    BY <1>1, <1>2, <1>3, <1>4 DEF Projects

(* The script only comes to its end in silence by way of the last patch.    *)
LEMMA NextTagIsIn ==
  ASSUME PatchInv, TagIsIn, PatchNext
  PROVE  TagIsIn'
  <1>0. PatchTypeOK /\ applied \in [Patches -> Nat] /\ applied["tag"] <= 1
    BY TagFacts DEF PatchInv, PatchTypeOK, AppliedOnce
  <1>1. ASSUME NEW b \in Projects, Configure(b) PROVE TagIsIn'
    BY <1>1 DEF Configure, TagIsIn
  <1>2. CASE Killed \/ Flash
    BY <1>2 DEF Killed, Flash, TagIsIn
  <1>3. CASE AnchorMissing \/ ScriptDies
    <2>1. loud'
      BY <1>3 DEF AnchorMissing, ScriptDies
    <2> QED
      BY <2>1 DEF TagIsIn
  <1>4. CASE SkipPatch \/ ApplyPatch
    <2>1. script \in 1..4 /\ script' = script + 1 /\ UNCHANGED project
      BY <1>0, <1>4, ScriptFacts
      DEF ScriptSteps, SkipPatch, ApplyPatch, NextPatch
    <2>2. CASE script' # 5 \/ project # "console"
      BY <2>1, <2>2 DEF TagIsIn
    <2>3. CASE script' = 5 /\ project = "console"
      <3>1. script = 4
        BY <2>1, <2>3
      <3>2. patch = "tag"
        BY <3>1, TagFacts DEF patch
      <3>3. ASSUME SkipPatch, ~missed' PROVE applied'["tag"] = 1
        <4>1. HasMarker("tag") /\ UNCHANGED applied
          BY <2>3, <3>2, <3>3, TagFacts DEF SkipPatch, ours, inPlace, textVars
        <4>2. applied["tag"] > 0
          BY <4>1 DEF HasMarker
        <4> QED
          BY <1>0, <4>1, <4>2, TagFacts
      <3>4. ASSUME ApplyPatch PROVE applied'["tag"] = 1
        <4>1. /\ ~HasMarker("tag")
              /\ applied' = [applied EXCEPT !["tag"] = applied["tag"] + 1]
          BY <3>2, <3>4 DEF ApplyPatch, Writing
        <4>2. applied["tag"] = 0
          BY <1>0, <4>1, TagFacts DEF HasMarker
        <4> QED
          BY <1>0, <4>1, <4>2, TagFacts
      <3> QED
        BY <1>4, <3>3, <3>4 DEF TagIsIn
    <2> QED
      BY <2>2, <2>3
  <1> QED
    BY <1>1, <1>2, <1>3, <1>4 DEF PatchNext

(* A build of the console side that warns of nothing has the tag.           *)
LEMMA NextQuiet ==
  ASSUME PatchTypeOK, TagIsIn, PatchNext,
         firmware["console"][1] = "quiet" => firmware["console"][2]
  PROVE  firmware'["console"][1] = "quiet" => firmware'["console"][2]
  <1>1. CASE UNCHANGED firmware
    BY <1>1
  <1>2. CASE Flash
    <2>1. firmware \in [Projects -> Outcomes \X BOOLEAN]
      BY DEF PatchTypeOK
    <2>2. CASE project = "console"
      <3>1. firmware'["console"] = <<outcome,
                                     \A p \in Needed["console"] : applied[p] = 1>>
        BY <1>2, <2>1, <2>2, TagFacts DEF Flash
      <3>2. CASE loud \/ missed
        BY <3>1, <3>2 DEF outcome
      <3>3. CASE ~loud /\ ~missed
        <4>1. applied["tag"] = 1
          BY <1>2, <2>2, <3>3 DEF TagIsIn, Flash
        <4>2. \A p \in Needed["console"] : applied[p] = 1
          BY <4>1, TagFacts
        <4> QED
          BY <3>1, <4>2
      <3> QED
        BY <3>2, <3>3
    <2>3. CASE project # "console"
      BY <1>2, <2>1, <2>3, TagFacts DEF Flash
    <2> QED
      BY <2>2, <2>3
  <1> QED
    BY <1>1, <1>2
    DEF PatchNext, Configure, SkipPatch, AnchorMissing, ApplyPatch, ScriptDies, Killed,
        NextPatch

(* Every step of the whole keeps TagInv: nothing is built once the boards   *)
(* are in use.                                                             *)
LEMMA NextTag ==
  PatchInv /\ TagInv /\ [PathNext]_pathVars => TagInv'
  <1> SUFFICES ASSUME PatchInv, TagInv, [PathNext]_pathVars PROVE TagInv'
    OBVIOUS
  <1>0. PatchTypeOK /\ TagIsIn
    BY DEF PatchInv, TagInv
  <1>1. CASE Build
    <2>1. TagIsIn'
      BY <1>0, <1>1, NextTagIsIn DEF Build
    <2>2. firmware'["console"][1] = "quiet" => firmware'["console"][2]
      BY <1>0, <1>1, NextQuiet DEF Build, TagInv
    <2>3. ~misparsed'
      BY <1>1 DEF Build, TagInv
    <2> QED
      BY <2>1, <2>2, <2>3 DEF TagInv
  <1>2. CASE AudioReport
    BY <1>2 DEF AudioReport, TagInv, TagIsIn, inUse, patchVars, textVars
  <1>3. CASE PortalSide \/ UNCHANGED pathVars
    BY <1>3 DEF PortalSide, pathVars, TagInv, TagIsIn, inUse, patchVars,
                textVars
  <1> QED
    BY <1>1, <1>2, <1>3 DEF PathNext

(* Audio is handed over as a command only by firmware whose configuration   *)
(* has complained, or had the script not run or not find its file: where   *)
(* the script went over the file, its marker and anchor tests decide       *)
(* whether the tag is in, and whatever leaves it out is printed.           *)
THEOREM NotObeyed == PathSpec => []AudioNotObeyed
  <1>1. PathInit => TagInv
    BY DEF PathInit, PatchInit, TagInv, TagIsIn, Projects
  <1>2. PatchInv /\ TagInv => AudioNotObeyed
    <2> SUFFICES ASSUME PatchInv, TagInv, misparsed
                 PROVE  firmware["console"][1] \in {"loud", "unpatched"}
      BY DEF AudioNotObeyed
    <2>1. firmware["console"] \in Outcomes \X BOOLEAN
      BY TagFacts DEF PatchInv, PatchTypeOK
    <2>2. firmware["console"][1] \in Outcomes
      BY <2>1
    <2>3. firmware["console"][1] # "none"
      BY TagFacts DEF TagInv, inUse
    <2>4. firmware["console"][1] # "quiet"
      BY DEF TagInv
    <2> QED
      BY <2>2, <2>3, <2>4 DEF Outcomes
  <1> QED
    BY <1>1, <1>2, NextTag, PatchInvariant, PTL DEF PathSpec

(* Every variable of both parts keeps its type.                             *)
THEOREM PathTyping == PathSpec => []PathTypeOK
  <1>1. PathInit => misparsed \in BOOLEAN
    BY DEF PathInit
  <1>2. misparsed \in BOOLEAN /\ [PathNext]_pathVars => (misparsed \in BOOLEAN)'
    BY DEF PathNext, Build, AudioReport, PortalSide, pathVars
  <1>3. PatchInv /\ HostInv /\ misparsed \in BOOLEAN => PathTypeOK
    BY DEF PatchInv, HostInv, PathTypeOK
  <1> QED
    BY <1>1, <1>2, <1>3, HostInvariant, PatchInvariant, PTL DEF PathSpec

=============================================================================
