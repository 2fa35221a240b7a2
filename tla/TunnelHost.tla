------------------------------ MODULE TunnelHost ------------------------------
(***************************************************************************)
(* The portal-side board as USB host of the real portal: tunnel_host.c,    *)
(* and the interrupt OUT transfer that shared/patch_components.py adds to  *)
(* the HID host driver (hid_host_device_output_report, out_xfer_done).     *)
(*                                                                         *)
(* The driver's background task runs device_cb, iface_cb and the callbacks *)
(* of transfers, one at a time.  rx_task sends audio and light reports     *)
(* (tunnel_host_send_out) meanwhile; the portal is plugged in and out.     *)
(*                                                                         *)
(* The driver knows the portal by a handle, and hands the same one out     *)
(* again after a portal is gone, but not while a call with it goes on:     *)
(* what rx_task does to an interface freed during its call is left out.    *)
(* Control transfers (tunnel_host_send) have no state of their own here:   *)
(* they succeed or fail, see ReliableWrite and FigureBackup.               *)
(***************************************************************************)
EXTENDS Integers

CONSTANTS
  Handles,              \* what the driver may call a portal
  NULL

ASSUME TunnelHostAssumption == NULL \notin Handles

VARIABLES
  s_dev,
  s_connected,
  \* the driver and the portal
  plugged,              \* the portal is plugged in
  listed,               \* its handle, or NULL
  opened,               \* hid_host_device_open has succeeded
  hostPc,               \* driver's task: "idle", "open", "start", "publish" (in
                        \* device_cb), "close" (in iface_cb)
  failed,               \* open or start has failed for the listed portal
  \* the interface's OUT transfer
  out_xfer,             \* it is allocated
  out_busy,
  transfer,             \* where it is: "home", "bus" or "back" (completed, the
                        \* callback is still to come)
  \* rx_task
  rxPc,                 \* "idle", "call", "fill" or "submit"
  rxDev                 \* the interface it works on

hostVars == <<s_dev, s_connected>>
driverVars == <<plugged, listed, opened, hostPc, failed>>
outVars == <<out_xfer, out_busy, transfer>>
rxVars == <<rxPc, rxDev>>

vars == <<hostVars, driverVars, outVars, rxVars>>

(* One type invariant: every variable is in range.                         *)
TypeOK ==
  /\ s_dev \in Handles \cup {NULL}
  /\ s_connected \in BOOLEAN
  /\ plugged \in BOOLEAN
  /\ listed \in Handles \cup {NULL}
  /\ opened \in BOOLEAN
  /\ hostPc \in {"idle", "open", "start", "publish", "close"}
  /\ failed \in BOOLEAN
  /\ out_xfer \in [Handles -> BOOLEAN]
  /\ out_busy \in [Handles -> BOOLEAN]
  /\ transfer \in [Handles -> {"home", "bus", "back"}]
  /\ \A h \in Handles : ~out_xfer[h] => ~out_busy[h] /\ transfer[h] = "home"
  /\ rxPc \in {"idle", "call", "fill", "submit"}
  /\ rxDev \in Handles \cup {NULL}

Init ==
  /\ s_dev = NULL
  /\ s_connected = FALSE
  /\ plugged = FALSE
  /\ listed = NULL
  /\ opened = FALSE
  /\ hostPc = "idle"
  /\ failed = FALSE
  /\ out_xfer = [h \in Handles |-> FALSE]
  /\ out_busy = [h \in Handles |-> FALSE]
  /\ transfer = [h \in Handles |-> "home"]
  /\ rxPc = "idle"
  /\ rxDev = NULL

-----------------------------------------------------------------------------
(* The driver's task, and the portal. *)

\* The driver finds a portal and calls device_cb.
Plug ==
  /\ hostPc = "idle"
  /\ listed = NULL
  /\ plugged' = TRUE
  /\ \E h \in Handles \ {rxDev} :
       /\ listed' = h
       /\ out_xfer' = [out_xfer EXCEPT ![h] = FALSE]
       /\ out_busy' = [out_busy EXCEPT ![h] = FALSE]
  /\ opened' = FALSE
  /\ failed' = FALSE
  /\ hostPc' = "open"
  /\ UNCHANGED <<hostVars, transfer, rxVars>>

Unplug ==
  /\ plugged
  /\ plugged' = FALSE
  /\ UNCHANGED <<hostVars, listed, opened, hostPc, failed, outVars, rxVars>>

OpenDevice ==
  /\ hostPc = "open"
  /\ \/ hostPc' = "start" /\ opened' = TRUE /\ UNCHANGED failed
     \/ hostPc' = "idle" /\ failed' = TRUE /\ UNCHANGED opened
  /\ UNCHANGED <<hostVars, plugged, listed, outVars, rxVars>>

StartDevice ==
  /\ hostPc = "start"
  /\ \/ hostPc' = "publish" /\ UNCHANGED failed
     \/ hostPc' = "idle" /\ failed' = TRUE
  /\ UNCHANGED <<hostVars, plugged, listed, opened, outVars, rxVars>>

PublishDevice ==
  /\ hostPc = "publish"
  /\ s_dev' = listed
  /\ s_connected' = TRUE
  /\ hostPc' = "idle"
  /\ UNCHANGED <<plugged, listed, opened, failed, outVars, rxVars>>

\* Faulty variant: the handle is kept.
KeepHandle ==
  /\ hostPc = "idle"
  /\ listed # NULL
  /\ ~plugged
  /\ transfer[listed] = "home"
  /\ s_connected' = FALSE
  /\ hostPc' = "close"
  /\ UNCHANGED <<s_dev, plugged, listed, opened, failed, outVars, rxVars>>

\* The portal is gone: iface_cb, if the interface was opened.  The USB host
\* library has returned all transfers of the device before.
Disconnected ==
  /\ hostPc = "idle"
  /\ listed # NULL
  /\ ~plugged
  /\ transfer[listed] = "home"
  /\ IF opened THEN s_connected' = FALSE /\ s_dev' = NULL
               ELSE UNCHANGED hostVars
  /\ hostPc' = "close"
  /\ UNCHANGED <<plugged, listed, opened, failed, outVars, rxVars>>

\* hid_host_device_close, at once.  out_xfer is not freed, its last reference
\* goes.
CloseDevice ==
  /\ hostPc = "close"
  /\ listed' = NULL
  /\ opened' = FALSE
  /\ failed' = FALSE
  /\ hostPc' = "idle"
  /\ UNCHANGED <<hostVars, plugged, outVars, rxVars>>

\* The transfer has ended: done, failed or timed out.
TransferEnds(h) ==
  /\ transfer[h] = "bus"
  /\ transfer' = [transfer EXCEPT ![h] = "back"]
  /\ UNCHANGED <<hostVars, driverVars, out_xfer, out_busy, rxVars>>

\* Its callback, between the other callbacks of the driver's task.
out_xfer_done(h) ==
  /\ hostPc = "idle"
  /\ transfer[h] = "back"
  /\ transfer' = [transfer EXCEPT ![h] = "home"]
  /\ out_busy' = [out_busy EXCEPT ![h] = FALSE]
  /\ UNCHANGED <<hostVars, driverVars, out_xfer, rxVars>>

-----------------------------------------------------------------------------
(* rx_task: LINK_T_TUN_OUTEP. *)

\* tunnel_host_send_out finds s_dev set; otherwise the report is dropped.
ReceiveOutEp ==
  /\ rxPc = "idle"
  /\ s_dev # NULL
  /\ rxPc' = "call"
  /\ UNCHANGED <<hostVars, driverVars, outVars, rxDev>>

RxDone == rxPc' = "idle" /\ rxDev' = NULL

\* Faulty variant: a transfer on its way is not noticed.
OverwriteTransfer ==
  /\ rxPc = "call"
  /\ IF s_dev = NULL \/ s_dev # listed
     THEN RxDone /\ UNCHANGED out_xfer
     ELSE /\ rxPc' = "fill"
          /\ rxDev' = s_dev
          /\ out_xfer' = [out_xfer EXCEPT ![s_dev] = TRUE]
  /\ UNCHANGED <<hostVars, driverVars, out_busy, transfer>>

\* Faulty variant: a failed allocation is not noticed.
IgnoreNoMemory ==
  /\ rxPc = "call"
  /\ IF s_dev = listed /\ s_dev # NULL /\ ~out_busy[s_dev]
     THEN /\ rxPc' = "fill"
          /\ rxDev' = s_dev
          /\ out_xfer' \in {out_xfer, [out_xfer EXCEPT ![s_dev] = TRUE]}
     ELSE RxDone /\ UNCHANGED out_xfer
  /\ UNCHANGED <<hostVars, driverVars, out_busy, transfer>>

\* s_dev is read again and looked up; the transfer is allocated for the first
\* report, if memory allows.  A report that comes while the last one is on its
\* way is dropped, and so is one that is empty or too long.
CallOutputReport ==
  /\ rxPc = "call"
  /\ \/ /\ s_dev = listed /\ s_dev # NULL
        /\ ~out_busy[s_dev]
        /\ rxPc' = "fill"
        /\ rxDev' = s_dev
        /\ out_xfer' = [out_xfer EXCEPT ![s_dev] = TRUE]
     \/ RxDone /\ UNCHANGED out_xfer
  /\ UNCHANGED <<hostVars, driverVars, out_busy, transfer>>

\* The report is in the transfer's buffer.
FillTransfer ==
  /\ rxPc = "fill"
  /\ out_busy' = [out_busy EXCEPT ![rxDev] = (rxDev = listed)]
  /\ rxPc' = "submit"
  /\ UNCHANGED <<hostVars, driverVars, out_xfer, transfer, rxDev>>

\* Faulty variant: the flag is set when the submission has succeeded.
SubmitThenMark ==
  \/ /\ rxPc = "submit"
     /\ \/ /\ plugged /\ rxDev = listed
           /\ transfer' = [transfer EXCEPT ![rxDev] = "bus"]
           /\ rxPc' = "mark"
           /\ UNCHANGED rxDev
        \/ RxDone /\ UNCHANGED transfer
     /\ out_busy' = [out_busy EXCEPT ![rxDev] = FALSE]
     /\ UNCHANGED <<hostVars, driverVars, out_xfer>>
  \/ /\ rxPc = "mark"
     /\ out_busy' = [out_busy EXCEPT ![rxDev] = TRUE]
     /\ RxDone
     /\ UNCHANGED <<hostVars, driverVars, out_xfer, transfer>>

\* usb_host_transfer_submit; it fails at any time, and always for a portal
\* that is gone.
SubmitTransfer ==
  /\ rxPc = "submit"
  /\ \/ /\ plugged /\ rxDev = listed
        /\ transfer' = [transfer EXCEPT ![rxDev] = "bus"]
        /\ UNCHANGED out_busy
     \/ /\ out_busy' = [out_busy EXCEPT ![rxDev] = FALSE]
        /\ UNCHANGED transfer
  /\ RxDone
  /\ UNCHANGED <<hostVars, driverVars, out_xfer>>

-----------------------------------------------------------------------------
DriverTask ==
  \/ OpenDevice \/ StartDevice \/ PublishDevice \/ Disconnected \/ CloseDevice
  \/ \E h \in Handles : out_xfer_done(h)

RxTask == ReceiveOutEp \/ CallOutputReport \/ FillTransfer \/ SubmitTransfer

Next ==
  \/ DriverTask \/ RxTask \/ Plug \/ Unplug
  \/ \E h \in Handles : TransferEnds(h)

Spec == Init /\ [][Next]_vars

-----------------------------------------------------------------------------
(* Properties. *)

(* Between its callbacks the driver's task leaves s_dev and s_connected as  *)
(* they should be: the portal that is plugged in is known unless it could   *)
(* not be opened, and a portal that is gone is forgotten, so that nothing   *)
(* is sent to a handle the driver has given to nobody or to another portal  *)
(* (tunnel_host.c:31-35, 42-47).                                           *)
DeviceIsKnown ==
  hostPc = "idle" =>
    /\ listed = NULL => s_dev = NULL /\ ~s_connected
    /\ listed # NULL => IF failed THEN s_dev = NULL ELSE s_dev = listed /\ s_connected

(* A report is not copied over one that is still on its way to the portal   *)
(* (patch_components.py:61-64).                                            *)
BufferIntact == rxPc = "fill" => transfer[rxDev] = "home"

(* The audio path is never busy for good, however the completion of a       *)
(* transfer, a failed submission and an unplugged portal fall together with *)
(* rx_task's use of out_busy (patch_components.py:41, 71-73).            *)
AudioGoesOn == \A h \in Handles : out_busy[h] ~> ~out_busy[h]

=============================================================================
