------------------------------ MODULE AudioPath ------------------------------
(***************************************************************************)
(* Both boards from the build on, as far as the audio and trap-light       *)
(* stream goes: the firmware is built from the patched components, then    *)
(* the console side tells audio from commands by the tag the patched       *)
(* TinyUSB gives it (the first branch of tud_hid_set_report_cb) and the    *)
(* portal side sends it with the call the patched HID driver has.          *)
(***************************************************************************)
EXTENDS TunnelHost, PatchComponents

VARIABLE misparsed      \* audio has been handed to the portal as a command

pathVars == <<vars, patchVars, misparsed>>

PathTypeOK == TypeOK /\ PatchTypeOK /\ misparsed \in BOOLEAN

PathInit == Init /\ PatchInit /\ misparsed = FALSE

inUse == \A b \in Projects : firmware[b][1] # "none"

\* Both boards are flashed for good before either is used.
Build == ~inUse /\ PatchNext /\ UNCHANGED <<vars, misparsed>>

\* The game sends a report to the OUT endpoint.  The tag sends it on a channel
\* of its own (lost on the way: no step); without it, it is a command.
AudioReport ==
  /\ inUse
  /\ IF firmware["console"][2]
     THEN ReceiveOutEp /\ UNCHANGED misparsed
     ELSE misparsed' = TRUE /\ UNCHANGED vars
  /\ UNCHANGED patchVars

SendOut == CallOutputReport \/ FillTransfer \/ SubmitTransfer

PortalSide ==
  /\ inUse
  /\ \/ DriverTask \/ SendOut \/ Plug \/ Unplug
     \/ \E h \in Handles : TransferEnds(h)
  /\ UNCHANGED <<patchVars, misparsed>>

PathNext == Build \/ AudioReport \/ PortalSide

\* The tasks of the portal side run, a call that has begun goes on, and the USB
\* host library gives every transfer back, at the latest when its portal is
\* unplugged.  Nothing is assumed of the builds or of the game.
PathSpec ==
  /\ PathInit /\ [][PathNext]_pathVars
  /\ WF_pathVars(PortalSide /\ DriverTask)
  /\ WF_pathVars(PortalSide /\ SendOut)
  /\ \A h \in Handles : WF_pathVars(PortalSide /\ TransferEnds(h))

-----------------------------------------------------------------------------
(* Audio reaches the portal as a command, where an audio byte may read as   *)
(* Activate-off (main.c:246-250), only by a console-side board whose        *)
(* configuration printed a warning or a traceback, had no Python for the    *)
(* script, or had the file at another path: a script that goes over the     *)
(* file and prints nothing has left the tag in it, whatever earlier runs    *)
(* had left there (patch_components.py:117-129).                           *)
AudioNotObeyed == misparsed => firmware["console"][1] \in {"loud", "unpatched"}

=============================================================================
