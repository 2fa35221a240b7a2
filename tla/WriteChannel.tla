---------------------------- MODULE WriteChannel ----------------------------
(***************************************************************************)
(* What the reliable write path promises to the game, with no queue, radio *)
(* frame or acknowledgement in sight (README.md, "Figure-corruption        *)
(* protection", point 2; the header comments of the two main.c files).     *)
(*                                                                         *)
(* Writes are numbered in the order the console side accepts them.  They   *)
(* are dealt with one at a time: the oldest unfinished one ends either     *)
(* acknowledged, and then the portal side has handled it, or given up.     *)
(* The portal side may handle a write several times, and may handle one    *)
(* that was given up, but it never goes back to an older write.            *)
(*                                                                         *)
(* The numbering lives in the console side's RAM: once that board has been *)
(* restarted all that is left of the promise is that nothing goes back.    *)
(***************************************************************************)
EXTENDS Integers

CONSTANT MaxWrites      \* number of writes the game makes in one run

VARIABLES
  trusted,              \* the console side has not been restarted
  accepted,             \* writes 1..accepted have been accepted
  finished,             \* writes 1..finished are over, one way or the other
  acked,                \* the finished writes that ended acknowledged
  handled,              \* the writes the portal side has handled at least once
  lastHandled           \* the write it handled most recently, 0 at first

channelVars == <<trusted, accepted, finished, acked, handled, lastHandled>>

ChannelInit ==
  /\ trusted = TRUE
  /\ accepted = 0
  /\ finished = 0
  /\ acked = {}
  /\ handled = {}
  /\ lastHandled = 0

Accept ==
  /\ trusted
  /\ accepted < MaxWrites
  /\ accepted' = accepted + 1
  /\ UNCHANGED <<trusted, finished, acked, handled, lastHandled>>

\* The portal side handles w: for the first time, or again after a retry.
Handle ==
  /\ trusted
  /\ \E w \in 1..accepted :
       /\ lastHandled <= w
       /\ w <= finished + 1
       /\ handled' = handled \cup {w}
       /\ lastHandled' = w
       /\ UNCHANGED <<trusted, accepted, finished, acked>>

Acknowledge ==
  /\ trusted
  /\ finished < accepted
  /\ finished + 1 \in handled
  /\ finished' = finished + 1
  /\ acked' = acked \cup {finished + 1}
  /\ UNCHANGED <<trusted, accepted, handled, lastHandled>>

GiveUp ==
  /\ trusted
  /\ finished < accepted
  /\ finished' = finished + 1
  /\ UNCHANGED <<trusted, accepted, acked, handled, lastHandled>>

\* The step of a restart of the console side, and every one after it.
AfterRestart ==
  /\ trusted' = FALSE
  /\ accepted' >= accepted
  /\ lastHandled' >= lastHandled
  /\ handled \subseteq handled'
  /\ acked \subseteq acked'

ChannelNext == Accept \/ Handle \/ Acknowledge \/ GiveUp \/ AfterRestart

\* Safety alone, and safety with the promise that no accepted write is
\* left unfinished for ever while the console side is not restarted.
ChannelSpec == ChannelInit /\ [][ChannelNext]_channelVars
LiveChannelSpec == ChannelSpec /\ WF_channelVars(Acknowledge \/ GiveUp)

=============================================================================
