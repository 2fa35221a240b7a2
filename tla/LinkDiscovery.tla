---------------------------- MODULE LinkDiscovery ----------------------------
(***************************************************************************)
(* How the boards find each other: esp_now_link.c, which both firmwares    *)
(* compile in identical copies (console-side/src and portal-side/src).     *)
(*                                                                         *)
(* link_task sends a HELLO over and over, as a broadcast while the board   *)
(* is looking for a peer and to the peer once it has one.  recv_cb, in the *)
(* Wi-Fi task, pairs with the sender of any HELLO of the other role.  The  *)
(* two tasks share s_linked, s_peer and s_last_rx_ms without a lock.       *)
(*                                                                         *)
(* s_last_rx_ms is modelled by the time since it was set, in ticks.  The   *)
(* radio loses frames, and boards are switched on and off at any moment.   *)
(* Neighbours are further boards in range that broadcast HELLOs as well;   *)
(* what they do with the frames sent to them is left out.                  *)
(* s_rx_q, filled by the end of recv_cb, is part of ReliableWrite.         *)
(***************************************************************************)
EXTENDS Integers

CONSTANTS
  Boards,               \* the boards that are modelled
  Neighbours,           \* other boards in range, on the same channel
  Consoles,             \* boards of LINK_ROLE_CONSOLE; the rest are portals
  NoBoard,
  LostAfter             \* LINK_LOST_MS, in ticks

ASSUME LinkDiscoveryAssumption ==
  /\ Boards \cap Neighbours = {}
  /\ Consoles \subseteq Boards \cup Neighbours
  /\ NoBoard \notin Boards \cup Neighbours
  /\ LostAfter \in Nat

InRange == Boards \cup Neighbours

OtherRole(b, x) == (b \in Consoles) # (x \in Consoles)

VARIABLES
  up,                   \* the board is switched on
  s_linked,
  s_peer,
  age,                  \* ticks since s_last_rx_ms was set
  linkPc,               \* link_task: "check", "clear" or "hello"
  rxPc,                 \* recv_cb: "idle", "new", "copy" or "link"
  sender                \* of the HELLO recv_cb was called with

vars == <<up, s_linked, s_peer, age, linkPc, rxPc, sender>>

(* One type invariant: every variable is in range.                         *)
TypeOK ==
  /\ up \in [InRange -> BOOLEAN]
  /\ s_linked \in [Boards -> BOOLEAN]
  /\ s_peer \in [Boards -> InRange \cup {NoBoard}]
  /\ age \in [Boards -> 0..(LostAfter + 1)]
  /\ linkPc \in [Boards -> {"check", "clear", "hello"}]
  /\ rxPc \in [Boards -> {"idle", "new", "copy", "link"}]
  /\ sender \in [Boards -> InRange \cup {NoBoard}]

Init ==
  /\ up = [b \in InRange |-> FALSE]
  /\ s_linked = [b \in Boards |-> FALSE]
  /\ s_peer = [b \in Boards |-> NoBoard]
  /\ age = [b \in Boards |-> 0]
  /\ linkPc = [b \in Boards |-> "check"]
  /\ rxPc = [b \in Boards |-> "idle"]
  /\ sender = [b \in Boards |-> NoBoard]

\* link_init has run: nothing of an earlier boot is left but in the other
\* board's memory.
PowerOn(b) ==
  /\ ~up[b]
  /\ up' = [up EXCEPT ![b] = TRUE]
  /\ UNCHANGED <<s_linked, s_peer, age, linkPc, rxPc, sender>>

PowerOff(b) ==
  /\ up[b]
  /\ up' = [up EXCEPT ![b] = FALSE]
  /\ s_linked' = [s_linked EXCEPT ![b] = FALSE]
  /\ s_peer' = [s_peer EXCEPT ![b] = NoBoard]
  /\ age' = [age EXCEPT ![b] = 0]
  /\ linkPc' = [linkPc EXCEPT ![b] = "check"]
  /\ rxPc' = [rxPc EXCEPT ![b] = "idle"]
  /\ sender' = [sender EXCEPT ![b] = NoBoard]

\* A neighbour comes or goes.
SwitchNeighbour(n) ==
  /\ up' = [up EXCEPT ![n] = ~@]
  /\ UNCHANGED <<s_linked, s_peer, age, linkPc, rxPc, sender>>

\* Faulty variant: the age is counted on.
RunawayTick(b) ==
  /\ up[b]
  /\ age' = [age EXCEPT ![b] = @ + 1]
  /\ UNCHANGED <<up, s_linked, s_peer, linkPc, rxPc, sender>>

\* Time passes; beyond LINK_LOST_MS it makes no difference.
Tick(b) ==
  /\ up[b]
  /\ age[b] <= LostAfter
  /\ age' = [age EXCEPT ![b] = @ + 1]
  /\ UNCHANGED <<up, s_linked, s_peer, linkPc, rxPc, sender>>

-----------------------------------------------------------------------------
(* link_task, and link_send by the other tasks. *)

\* Faulty variant: the test for a lost peer is missing.
TrustPeer(b) ==
  /\ up[b]
  /\ linkPc[b] = "check"
  /\ linkPc' = [linkPc EXCEPT ![b] = "hello"]
  /\ UNCHANGED <<up, s_linked, s_peer, age, rxPc, sender>>

CheckPeer(b) ==
  /\ up[b]
  /\ linkPc[b] = "check"
  /\ linkPc' = [linkPc EXCEPT ![b] =
                  IF s_linked[b] /\ age[b] > LostAfter THEN "clear" ELSE "hello"]
  /\ UNCHANGED <<up, s_linked, s_peer, age, rxPc, sender>>

\* Whatever recv_cb may have heard since the test.
PeerLost(b) ==
  /\ linkPc[b] = "clear"
  /\ s_linked' = [s_linked EXCEPT ![b] = FALSE]
  /\ linkPc' = [linkPc EXCEPT ![b] = "hello"]
  /\ UNCHANGED <<up, s_peer, age, rxPc, sender>>

\* The boards that can hear a frame for s_peer: none while recv_cb is copying
\* an address into it that esp_now_add_peer does not know yet.
AtPeer(b) == IF rxPc[b] = "copy" THEN {} ELSE {s_peer[b]}

\* Some of the boards a HELLO is addressed to hear it.
HelloHeard(from, addressed) ==
  \E heard \in SUBSET {x \in addressed \cap Boards : up[x] /\ rxPc[x] = "idle"} :
    /\ rxPc' = [x \in Boards |-> IF x \in heard THEN "new" ELSE rxPc[x]]
    /\ sender' = [x \in Boards |-> IF x \in heard THEN from ELSE sender[x]]

\* Keepalive or discovery.
SendHello(b) ==
  /\ linkPc[b] = "hello"
  /\ linkPc' = [linkPc EXCEPT ![b] = "check"]
  /\ HelloHeard(b, IF s_linked[b] THEN AtPeer(b) ELSE Boards \ {b})
  /\ UNCHANGED <<up, s_linked, s_peer, age>>

NeighbourHello(n) ==
  /\ up[n]
  /\ HelloHeard(n, Boards)
  /\ UNCHANGED <<up, s_linked, s_peer, age, linkPc>>

\* link_send of a tunnel frame or an ACK: all it does to the link, at the peer,
\* is to set s_last_rx_ms.
SendData(b) ==
  /\ up[b]
  /\ s_linked[b]
  /\ \E x \in AtPeer(b) \cap Boards : up[x] /\ age' = [age EXCEPT ![x] = 0]
  /\ UNCHANGED <<up, s_linked, s_peer, linkPc, rxPc, sender>>

-----------------------------------------------------------------------------
(* recv_cb. *)

\* Faulty variant: the role is not looked at.
PairWithAnyone(b) ==
  /\ rxPc[b] = "new"
  /\ age' = [age EXCEPT ![b] = 0]
  /\ IF (~s_linked[b] \/ s_peer[b] # sender[b])
     THEN /\ rxPc' = [rxPc EXCEPT ![b] = "copy"]
          /\ UNCHANGED sender
     ELSE /\ rxPc' = [rxPc EXCEPT ![b] = "idle"]
          /\ sender' = [sender EXCEPT ![b] = NoBoard]
  /\ UNCHANGED <<up, s_linked, s_peer, linkPc>>

\* Faulty variant: only a new address makes the board link again.
PairWithNewcomer(b) ==
  /\ rxPc[b] = "new"
  /\ age' = [age EXCEPT ![b] = 0]
  /\ IF OtherRole(b, sender[b]) /\ s_peer[b] # sender[b]
     THEN /\ rxPc' = [rxPc EXCEPT ![b] = "copy"]
          /\ UNCHANGED sender
     ELSE /\ rxPc' = [rxPc EXCEPT ![b] = "idle"]
          /\ sender' = [sender EXCEPT ![b] = NoBoard]
  /\ UNCHANGED <<up, s_linked, s_peer, linkPc>>

\* A HELLO of whatever board sets s_last_rx_ms; one of the other role makes its
\* sender the peer.
Hear(b) ==
  /\ rxPc[b] = "new"
  /\ age' = [age EXCEPT ![b] = 0]
  /\ IF /\ OtherRole(b, sender[b])
        /\ ~s_linked[b] \/ s_peer[b] # sender[b]
     THEN /\ rxPc' = [rxPc EXCEPT ![b] = "copy"]
          /\ UNCHANGED sender
     ELSE /\ rxPc' = [rxPc EXCEPT ![b] = "idle"]
          /\ sender' = [sender EXCEPT ![b] = NoBoard]
  /\ UNCHANGED <<up, s_linked, s_peer, linkPc>>

\* memcpy to s_peer and add_peer are done.
SetPeer(b) ==
  /\ rxPc[b] = "copy"
  /\ s_peer' = [s_peer EXCEPT ![b] = sender[b]]
  /\ rxPc' = [rxPc EXCEPT ![b] = "link"]
  /\ UNCHANGED <<up, s_linked, age, linkPc, sender>>

SetLinked(b) ==
  /\ rxPc[b] = "link"
  /\ s_linked' = [s_linked EXCEPT ![b] = TRUE]
  /\ rxPc' = [rxPc EXCEPT ![b] = "idle"]
  /\ sender' = [sender EXCEPT ![b] = NoBoard]
  /\ UNCHANGED <<up, s_peer, age, linkPc>>

-----------------------------------------------------------------------------
LinkTask(b) == CheckPeer(b) \/ PeerLost(b) \/ SendHello(b)

RecvCb(b) == Hear(b) \/ SetPeer(b) \/ SetLinked(b)

Next ==
  \/ \E b \in Boards : \/ PowerOn(b) \/ PowerOff(b) \/ Tick(b)
                       \/ LinkTask(b) \/ SendData(b) \/ RecvCb(b)
  \/ \E n \in Neighbours : SwitchNeighbour(n) \/ NeighbourHello(n)

Spec == Init /\ [][Next]_vars

\* A HELLO of b that x hears.
HelloReaches(b, x) == SendHello(b) /\ rxPc[x] = "idle" /\ rxPc'[x] = "new"

\* Time passes, and both tasks run: they have bounded waits.  Of the radio only
\* this is assumed: a HELLO sent again and again is heard some time.
FairSpec ==
  /\ Spec
  /\ \A b \in Boards : WF_vars(Tick(b)) /\ WF_vars(LinkTask(b)) /\ WF_vars(RecvCb(b))
  /\ \A b, x \in Boards : SF_vars(HelloReaches(b, x))

-----------------------------------------------------------------------------
(* Properties. *)

(* A linked board has a board of the other role as its peer, however its    *)
(* link_task and recv_cb take turns: two consoles never pair with each      *)
(* other (esp_now_link.c:57-66).                                           *)
LinkedToOtherRole ==
  \A b \in Boards :
    s_linked[b] => s_peer[b] \in InRange /\ OtherRole(b, s_peer[b])

\* From some time on these are the boards that are switched on.
FinallyUp(S) == <>[](\A x \in InRange : up[x] <=> x \in S)

(* "The link self-heals": boards that stay switched on are linked again and *)
(* again, whatever has been lost, whoever was restarted and whichever       *)
(* neighbour was the peer before, also when link_task clears s_linked for a *)
(* peer that has just been heard (esp_now_link.c:59-61, 95-104).           *)
LinkHeals == FinallyUp(Boards) => \A b \in Boards : []<>s_linked[b]

(* "If the peer goes quiet, it drops back to discovery": the last board     *)
(* that is switched on does not stay linked (esp_now_link.c:95-98).        *)
LinkDrops == \A b \in Boards : FinallyUp({b}) => <>[]~s_linked[b]

=============================================================================
