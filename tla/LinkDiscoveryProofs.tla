------------------------- MODULE LinkDiscoveryProofs -------------------------
(***************************************************************************)
(* Proofs about LinkDiscovery, for every set of boards and neighbours,     *)
(* every assignment of roles and every timeout.                            *)
(***************************************************************************)
EXTENDS LinkDiscovery, TLAPS

(***************************************************************************)
(* The inductive invariant.                                                *)
(***************************************************************************)

\* What recv_cb has established by the time it gets to a line: it works on the
\* HELLO of a board in range, of the other role once it has looked at it, and
\* that board is the peer before s_linked is set.
PairingInv ==
  \A b \in Boards :
    /\ rxPc[b] # "idle" => sender[b] \in InRange
    /\ rxPc[b] \in {"copy", "link"} => OtherRole(b, sender[b])
    /\ rxPc[b] = "link" => s_peer[b] = sender[b]

\* A board that is linked has a peer of the other role already, also while
\* recv_cb replaces that peer.
IInv == TypeOK /\ PairingInv /\ LinkedToOtherRole

-----------------------------------------------------------------------------
(***************************************************************************)
(* Types.                                                                  *)
(***************************************************************************)

(* No board is NoBoard, and a board that is modelled is in range.           *)
LEMMA BoardFacts ==
  /\ Boards \subseteq InRange
  /\ Neighbours \subseteq InRange
  /\ NoBoard \notin InRange
  BY LinkDiscoveryAssumption DEF InRange

(* A board that is off knows nobody.                                        *)
LEMMA InitTypeOK == Init => TypeOK
  <1> SUFFICES ASSUME Init PROVE TypeOK
    OBVIOUS
  <1>1. 0 \in 0..(LostAfter + 1)
    BY LinkDiscoveryAssumption
  <1> QED
    BY <1>1 DEF Init, TypeOK

(* Whoever hears a HELLO, recv_cb is called with a board in range, and only *)
(* where it was not running.                                               *)
LEMMA HelloFacts ==
  ASSUME TypeOK, NEW from \in InRange, NEW addressed, HelloHeard(from, addressed)
  PROVE  /\ rxPc' \in [Boards -> {"idle", "new", "copy", "link"}]
         /\ sender' \in [Boards -> InRange \cup {NoBoard}]
         /\ \A x \in Boards :
              \/ rxPc'[x] = rxPc[x] /\ sender'[x] = sender[x]
              \/ rxPc[x] = "idle" /\ rxPc'[x] = "new" /\ sender'[x] = from
  <1>1. PICK heard \in SUBSET {x \in addressed \cap Boards : up[x] /\ rxPc[x] = "idle"} :
          /\ rxPc' = [x \in Boards |-> IF x \in heard THEN "new" ELSE rxPc[x]]
          /\ sender' = [x \in Boards |-> IF x \in heard THEN from ELSE sender[x]]
    BY DEF HelloHeard
  <1> QED
    BY <1>1 DEF TypeOK

(* Every action keeps the types: age within the timeout, s_peer a board in  *)
(* range.                                                                  *)
LEMMA NextTypeOK == TypeOK /\ [Next]_vars => TypeOK'
  <1> SUFFICES ASSUME TypeOK, [Next]_vars PROVE TypeOK'
    OBVIOUS
  <1>0. 0 \in 0..(LostAfter + 1)
    BY LinkDiscoveryAssumption
  <1>1. ASSUME NEW b \in Boards, PowerOn(b) PROVE TypeOK'
    BY <1>1, BoardFacts DEF PowerOn, TypeOK
  <1>2. ASSUME NEW b \in Boards, PowerOff(b) PROVE TypeOK'
    BY <1>0, <1>2, BoardFacts DEF PowerOff, TypeOK
  <1>3. ASSUME NEW b \in Boards, Tick(b) PROVE TypeOK'
    <2>1. age[b] + 1 \in 0..(LostAfter + 1)
      BY <1>3, LinkDiscoveryAssumption DEF Tick, TypeOK
    <2> QED
      BY <1>3, <2>1 DEF Tick, TypeOK
  <1>4. ASSUME NEW b \in Boards, CheckPeer(b) PROVE TypeOK'
    BY <1>4 DEF CheckPeer, TypeOK
  <1>5. ASSUME NEW b \in Boards, PeerLost(b) PROVE TypeOK'
    BY <1>5 DEF PeerLost, TypeOK
  <1>6. ASSUME NEW b \in Boards, SendHello(b) PROVE TypeOK'
    <2>1. /\ rxPc' \in [Boards -> {"idle", "new", "copy", "link"}]
          /\ sender' \in [Boards -> InRange \cup {NoBoard}]
      BY <1>6, BoardFacts, HelloFacts DEF SendHello
    <2> QED
      BY <1>6, <2>1 DEF SendHello, TypeOK
  <1>7. ASSUME NEW b \in Boards, SendData(b) PROVE TypeOK'
    BY <1>0, <1>7 DEF SendData, TypeOK
  <1>8. ASSUME NEW b \in Boards, Hear(b) PROVE TypeOK'
    BY <1>0, <1>8 DEF Hear, TypeOK
  <1>9. ASSUME NEW b \in Boards, SetPeer(b) PROVE TypeOK'
    BY <1>9 DEF SetPeer, TypeOK
  <1>10. ASSUME NEW b \in Boards, SetLinked(b) PROVE TypeOK'
    BY <1>10 DEF SetLinked, TypeOK
  <1>11. ASSUME NEW n \in Neighbours, SwitchNeighbour(n) PROVE TypeOK'
    BY <1>11, BoardFacts DEF SwitchNeighbour, TypeOK
  <1>12. ASSUME NEW n \in Neighbours, NeighbourHello(n) PROVE TypeOK'
    <2>1. /\ rxPc' \in [Boards -> {"idle", "new", "copy", "link"}]
          /\ sender' \in [Boards -> InRange \cup {NoBoard}]
      BY <1>12, BoardFacts, HelloFacts DEF NeighbourHello
    <2> QED
      BY <1>12, <2>1 DEF NeighbourHello, TypeOK
  <1>13. CASE UNCHANGED vars
    BY <1>13 DEF vars, TypeOK
  <1> QED
    BY <1>1, <1>2, <1>3, <1>4, <1>5, <1>6, <1>7, <1>8, <1>9, <1>10, <1>11,
       <1>12, <1>13
    DEF Next, LinkTask, RecvCb

(* Every variable stays in range: s_last_rx_ms is never further back than   *)
(* one tick beyond the timeout, and a peer is a board in range.            *)
THEOREM Typing == Spec => []TypeOK
  BY InitTypeOK, NextTypeOK, PTL DEF Spec

-----------------------------------------------------------------------------
(***************************************************************************)
(* Pairing.                                                                *)
(***************************************************************************)

(* Nor is it linked to anybody.                                             *)
LEMMA InitPairing == Init => PairingInv /\ LinkedToOtherRole
  BY DEF Init, PairingInv, LinkedToOtherRole

(* Hearing a HELLO starts recv_cb and leaves it alone where it is running.  *)
LEMMA HelloPairing ==
  ASSUME IInv, NEW from \in InRange, NEW addressed, HelloHeard(from, addressed),
         UNCHANGED <<s_linked, s_peer>>
  PROVE  PairingInv' /\ LinkedToOtherRole'
  <1>1. \A x \in Boards :
          \/ rxPc'[x] = rxPc[x] /\ sender'[x] = sender[x]
          \/ rxPc[x] = "idle" /\ rxPc'[x] = "new" /\ sender'[x] = from
    BY HelloFacts DEF IInv
  <1> QED
    BY <1>1 DEF IInv, PairingInv, LinkedToOtherRole

(* Every action keeps what recv_cb has established, whatever link_task does *)
(* to s_linked in between.                                                 *)
LEMMA NextPairing == IInv /\ [Next]_vars => PairingInv' /\ LinkedToOtherRole'
  <1> SUFFICES ASSUME IInv, [Next]_vars PROVE PairingInv' /\ LinkedToOtherRole'
    OBVIOUS
  <1>0. /\ TypeOK /\ PairingInv /\ LinkedToOtherRole
        /\ s_linked \in [Boards -> BOOLEAN]
        /\ s_peer \in [Boards -> InRange \cup {NoBoard}]
        /\ rxPc \in [Boards -> {"idle", "new", "copy", "link"}]
        /\ sender \in [Boards -> InRange \cup {NoBoard}]
    BY DEF IInv, TypeOK
  <1>1. CASE UNCHANGED <<s_linked, s_peer, rxPc, sender>>
    BY <1>0, <1>1 DEF PairingInv, LinkedToOtherRole
  <1>2. ASSUME NEW b \in Boards, PowerOff(b)
        PROVE  PairingInv' /\ LinkedToOtherRole'
    BY <1>0, <1>2 DEF PowerOff, PairingInv, LinkedToOtherRole
  <1>3. ASSUME NEW b \in Boards, PeerLost(b)
        PROVE  PairingInv' /\ LinkedToOtherRole'
    BY <1>0, <1>3 DEF PeerLost, PairingInv, LinkedToOtherRole
  <1>4. ASSUME NEW b \in Boards, SendHello(b)
        PROVE  PairingInv' /\ LinkedToOtherRole'
    BY <1>4, BoardFacts, HelloPairing DEF SendHello
  <1>5. ASSUME NEW n \in Neighbours, NeighbourHello(n)
        PROVE  PairingInv' /\ LinkedToOtherRole'
    BY <1>5, BoardFacts, HelloPairing DEF NeighbourHello
  <1>6. ASSUME NEW b \in Boards, Hear(b)
        PROVE  PairingInv' /\ LinkedToOtherRole'
    BY <1>0, <1>6 DEF Hear, PairingInv, LinkedToOtherRole
  <1>7. ASSUME NEW b \in Boards, SetPeer(b)
        PROVE  PairingInv' /\ LinkedToOtherRole'
    <2>1. sender[b] \in InRange /\ OtherRole(b, sender[b])
      BY <1>0, <1>7 DEF SetPeer, PairingInv
    <2>2. PairingInv'
      BY <1>0, <1>7, <2>1 DEF SetPeer, PairingInv
    <2>3. LinkedToOtherRole'
      BY <1>0, <1>7, <2>1 DEF SetPeer, LinkedToOtherRole
    <2> QED
      BY <2>2, <2>3
  <1>8. ASSUME NEW b \in Boards, SetLinked(b)
        PROVE  PairingInv' /\ LinkedToOtherRole'
    <2>1. s_peer[b] \in InRange /\ OtherRole(b, s_peer[b])
      BY <1>0, <1>8 DEF SetLinked, PairingInv
    <2>2. PairingInv'
      BY <1>0, <1>8 DEF SetLinked, PairingInv
    <2>3. LinkedToOtherRole'
      BY <1>0, <1>8, <2>1 DEF SetLinked, LinkedToOtherRole
    <2> QED
      BY <2>2, <2>3
  <1>9. ASSUME NEW b \in Boards, PowerOn(b) \/ Tick(b) \/ CheckPeer(b) \/ SendData(b)
        PROVE  PairingInv' /\ LinkedToOtherRole'
    BY <1>1, <1>9 DEF PowerOn, Tick, CheckPeer, SendData
  <1>10. ASSUME NEW n \in Neighbours, SwitchNeighbour(n)
         PROVE  PairingInv' /\ LinkedToOtherRole'
    BY <1>1, <1>10 DEF SwitchNeighbour
  <1>11. CASE UNCHANGED vars
    BY <1>1, <1>11 DEF vars
  <1> QED
    BY <1>2, <1>3, <1>4, <1>5, <1>6, <1>7, <1>8, <1>9, <1>10, <1>11
    DEF Next, LinkTask, RecvCb

(* A linked board has a board of the other role as its peer, whatever other *)
(* boards are in range and whenever any of them restarts.                  *)
THEOREM OtherRoles == Spec => []LinkedToOtherRole
  <1>1. Init => IInv
    BY InitTypeOK, InitPairing DEF IInv
  <1>2. IInv /\ [Next]_vars => IInv'
    BY NextTypeOK, NextPairing DEF IInv
  <1>3. IInv => LinkedToOtherRole
    BY DEF IInv
  <1> QED
    BY <1>1, <1>2, <1>3, PTL DEF Spec

=============================================================================
