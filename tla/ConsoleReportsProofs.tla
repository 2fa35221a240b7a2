------------------------ MODULE ConsoleReportsProofs ------------------------
(***************************************************************************)
(* Proofs about ConsoleReports, for every queue length, number of attempts *)
(* and number of reports, commands and connections.                        *)
(***************************************************************************)
EXTENDS ConsoleReports, SequenceTheorems, TLAPS

(***************************************************************************)
(* The inductive invariant.                                                *)
(***************************************************************************)

\* Nobody but a console that has connected sends a command.
SessionInv == mounted \/ usbPc = "copy" => session > 0

TypeInv == TypeOK /\ SessionInv

\* Of two items of the kinds K, the first was made first.
Ahead(K, x, y) == x.kind \in K /\ y.kind \in K => x.no < y.no

\* The items of the kinds K on their way, nearest the game first: in the
\* endpoint (ep), with tx_task (tx), in the queue (q), with their producer
\* (push).  They are in the order they were made in, later than those the game
\* has had (past), and none is later than the last one made (made).
Line(K, past, ep, tx, q, push, made) ==
  /\ \A i, j \in 1..Len(q) : i < j => Ahead(K, q[i], q[j])
  /\ \A i \in 1..Len(q) :
       /\ Ahead(K, ep, q[i])
       /\ Ahead(K, tx, q[i])
       /\ Ahead(K, q[i], push)
       /\ q[i].kind \in K => q[i].no <= made /\ \A n \in past : n < q[i].no
  /\ Ahead(K, ep, tx) /\ Ahead(K, ep, push) /\ Ahead(K, tx, push)
  /\ \A x \in {ep, tx, push} :
       x.kind \in K => x.no <= made /\ \A n \in past : n < x.no
  /\ \A n \in past : n <= made
  /\ push # NoItem => push.kind \in K

ReportLine ==
  Line(PortalReports, {got}, inEp, txItem, s_in_q, pushing["rx"], reports)

AnsweredSet == {c \in 1..MaxCommands : answered[c] # 0}

AnswerLine ==
  Line(Answers, AnsweredSet, inEp, txItem, s_in_q, pushing["usb"],
       IF usbPc = "copy" THEN commands - 1 ELSE commands)

\* A producer has an item in its hands exactly while it is in push_in.
PushInv == \A p \in Producers : pushPc[p] = "idle" <=> pushing[p] = NoItem

LineInv ==
  /\ ReportLine
  /\ AnswerLine
  /\ PushInv
  /\ usbPc = "copy" => command.no = commands

\* All the items on their way.
Held == {inEp, txItem, pushing["rx"], pushing["usb"]}
          \cup {s_in_q[i] : i \in 1..Len(s_in_q)}

\* While the console is connected, an open gate and a Status report that it let
\* through mean that the console has switched the portal on.
GateInv ==
  /\ \A x \in Held : /\ x.session <= session
                     /\ x.kind = "S" /\ x.session = session /\ mounted => activated
  /\ s_console_active /\ mounted => activated
  /\ mounted \/ inEp = NoItem

\* TinyUSB's task is never overtaken by a connection, which is its own doing.
StaleInv ==
  /\ pushing["usb"] # NoItem => pushing["usb"].session = session
  /\ OneStaleToTake

(***************************************************************************)
(* Items.                                                                  *)
(***************************************************************************)

(* The kinds of an item and its numbers.                                    *)
LEMMA ItemFacts ==
  /\ \A x \in Items : /\ x.kind \in PortalReports \cup Answers
                      /\ x.no \in Nat \ {0}
                      /\ x.session \in 0..MaxSessions
                      /\ x # NoItem
  /\ NoItem.kind = "none" /\ NoItem.no = 0 /\ NoItem.session = 0
  BY ConsoleReportsAssumption DEF Items, NoItem, PortalReports, Answers

(* Every item and NoItem has a number.                                      *)
LEMMA ItemNumber == \A x \in Items \cup {NoItem} : x.no \in Nat
  <1>1. \A x \in Items : x.no \in Nat
    BY ItemFacts
  <1>2. NoItem.no \in Nat
    BY ItemFacts
  <1> QED
    BY <1>1, <1>2

(* The two producers make different kinds of items.                         *)
LEMMA KindFacts ==
  /\ PortalReports \cap Answers = {}
  /\ "none" \notin PortalReports \cup Answers
  BY DEF PortalReports, Answers

(***************************************************************************)
(* What the moves of an item do to the line it stands in.                  *)
(***************************************************************************)

(* What the lemmas below say of the pieces of a line.                       *)
LinePieces(K, past, ep, tx, q, push, made) ==
  /\ "none" \notin K
  /\ past \subseteq Nat
  /\ ep \in Items \cup {NoItem}
  /\ tx \in Items \cup {NoItem}
  /\ push \in Items \cup {NoItem}
  /\ q \in Seq(Items)
  /\ made \in Nat

(* push_in puts the producer's item at the end of the queue.                *)
LEMMA LineQueued ==
  ASSUME NEW K, NEW past, NEW ep, NEW tx, NEW q, NEW push, NEW made,
         LinePieces(K, past, ep, tx, q, push, made), push # NoItem,
         Line(K, past, ep, tx, q, push, made)
  PROVE  Line(K, past, ep, tx, Append(q, push), NoItem, made)
  <1> DEFINE r == Append(q, push)
  <1>1. /\ Len(q) \in Nat
        /\ Len(r) = Len(q) + 1
        /\ \A i \in 1..Len(q) : r[i] = q[i]
        /\ r[Len(q) + 1] = push
    BY AppendProperties, LenProperties DEF LinePieces
  <1> HIDE DEF r
  <1>2. NoItem.kind \notin K
    BY ItemFacts DEF LinePieces
  <1>3. \A i \in 1..Len(r) : i \in 1..Len(q) \/ i = Len(q) + 1
    BY <1>1
  <1>4. \A i, j \in 1..Len(r) : i < j => Ahead(K, r[i], r[j])
    <2> SUFFICES ASSUME NEW i \in 1..Len(r), NEW j \in 1..Len(r), i < j
                 PROVE  Ahead(K, r[i], r[j])
      OBVIOUS
    <2>1. i \in 1..Len(q) /\ r[i] = q[i]
      BY <1>1
    <2>2. CASE j \in 1..Len(q)
      BY <1>1, <2>1, <2>2 DEF Line
    <2>3. CASE j = Len(q) + 1
      BY <1>1, <2>1, <2>3 DEF Line
    <2> QED
      BY <1>3, <2>2, <2>3
  <1>5. \A i \in 1..Len(r) :
          /\ Ahead(K, ep, r[i])
          /\ Ahead(K, tx, r[i])
          /\ Ahead(K, r[i], NoItem)
          /\ r[i].kind \in K => r[i].no <= made /\ \A n \in past : n < r[i].no
    BY <1>1, <1>2, <1>3 DEF Line, Ahead
  <1> QED
    BY <1>2, <1>4, <1>5 DEF Line, Ahead, r

(* push_in puts an item of the other producer at the end of the queue.      *)
LEMMA LineOther ==
  ASSUME NEW K, NEW past, NEW ep, NEW tx, NEW q, NEW push, NEW made,
         LinePieces(K, past, ep, tx, q, push, made),
         Line(K, past, ep, tx, q, push, made),
         NEW x \in Items, x.kind \notin K
  PROVE  Line(K, past, ep, tx, Append(q, x), push, made)
  <1> DEFINE r == Append(q, x)
  <1>1. /\ Len(q) \in Nat
        /\ Len(r) = Len(q) + 1
        /\ \A i \in 1..Len(q) : r[i] = q[i]
        /\ r[Len(q) + 1] = x
    BY AppendProperties, LenProperties DEF LinePieces
  <1> HIDE DEF r
  <1>2. \A i \in 1..Len(r) : i \in 1..Len(q) \/ i = Len(q) + 1
    BY <1>1
  <1>3. \A i, j \in 1..Len(r) : i < j => Ahead(K, r[i], r[j])
    BY <1>1, <1>2 DEF Line, Ahead
  <1>4. \A i \in 1..Len(r) :
          /\ Ahead(K, ep, r[i])
          /\ Ahead(K, tx, r[i])
          /\ Ahead(K, r[i], push)
          /\ r[i].kind \in K => r[i].no <= made /\ \A n \in past : n < r[i].no
    BY <1>1, <1>2 DEF Line, Ahead
  <1> QED
    BY <1>3, <1>4 DEF Line, r

(* push_in drops the oldest item, or the callbacks of a connection drop all. *)
LEMMA LineDropped ==
  ASSUME NEW K, NEW past, NEW ep, NEW tx, NEW q, NEW push, NEW made,
         LinePieces(K, past, ep, tx, q, push, made),
         Line(K, past, ep, tx, q, push, made)
  PROVE  /\ q # <<>> => Line(K, past, ep, tx, Tail(q), push, made)
         /\ Line(K, past, ep, tx, <<>>, push, made)
  <1>1. ASSUME q # <<>>
        PROVE  Line(K, past, ep, tx, Tail(q), push, made)
    <2> DEFINE r == Tail(q)
    <2>1. /\ Len(q) \in Nat
          /\ Len(r) = Len(q) - 1
          /\ \A i \in 1..Len(r) : r[i] = q[i + 1]
      BY <1>1, HeadTailProperties, LenProperties DEF LinePieces
    <2> HIDE DEF r
    <2>2. \A i \in 1..Len(r) : i + 1 \in 1..Len(q) /\ r[i] = q[i + 1]
      BY <2>1
    <2>3. \A i, j \in 1..Len(r) : i < j => Ahead(K, r[i], r[j])
      BY <2>1, <2>2 DEF Line
    <2> QED
      BY <2>2, <2>3 DEF Line, r
  <1>2. Line(K, past, ep, tx, <<>>, push, made)
    BY DEF Line
  <1> QED
    BY <1>1, <1>2

(* tx_task takes the oldest item off the queue.                             *)
LEMMA LineTaken ==
  ASSUME NEW K, NEW past, NEW ep, NEW tx, NEW q, NEW push, NEW made,
         LinePieces(K, past, ep, tx, q, push, made), q # <<>>,
         Line(K, past, ep, tx, q, push, made)
  PROVE  Line(K, past, ep, Head(q), Tail(q), push, made)
  <1> DEFINE r == Tail(q)
  <1>1. /\ Len(q) \in Nat \ {0}
        /\ Len(r) = Len(q) - 1
        /\ \A i \in 1..Len(r) : r[i] = q[i + 1]
        /\ Head(q) = q[1]
    BY HeadTailProperties, LenProperties, EmptySeq DEF LinePieces
  <1>2. Line(K, past, ep, tx, r, push, made)
    BY LineDropped
  <1> HIDE DEF r
  <1>3. 1 \in 1..Len(q) /\ \A i \in 1..Len(r) : i + 1 \in 1..Len(q) /\ 1 < i + 1
    BY <1>1
  <1>4. \A i \in 1..Len(r) : Ahead(K, q[1], r[i])
    BY <1>1, <1>3 DEF Line
  <1>5. /\ Ahead(K, ep, q[1]) /\ Ahead(K, q[1], push)
        /\ q[1].kind \in K => q[1].no <= made /\ \A n \in past : n < q[1].no
    BY <1>3 DEF Line
  <1> QED
    BY <1>1, <1>2, <1>4, <1>5 DEF Line, r

(* tx_task gives its item to the endpoint, or one of the two is lost.       *)
LEMMA LineSent ==
  ASSUME NEW K, NEW past, NEW ep, NEW tx, NEW q, NEW push, NEW made,
         LinePieces(K, past, ep, tx, q, push, made),
         Line(K, past, ep, tx, q, push, made)
  PROVE  /\ Line(K, past, tx, NoItem, q, push, made)
         /\ Line(K, past, ep, NoItem, q, push, made)
         /\ Line(K, past, NoItem, tx, q, push, made)
         /\ Line(K, past, ep, tx, q, NoItem, made)
  <1>1. NoItem.kind \notin K
    BY ItemFacts DEF LinePieces
  <1> QED
    BY <1>1 DEF Line, Ahead

(* The game collects what the endpoint holds.                               *)
LEMMA LineGot ==
  ASSUME NEW K, NEW past, NEW ep, NEW tx, NEW q, NEW push, NEW made,
         LinePieces(K, past, ep, tx, q, push, made), ep.kind \in K,
         Line(K, past, ep, tx, q, push, made),
         NEW had, had \subseteq past \cup {ep.no}
  PROVE  Line(K, had, NoItem, tx, q, push, made)
  <1>1. NoItem.kind \notin K
    BY ItemFacts DEF LinePieces
  <1>2. /\ \A n \in had : n <= made
        /\ \A i \in 1..Len(q) : q[i].kind \in K => \A n \in had : n < q[i].no
        /\ tx.kind \in K => \A n \in had : n < tx.no
        /\ push.kind \in K => \A n \in had : n < push.no
    BY DEF Line, Ahead
  <1> QED
    BY <1>1, <1>2 DEF Line, Ahead

(* A producer starts to push an item that it has just made.                 *)
LEMMA LineMade ==
  ASSUME NEW K, NEW past, NEW ep, NEW tx, NEW q, NEW push, NEW made,
         LinePieces(K, past, ep, tx, q, push, made), push = NoItem,
         Line(K, past, ep, tx, q, push, made),
         NEW x \in Items, x.kind \in K, x.no = made + 1
  PROVE  Line(K, past, ep, tx, q, x, made + 1)
  <1>0. \A i \in 1..Len(q) : q[i] \in Items
    BY ElementOfSeq DEF LinePieces
  <1>1. /\ made \in Nat
        /\ \A n \in past : n \in Nat
        /\ \A i \in 1..Len(q) : q[i].no \in Nat
        /\ ep.no \in Nat /\ tx.no \in Nat
    <2>1. made \in Nat /\ \A n \in past : n \in Nat
      BY DEF LinePieces
    <2>2. \A i \in 1..Len(q) : q[i].no \in Nat
      BY <1>0, ItemNumber
    <2>3. ep.no \in Nat /\ tx.no \in Nat
      BY ItemNumber DEF LinePieces
    <2> QED
      BY <2>1, <2>2, <2>3
  <1>2. /\ \A n \in past : n < x.no /\ n <= made + 1
        /\ \A i \in 1..Len(q) : q[i].kind \in K =>
              q[i].no < x.no /\ q[i].no <= made + 1
        /\ ep.kind \in K => ep.no < x.no /\ ep.no <= made + 1
        /\ tx.kind \in K => tx.no < x.no /\ tx.no <= made + 1
    BY <1>1 DEF Line
  <1>3. \A y \in {ep, tx, x} :
          y.kind \in K => y.no <= made + 1 /\ \A n \in past : n < y.no
    BY <1>1, <1>2 DEF Line
  <1>4. \A i \in 1..Len(q) :
          /\ Ahead(K, q[i], x)
          /\ q[i].kind \in K => q[i].no <= made + 1 /\ \A n \in past : n < q[i].no
    BY <1>2 DEF Line, Ahead
  <1>5. Ahead(K, ep, x) /\ Ahead(K, tx, x)
    BY <1>2 DEF Ahead
  <1>6. /\ \A i, j \in 1..Len(q) : i < j => Ahead(K, q[i], q[j])
        /\ \A i \in 1..Len(q) : Ahead(K, ep, q[i]) /\ Ahead(K, tx, q[i])
        /\ Ahead(K, ep, tx)
    BY DEF Line
  <1> QED
    BY <1>2, <1>3, <1>4, <1>5, <1>6, Zenon DEF Line

(* An item that is made and not pushed leaves a gap in the numbers.         *)
LEMMA LineSkipped ==
  ASSUME NEW K, NEW past, NEW ep, NEW tx, NEW q, NEW push, NEW made,
         LinePieces(K, past, ep, tx, q, push, made),
         Line(K, past, ep, tx, q, push, made)
  PROVE  Line(K, past, ep, tx, q, push, made + 1)
  <1>0. \A i \in 1..Len(q) : q[i] \in Items
    BY ElementOfSeq DEF LinePieces
  <1>1. /\ made \in Nat
        /\ \A n \in past : n \in Nat
        /\ \A i \in 1..Len(q) : q[i].no \in Nat
        /\ ep.no \in Nat /\ tx.no \in Nat /\ push.no \in Nat
    <2>1. made \in Nat /\ \A n \in past : n \in Nat
      BY DEF LinePieces
    <2>2. \A i \in 1..Len(q) : q[i].no \in Nat
      BY <1>0, ItemNumber
    <2>3. ep.no \in Nat /\ tx.no \in Nat /\ push.no \in Nat
      BY ItemNumber DEF LinePieces
    <2> QED
      BY <2>1, <2>2, <2>3
  <1>2. /\ \A n \in past : n <= made + 1
        /\ \A i \in 1..Len(q) : q[i].kind \in K => q[i].no <= made + 1
        /\ \A x \in {ep, tx, push} : x.kind \in K => x.no <= made + 1
    BY <1>1 DEF Line
  <1> QED
    BY <1>2 DEF Line

-----------------------------------------------------------------------------
(***************************************************************************)
(* Types.                                                                  *)
(***************************************************************************)

(* At the start nothing is queued and nobody has connected.                 *)
LEMMA InitTypeInv == Init => TypeInv
  <1> SUFFICES ASSUME Init PROVE TypeInv
    OBVIOUS
  <1>1. /\ s_in_q \in Seq(Items) /\ Len(s_in_q) <= InQCap
        /\ echoes \in Seq(Commands)
    BY ConsoleReportsAssumption DEF Init
  <1>2. /\ commands \in 0..MaxCommands /\ session \in 0..MaxSessions
        /\ reports \in 0..MaxReports /\ got \in 0..MaxReports
        /\ txAttempt \in 0..(MaxTx - 1)
    BY ConsoleReportsAssumption DEF Init
  <1>3. /\ pushing \in [Producers -> Items \cup {NoItem}]
        /\ pushPc \in [Producers -> {"idle", "send", "drop", "again"}]
        /\ \A p \in Producers : pushPc[p] # "idle" => pushing[p] \in Items
    BY DEF Init
  <1>4. /\ answered \in [1..MaxCommands -> Nat]
        /\ asked \in [1..MaxCommands -> OnBytes]
    BY DEF Init, OnBytes
  <1> QED
    BY <1>1, <1>2, <1>3, <1>4 DEF Init, TypeInv, TypeOK, SessionInv

(* Starting push_in keeps the types of what it works on.                    *)
LEMMA StartPushTypes ==
  ASSUME TypeOK, NEW p \in Producers, NEW x \in Items, StartPush(p, x)
  PROVE  /\ pushing' \in [Producers -> Items \cup {NoItem}]
         /\ pushPc' \in [Producers -> {"idle", "send", "drop", "again"}]
         /\ \A r \in Producers : pushPc'[r] # "idle" => pushing'[r] \in Items
  BY DEF StartPush, TypeOK

(* So does every step of it, and the queue does not grow beyond its length. *)
LEMMA PushTypes ==
  ASSUME TypeOK, NEW p \in Producers,
         QueueItem(p) \/ DropOldest(p) \/ QueueAgain(p)
  PROVE  /\ s_in_q' \in Seq(Items) /\ Len(s_in_q') <= InQCap
         /\ pushing' \in [Producers -> Items \cup {NoItem}]
         /\ pushPc' \in [Producers -> {"idle", "send", "drop", "again"}]
         /\ \A r \in Producers : pushPc'[r] # "idle" => pushing'[r] \in Items
  <1>1. /\ s_in_q \in Seq(Items) /\ Len(s_in_q) <= InQCap
        /\ Len(s_in_q) \in Nat /\ InQCap \in Nat
    BY LenProperties, ConsoleReportsAssumption DEF TypeOK
  <1>2. pushing[p] \in Items
    BY DEF TypeOK, QueueItem, DropOldest, QueueAgain
  <1>3. s_in_q' \in {s_in_q, Append(s_in_q, pushing[p]), Tail(s_in_q), <<>>}
    BY DEF QueueItem, DropOldest, QueueAgain
  <1>4. s_in_q' = Append(s_in_q, pushing[p]) \/ s_in_q' = s_in_q
          => Len(s_in_q) < InQCap \/ s_in_q' = s_in_q
    BY <1>1, <1>2, AppendProperties DEF QueueItem, DropOldest, QueueAgain
  <1>5. s_in_q' = Tail(s_in_q) => s_in_q # <<>> \/ s_in_q' = <<>>
    BY DEF QueueItem, DropOldest, QueueAgain
  <1>6. s_in_q' \in Seq(Items) /\ Len(s_in_q') <= InQCap
    <2>1. CASE s_in_q' = s_in_q
      BY <1>1, <2>1
    <2>2. CASE s_in_q' = Append(s_in_q, pushing[p]) /\ Len(s_in_q) < InQCap
      BY <1>1, <1>2, <2>2, AppendProperties
    <2>3. CASE s_in_q' = Tail(s_in_q) /\ s_in_q # <<>>
      BY <1>1, <2>3, HeadTailProperties
    <2>4. CASE s_in_q' = <<>>
      BY <1>1, <2>4
    <2> QED
      BY <1>3, <1>4, <1>5, <2>1, <2>2, <2>3, <2>4
  <1>7. /\ pushing' \in [Producers -> Items \cup {NoItem}]
        /\ pushPc' \in [Producers -> {"idle", "send", "drop", "again"}]
    BY DEF TypeOK, QueueItem, DropOldest, QueueAgain
  <1>8. \A r \in Producers : pushPc'[r] # "idle" => pushing'[r] \in Items
    BY <1>2 DEF TypeOK, QueueItem, DropOldest, QueueAgain
  <1> QED
    BY <1>6, <1>7, <1>8

(* A command, and the answer the dongle makes up for it.                    *)
LEMMA AnswerFacts ==
  ASSUME TypeInv, usbPc = "copy"
  PROVE  /\ [kind |-> command.kind, no |-> command.no, session |-> session,
             on |-> IF command.kind = "A" THEN s_act_resp ELSE "none"] \in Items
         /\ command \in Commands
         /\ command.kind \in Answers
         /\ command.no \in 1..MaxCommands
  <1>1. /\ command \in Commands /\ session \in 1..MaxSessions
        /\ s_act_resp \in OnBytes /\ "none" \in OnBytes
    BY ConsoleReportsAssumption DEF TypeInv, TypeOK, SessionInv, OnBytes
  <1>2. command.kind \in Answers /\ command.no \in 1..MaxCommands
    BY <1>1 DEF Commands, Answers
  <1> QED
    BY <1>1, <1>2 DEF Items

(* Every action keeps the types.                                            *)
LEMMA NextTypeInv == TypeInv /\ [Next]_vars => TypeInv'
  <1> SUFFICES ASSUME TypeInv, [Next]_vars PROVE TypeInv'
    OBVIOUS
  <1> USE DEF queueVars, usbVars, rxVars, txVars, gameVars
  <1>0. TypeOK /\ SessionInv
    BY DEF TypeInv
  <1>1. ASSUME NEW p \in Producers,
               QueueItem(p) \/ DropOldest(p) \/ QueueAgain(p)
        PROVE  TypeInv'
    <2>1. /\ s_in_q' \in Seq(Items) /\ Len(s_in_q') <= InQCap
          /\ pushing' \in [Producers -> Items \cup {NoItem}]
          /\ pushPc' \in [Producers -> {"idle", "send", "drop", "again"}]
          /\ \A r \in Producers : pushPc'[r] # "idle" => pushing'[r] \in Items
      BY <1>0, <1>1, PushTypes
    <2>2. UNCHANGED <<s_console_active, usbVars, inEp, rxVars, txVars, gameVars>>
      BY <1>1 DEF QueueItem, DropOldest, QueueAgain
    <2> QED
      BY <1>0, <2>1, <2>2 DEF TypeInv, TypeOK, SessionInv
  <1>2. CASE Mount
    <2>1. session' \in 1..MaxSessions /\ session' \in 0..MaxSessions
      BY <1>0, <1>2, ConsoleReportsAssumption DEF Mount, TypeOK
    <2>2. TypeOK'
      BY <1>0, <1>2, <2>1 DEF Mount, TypeOK
    <2>3. SessionInv'
      BY <2>1 DEF SessionInv
    <2> QED
      BY <2>2, <2>3 DEF TypeInv
  <1>3. CASE BusReset
    BY <1>0, <1>3 DEF BusReset, TypeInv, TypeOK, SessionInv
  <1>4. CASE Umount
    BY <1>0, <1>4 DEF Umount, TypeInv, TypeOK, SessionInv
  <1>5. CASE ResetQueue
    <2>1. s_in_q' \in Seq(Items) /\ Len(s_in_q') <= InQCap
      BY <1>5, ConsoleReportsAssumption DEF ResetQueue
    <2> QED
      BY <1>0, <1>5, <2>1 DEF ResetQueue, TypeInv, TypeOK, SessionInv
  <1>6. CASE ReceiveCommand
    <2>1. /\ commands' \in 0..MaxCommands /\ commands + 1 \in 1..MaxCommands
          /\ command' \in Commands
      BY <1>0, <1>6, ConsoleReportsAssumption DEF ReceiveCommand, TypeOK
    <2>2. command'.on \in OnBytes
          /\ (command'.on # "none" => command'.on \in {"on", "off"})
      BY <2>1 DEF Commands, OnBytes
    <2>3. asked' \in [1..MaxCommands -> OnBytes]
      BY <1>0, <1>6, <2>1, <2>2 DEF ReceiveCommand, TypeOK
    <2>4. s_act_resp' \in {"on", "off"} /\ s_console_active' \in BOOLEAN
      BY <1>0, <1>6, <2>2 DEF ReceiveCommand, TypeOK
    <2>5. activated' \in BOOLEAN
      BY <1>6 DEF ReceiveCommand
    <2> QED
      BY <1>0, <1>6, <2>1, <2>3, <2>4, <2>5
      DEF ReceiveCommand, TypeInv, TypeOK, SessionInv
  <1>7. CASE AnswerCommand
    <2>1. /\ pushing' \in [Producers -> Items \cup {NoItem}]
          /\ pushPc' \in [Producers -> {"idle", "send", "drop", "again"}]
          /\ \A r \in Producers : pushPc'[r] # "idle" => pushing'[r] \in Items
      BY <1>0, <1>7, AnswerFacts, StartPushTypes DEF AnswerCommand, Producers
    <2>2. echoes' \in Seq(Commands)
      <3>1. command \in Commands /\ echoes \in Seq(Commands)
        BY <1>0, <1>7, AnswerFacts DEF AnswerCommand, TypeOK
      <3>2. Append(echoes, command) \in Seq(Commands)
        BY <3>1, AppendProperties
      <3> QED
        BY <1>7, <3>1, <3>2 DEF AnswerCommand
    <2>3. UNCHANGED s_in_q
      BY <1>7 DEF AnswerCommand, StartPush
    <2> QED
      BY <1>0, <1>7, <2>1, <2>2, <2>3
      DEF AnswerCommand, TypeInv, TypeOK, SessionInv
  <1>8. CASE ReceiveReport
    <2>1. PICK kind \in PortalReports :
            IF kind = "S" /\ ~s_console_active
            THEN UNCHANGED queueVars
            ELSE StartPush("rx", [kind |-> kind, no |-> reports + 1,
                                  session |-> session])
      BY <1>8 DEF ReceiveReport
    <2>2. /\ reports' \in 0..MaxReports
          /\ [kind |-> kind, no |-> reports + 1, session |-> session] \in Items
      BY <1>0, <1>8, ConsoleReportsAssumption DEF ReceiveReport, TypeOK, Items
    <2>3. /\ pushing' \in [Producers -> Items \cup {NoItem}]
          /\ pushPc' \in [Producers -> {"idle", "send", "drop", "again"}]
          /\ \A r \in Producers : pushPc'[r] # "idle" => pushing'[r] \in Items
          /\ UNCHANGED s_in_q
      <3>1. CASE UNCHANGED queueVars
        BY <1>0, <3>1 DEF TypeOK
      <3>2. CASE StartPush("rx", [kind |-> kind, no |-> reports + 1,
                                  session |-> session])
        BY <1>0, <2>2, <3>2, StartPushTypes DEF Producers, StartPush
      <3> QED
        BY <2>1, <3>1, <3>2
    <2> QED
      BY <1>0, <1>8, <2>2, <2>3 DEF ReceiveReport, TypeInv, TypeOK, SessionInv
  <1>9. CASE LearnEcho
    <2>1. Head(echoes) \in Commands /\ Tail(echoes) \in Seq(Commands)
      BY <1>0, <1>9, HeadTailProperties DEF LearnEcho, TypeOK
    <2>2. EchoBytes(Head(echoes)) \subseteq {"on", "off"}
      BY <2>1 DEF Commands, OnBytes, EchoBytes
    <2>3. s_act_resp' \in {"on", "off"}
      BY <1>0, <1>9, <2>2 DEF LearnEcho, TypeOK
    <2> QED
      BY <1>0, <1>9, <2>1, <2>3 DEF LearnEcho, TypeInv, TypeOK, SessionInv
  <1>10. CASE TakeItem
    <2>1. /\ Head(s_in_q) \in Items /\ Tail(s_in_q) \in Seq(Items)
          /\ Len(Tail(s_in_q)) <= InQCap
      BY <1>0, <1>10, HeadTailProperties, LenProperties, ConsoleReportsAssumption
      DEF TakeItem, TypeOK
    <2> QED
      BY <1>0, <1>10, <2>1 DEF TakeItem, TypeInv, TypeOK, SessionInv
  <1>11. CASE SendItem
    BY <1>0, <1>11, ConsoleReportsAssumption
    DEF SendItem, ItemDone, TypeInv, TypeOK, SessionInv
  <1>12. CASE DropItem
    BY <1>0, <1>12, ConsoleReportsAssumption
    DEF DropItem, ItemDone, TypeInv, TypeOK, SessionInv
  <1>13. CASE RetryItem
    <2>1. txAttempt' \in 0..(MaxTx - 1)
      BY <1>0, <1>13, ConsoleReportsAssumption DEF RetryItem, ItemDone, TypeOK
    <2> QED
      BY <1>0, <1>13, <2>1 DEF RetryItem, ItemDone, TypeInv, TypeOK, SessionInv
  <1>14. CASE HostPoll
    <2>1. got' \in 0..MaxReports
      <3>1. inEp \in Items /\ got \in 0..MaxReports
        BY <1>0, <1>14 DEF HostPoll, TypeOK
      <3>2. inEp.kind \in PortalReports => inEp.no \in 0..MaxReports
        BY <3>1, ConsoleReportsAssumption DEF Items, PortalReports, Answers
      <3> QED
        BY <1>14, <3>1, <3>2 DEF HostPoll
    <2>2. answered' \in [1..MaxCommands -> Nat]
      <3>1. inEp \in Items /\ answered \in [1..MaxCommands -> Nat]
        BY <1>0, <1>14 DEF HostPoll, TypeOK
      <3>2. inEp.kind \in Answers => inEp.no \in 1..MaxCommands
        BY <3>1 DEF Items, PortalReports, Answers
      <3>3. CASE inEp.kind \in Answers
        BY <1>14, <3>1, <3>2, <3>3 DEF HostPoll
      <3>4. CASE inEp.kind \notin Answers
        BY <1>14, <3>1, <3>4 DEF HostPoll
      <3> QED
        BY <3>3, <3>4
    <2> QED
      BY <1>0, <1>14, <2>1, <2>2 DEF HostPoll, TypeInv, TypeOK, SessionInv
  <1>15. CASE UNCHANGED vars
    BY <1>0, <1>15 DEF vars, TypeInv, TypeOK, SessionInv
  <1> QED
    BY <1>1, <1>2, <1>3, <1>4, <1>5, <1>6, <1>7, <1>8, <1>9, <1>10, <1>11,
       <1>12, <1>13, <1>14, <1>15
    DEF Next, PushIn, UsbTask, RxTask, TxTask

(* Every variable stays in range: the queue within its length, the attempts *)
(* of tx_task within its loop, and a task in push_in has a report to push.  *)
THEOREM Typing == Spec => []TypeOK
  <1>1. TypeInv => TypeOK
    BY DEF TypeInv
  <1> QED
    BY <1>1, InitTypeInv, NextTypeInv, PTL DEF Spec

-----------------------------------------------------------------------------
(***************************************************************************)
(* Reports and answers in order.                                           *)
(***************************************************************************)

(* The pieces of the two lines are what the lemmas about lines speak of.    *)
LEMMA PiecesFacts ==
  ASSUME TypeInv
  PROVE  /\ LinePieces(PortalReports, {got}, inEp, txItem, s_in_q,
                       pushing["rx"], reports)
         /\ LinePieces(Answers, AnsweredSet, inEp, txItem, s_in_q,
                       pushing["usb"], commands)
         /\ usbPc = "copy" /\ command.no = commands =>
              LinePieces(Answers, AnsweredSet, inEp, txItem, s_in_q,
                         pushing["usb"], commands - 1)
  <1>1. /\ inEp \in Items \cup {NoItem} /\ txItem \in Items \cup {NoItem}
        /\ s_in_q \in Seq(Items)
        /\ pushing["rx"] \in Items \cup {NoItem}
        /\ pushing["usb"] \in Items \cup {NoItem}
    BY DEF TypeInv, TypeOK, Producers
  <1>2. /\ got \in Nat /\ reports \in Nat /\ commands \in Nat
        /\ AnsweredSet \subseteq Nat
    BY DEF TypeInv, TypeOK, AnsweredSet
  <1>3. usbPc = "copy" /\ command.no = commands => commands - 1 \in Nat
    BY AnswerFacts
  <1> QED
    BY <1>1, <1>2, <1>3, KindFacts DEF LinePieces

(* push_in, by the producer of a line or by the other one, leaves it in     *)
(* order.                                                                  *)
LEMMA PushLine ==
  ASSUME TypeOK, NEW p \in Producers,
         QueueItem(p) \/ DropOldest(p) \/ QueueAgain(p),
         NEW K, NEW past, NEW made, NEW r \in Producers,
         LinePieces(K, past, inEp, txItem, s_in_q, pushing[r], made),
         Line(K, past, inEp, txItem, s_in_q, pushing[r], made),
         p # r => pushing[p].kind \notin K
  PROVE  Line(K, past, inEp, txItem, s_in_q', pushing'[r], made)
  <1>1. /\ pushing[p] \in Items /\ pushing[p] # NoItem
        /\ p \in DOMAIN pushing /\ r \in DOMAIN pushing
    BY ItemFacts DEF TypeOK, QueueItem, DropOldest, QueueAgain
  <1>2. CASE s_in_q' = s_in_q /\ pushing' = pushing
    BY <1>2
  <1>3. CASE /\ s_in_q' = Append(s_in_q, pushing[p])
             /\ pushing' = [pushing EXCEPT ![p] = NoItem]
    <2>1. CASE p = r
      BY <1>1, <1>3, <2>1, LineQueued
    <2>2. CASE p # r
      <3>1. pushing'[r] = pushing[r]
        BY <1>1, <1>3, <2>2
      <3> QED
        BY <1>1, <1>3, <2>2, <3>1, LineOther
    <2> QED
      BY <2>1, <2>2
  <1>4. CASE /\ s_in_q' = s_in_q
             /\ pushing' = [pushing EXCEPT ![p] = NoItem]
    <2>1. pushing'[r] = pushing[r] \/ pushing'[r] = NoItem
      BY <1>1, <1>4
    <2> QED
      BY <1>4, <2>1, LineSent
  <1>5. CASE s_in_q' = <<>> /\ pushing' = pushing
    BY <1>5, LineDropped
  <1>6. CASE s_in_q # <<>> /\ s_in_q' = Tail(s_in_q) /\ pushing' = pushing
    BY <1>6, LineDropped
  <1>7. CASE QueueItem(p)
    BY <1>2, <1>3, <1>7 DEF QueueItem
  <1>8. CASE DropOldest(p)
    BY <1>5, <1>8, <1>6 DEF DropOldest
  <1>9. CASE QueueAgain(p)
    BY <1>3, <1>4, <1>9 DEF QueueAgain
  <1> QED
    BY <1>7, <1>8, <1>9

(* push_in starts with an item and ends without one.                        *)
LEMMA PushPcs ==
  ASSUME TypeOK, PushInv, NEW p \in Producers,
         \/ QueueItem(p) \/ DropOldest(p) \/ QueueAgain(p)
         \/ \E x \in Items : StartPush(p, x)
  PROVE  PushInv'
  BY ItemFacts
  DEF TypeOK, PushInv, QueueItem, DropOldest, QueueAgain, StartPush

(* At the start there is nothing in line.                                   *)
LEMMA InitLineInv == Init => LineInv
  <1> SUFFICES ASSUME Init PROVE LineInv
    OBVIOUS
  <1>1. /\ Len(s_in_q) = 0 /\ pushing["rx"] = NoItem /\ pushing["usb"] = NoItem
        /\ inEp = NoItem /\ txItem = NoItem
        /\ NoItem.kind \notin PortalReports /\ NoItem.kind \notin Answers
    BY ItemFacts, KindFacts DEF Init, Producers
  <1>2. ReportLine
    BY <1>1 DEF Init, ReportLine, Line, Ahead
  <1>3. AnsweredSet = {}
    BY DEF Init, AnsweredSet
  <1>4. AnswerLine
    BY <1>1, <1>3 DEF AnswerLine, Line, Ahead
  <1> QED
    BY <1>2, <1>4 DEF Init, LineInv, PushInv

(* The steps that leave the two lines alone.                                *)
LEMMA LinesKept ==
  ASSUME LineInv,
         UNCHANGED <<got, inEp, txItem, s_in_q, pushing, pushPc, reports, answered,
                     commands, command, usbPc>>
  PROVE  LineInv'
  BY DEF LineInv, ReportLine, AnswerLine, AnsweredSet, PushInv

(* Every action keeps both lines in order.                                  *)
LEMMA NextLineInv == TypeInv /\ LineInv /\ [Next]_vars => LineInv'
  <1> SUFFICES ASSUME TypeInv, LineInv, [Next]_vars PROVE LineInv'
    OBVIOUS
  <1> USE DEF queueVars, usbVars, rxVars, txVars, gameVars
  <1> DEFINE made == IF usbPc = "copy" THEN commands - 1 ELSE commands
  <1>0. /\ TypeOK /\ PushInv
        /\ usbPc = "copy" => command.no = commands
        /\ Line(PortalReports, {got}, inEp, txItem, s_in_q, pushing["rx"], reports)
        /\ Line(Answers, AnsweredSet, inEp, txItem, s_in_q, pushing["usb"], made)
        /\ LinePieces(PortalReports, {got}, inEp, txItem, s_in_q,
                      pushing["rx"], reports)
        /\ LinePieces(Answers, AnsweredSet, inEp, txItem, s_in_q,
                      pushing["usb"], made)
    BY PiecesFacts DEF TypeInv, LineInv, ReportLine, AnswerLine
  <1>1. ASSUME NEW p \in Producers,
               QueueItem(p) \/ DropOldest(p) \/ QueueAgain(p)
        PROVE  LineInv'
    <2>1. /\ pushing[p] # NoItem
          /\ p = "rx" => pushing[p].kind \notin Answers
          /\ p = "usb" => pushing[p].kind \notin PortalReports
      <3>1. pushing[p] # NoItem
        BY <1>0, <1>1 DEF PushInv, QueueItem, DropOldest, QueueAgain
      <3>2. /\ pushing["rx"] # NoItem => pushing["rx"].kind \in PortalReports
            /\ pushing["usb"] # NoItem => pushing["usb"].kind \in Answers
        BY <1>0 DEF Line
      <3> QED
        BY <3>1, <3>2, KindFacts
    <2>2. Line(PortalReports, {got}, inEp, txItem, s_in_q', pushing'["rx"], reports)
      BY <1>0, <1>1, <2>1, PushLine DEF Producers
    <2>3. Line(Answers, AnsweredSet, inEp, txItem, s_in_q', pushing'["usb"], made)
      <3> HIDE DEF made
      <3> QED
        BY <1>0, <1>1, <2>1, PushLine DEF Producers
    <2>4. UNCHANGED <<got, inEp, txItem, reports, answered, commands, usbPc, command>>
      BY <1>1 DEF QueueItem, DropOldest, QueueAgain
    <2>5. PushInv'
      BY <1>0, <1>1, PushPcs
    <2> QED
      BY <1>0, <2>2, <2>3, <2>4, <2>5
      DEF LineInv, ReportLine, AnswerLine, AnsweredSet
  <1>2. CASE Mount
    BY <1>0, <1>2 DEF Mount, usbFree, LineInv, ReportLine, AnswerLine, AnsweredSet,
                      PushInv
  <1>3. CASE BusReset \/ Umount
    <2>1. /\ Line(PortalReports, {got}, NoItem, txItem, s_in_q, pushing["rx"],
                  reports)
          /\ Line(Answers, AnsweredSet, NoItem, txItem, s_in_q, pushing["usb"], made)
      <3> HIDE DEF made
      <3> QED
        BY <1>0, LineSent
    <2>2. made' = made /\ usbPc' # "copy" /\ usbPc # "copy"
      BY <1>3 DEF BusReset, Umount, usbFree
    <2> QED
      BY <1>0, <1>3, <2>1, <2>2
      DEF BusReset, Umount, LineInv, ReportLine, AnswerLine, AnsweredSet, PushInv
  <1>4. CASE ResetQueue
    <2>1. /\ Line(PortalReports, {got}, inEp, txItem, <<>>, pushing["rx"], reports)
          /\ Line(Answers, AnsweredSet, inEp, txItem, <<>>, pushing["usb"], made)
      <3> HIDE DEF made
      <3> QED
        BY <1>0, LineDropped
    <2>2. made' = made /\ usbPc' # "copy"
      BY <1>4 DEF ResetQueue
    <2> QED
      BY <1>0, <1>4, <2>1, <2>2
      DEF ResetQueue, LineInv, ReportLine, AnswerLine, AnsweredSet, PushInv
  <1>5. CASE ReceiveCommand
    <2>1. made' = made
      BY <1>0, <1>5 DEF ReceiveCommand, usbFree, TypeOK
    <2>2. command'.no = commands'
      BY <1>5 DEF ReceiveCommand
    <2> QED
      BY <1>0, <1>5, <2>1, <2>2
      DEF ReceiveCommand, LineInv, ReportLine, AnswerLine, AnsweredSet, PushInv
  <1>6. CASE AnswerCommand
    <2> DEFINE x == [kind |-> command.kind, no |-> command.no, session |-> session,
                     on |-> IF command.kind = "A" THEN s_act_resp ELSE "none"]
    <2>1. /\ usbPc = "copy" /\ StartPush("usb", x)
          /\ x \in Items /\ x.kind \in Answers /\ x.no = commands
      BY <1>0, <1>6, AnswerFacts DEF AnswerCommand
    <2> HIDE DEF x
    <2>2. commands \in Nat /\ made = commands - 1 /\ made + 1 = commands
      BY <1>0, <2>1 DEF TypeOK
    <2>3. pushing["usb"] = NoItem
      BY <1>0, <2>1 DEF StartPush, PushInv, Producers
    <2>4. Line(Answers, AnsweredSet, inEp, txItem, s_in_q, x, made + 1)
      <3> HIDE DEF made
      <3> QED
        BY <1>0, <2>1, <2>2, <2>3, LineMade
    <2>5. /\ pushing'["usb"] = x /\ pushing'["rx"] = pushing["rx"]
          /\ UNCHANGED s_in_q
      BY <1>0, <2>1 DEF StartPush, TypeOK, Producers
    <2>6. PushInv'
      BY <1>0, <2>1, PushPcs DEF Producers
    <2>7. made' = commands /\ usbPc' # "copy"
      BY <1>6 DEF AnswerCommand
    <2> QED
      BY <1>0, <1>6, <2>2, <2>4, <2>5, <2>6, <2>7
      DEF AnswerCommand, LineInv, ReportLine, AnswerLine, AnsweredSet
  <1>7. CASE ReceiveReport
    <2>1. PICK kind \in PortalReports :
            IF kind = "S" /\ ~s_console_active
            THEN UNCHANGED queueVars
            ELSE StartPush("rx", [kind |-> kind, no |-> reports + 1,
                                  session |-> session])
      BY <1>7 DEF ReceiveReport
    <2>2. /\ reports' = reports + 1
          /\ UNCHANGED <<got, inEp, txItem, answered, commands, usbPc, command>>
      BY <1>7 DEF ReceiveReport
    <2> DEFINE x == [kind |-> kind, no |-> reports + 1, session |-> session]
    <2>3. CASE UNCHANGED queueVars
      <3>1. Line(PortalReports, {got}, inEp, txItem, s_in_q, pushing["rx"],
                 reports + 1)
        BY <1>0, LineSkipped
      <3> QED
        BY <1>0, <2>2, <2>3, <3>1
        DEF LineInv, ReportLine, AnswerLine, AnsweredSet, PushInv
    <2>4. CASE StartPush("rx", x)
      <3>1. x \in Items /\ x.kind \in PortalReports /\ x.no = reports + 1
        BY <1>0, <1>7, ConsoleReportsAssumption DEF ReceiveReport, TypeOK, Items
      <3> HIDE DEF x
      <3>2. pushing["rx"] = NoItem
        BY <1>0, <2>4 DEF StartPush, PushInv, Producers
      <3>3. Line(PortalReports, {got}, inEp, txItem, s_in_q, x, reports + 1)
        BY <1>0, <3>1, <3>2, LineMade
      <3>4. /\ pushing'["rx"] = x /\ pushing'["usb"] = pushing["usb"]
            /\ UNCHANGED s_in_q
        BY <1>0, <2>4 DEF StartPush, TypeOK, Producers
      <3>5. PushInv'
        BY <1>0, <2>4, <3>1, PushPcs DEF Producers
      <3> QED
        BY <1>0, <2>2, <3>3, <3>4, <3>5
        DEF LineInv, ReportLine, AnswerLine, AnsweredSet
    <2> QED
      BY <2>1, <2>3, <2>4
  <1>8. CASE LearnEcho
    BY <1>8, LinesKept DEF LearnEcho
  <1>9. CASE TakeItem
    <2>1. /\ Line(PortalReports, {got}, inEp, Head(s_in_q), Tail(s_in_q),
                  pushing["rx"], reports)
          /\ Line(Answers, AnsweredSet, inEp, Head(s_in_q), Tail(s_in_q),
                  pushing["usb"], made)
      <3> HIDE DEF made
      <3> QED
        BY <1>0, <1>9, LineTaken DEF TakeItem
    <2> QED
      BY <1>0, <1>9, <2>1
      DEF TakeItem, LineInv, ReportLine, AnswerLine, AnsweredSet, PushInv
  <1>10. CASE SendItem
    <2>1. /\ Line(PortalReports, {got}, txItem, NoItem, s_in_q, pushing["rx"],
                  reports)
          /\ Line(Answers, AnsweredSet, txItem, NoItem, s_in_q, pushing["usb"], made)
      <3> HIDE DEF made
      <3> QED
        BY <1>0, LineSent
    <2> QED
      BY <1>0, <1>10, <2>1
      DEF SendItem, ItemDone, LineInv, ReportLine, AnswerLine, AnsweredSet, PushInv
  <1>11. CASE DropItem \/ RetryItem
    <2>1. /\ Line(PortalReports, {got}, inEp, NoItem, s_in_q, pushing["rx"], reports)
          /\ Line(Answers, AnsweredSet, inEp, NoItem, s_in_q, pushing["usb"], made)
      <3> HIDE DEF made
      <3> QED
        BY <1>0, LineSent
    <2>2. txItem' = NoItem \/ txItem' = txItem
      BY <1>11 DEF DropItem, RetryItem, ItemDone
    <2>3. UNCHANGED <<got, inEp, s_in_q, pushing, pushPc, reports, answered,
                      commands, command, usbPc>>
      BY <1>11 DEF DropItem, RetryItem
    <2> QED
      BY <1>0, <2>1, <2>2, <2>3
      DEF LineInv, ReportLine, AnswerLine, AnsweredSet, PushInv
  <1>12. CASE HostPoll
    <2>1. inEp \in Items /\ made' = made
      BY <1>0, <1>12 DEF HostPoll, TypeOK
    <2>2. Line(PortalReports, {got'}, NoItem, txItem, s_in_q, pushing["rx"], reports)
      <3>1. CASE inEp.kind \in PortalReports
        <4>1. {got'} \subseteq {got} \cup {inEp.no}
          BY <1>12, <3>1 DEF HostPoll
        <4> QED
          BY <1>0, <3>1, <4>1, LineGot
      <3>2. CASE inEp.kind \notin PortalReports
        <4>1. got' = got
          BY <1>12, <3>2 DEF HostPoll
        <4> QED
          BY <1>0, <4>1, LineSent
      <3> QED
        BY <3>1, <3>2
    <2>3. Line(Answers, AnsweredSet', NoItem, txItem, s_in_q, pushing["usb"], made)
      <3> HIDE DEF made
      <3>1. CASE inEp.kind \in Answers
        <4>1. answered' = [answered EXCEPT ![inEp.no] = @ + 1]
          BY <1>12, <3>1 DEF HostPoll
        <4>2. AnsweredSet' \subseteq AnsweredSet \cup {inEp.no}
          BY <1>0, <4>1 DEF AnsweredSet, TypeOK
        <4> QED
          BY <1>0, <3>1, <4>2, LineGot
      <3>2. CASE inEp.kind \notin Answers
        <4>1. AnsweredSet' = AnsweredSet
          BY <1>12, <3>2 DEF HostPoll, AnsweredSet
        <4> QED
          BY <1>0, <4>1, LineSent
      <3> QED
        BY <3>1, <3>2
    <2> QED
      BY <1>0, <1>12, <2>1, <2>2, <2>3
      DEF HostPoll, LineInv, ReportLine, AnswerLine, PushInv
  <1>13. CASE UNCHANGED vars
    BY <1>13, LinesKept DEF vars
  <1> QED
    BY <1>1, <1>2, <1>3, <1>4, <1>5, <1>6, <1>7, <1>8, <1>9, <1>10, <1>11,
       <1>12, <1>13
    DEF Next, PushIn, UsbTask, RxTask, TxTask

(* Reports and answers stay in line.                                        *)
LEMMA LineInvariant == Spec => [](TypeInv /\ LineInv)
  <1>1. Init => TypeInv /\ LineInv
    BY InitTypeInv, InitLineInv
  <1>2. TypeInv /\ LineInv /\ [Next]_vars => (TypeInv /\ LineInv)'
    BY NextTypeInv, NextLineInv
  <1> QED
    BY <1>1, <1>2, PTL DEF Spec

(* Nothing but a poll of the game changes what the game has had.            *)
LEMMA OnlyPolls == [Next]_vars => HostPoll \/ UNCHANGED <<got, answered>>
  <1> SUFFICES ASSUME [Next]_vars PROVE HostPoll \/ UNCHANGED <<got, answered>>
    OBVIOUS
  <1> USE DEF gameVars
  <1>1. PushIn => UNCHANGED <<got, answered>>
    BY DEF PushIn, QueueItem, DropOldest, QueueAgain
  <1>2. UsbTask => UNCHANGED <<got, answered>>
    BY DEF UsbTask, Mount, BusReset, Umount, ResetQueue, ReceiveCommand,
           AnswerCommand
  <1>3. RxTask => UNCHANGED <<got, answered>>
    BY DEF RxTask, ReceiveReport, LearnEcho
  <1>4. TxTask => UNCHANGED <<got, answered>>
    BY DEF TxTask, TakeItem, SendItem, DropItem, RetryItem
  <1>5. UNCHANGED vars => UNCHANGED <<got, answered>>
    BY DEF vars
  <1> QED
    BY <1>1, <1>2, <1>3, <1>4, <1>5 DEF Next

(* The reports of the real portal reach the game in the order rx_task got   *)
(* them, whatever is dropped and however often the console reconnects.      *)
THEOREM InOrder == Spec => ReportsInOrder
  <1>1. TypeInv /\ LineInv /\ [Next]_vars => [got' >= got]_vars
    <2> SUFFICES ASSUME TypeInv, LineInv, Next PROVE got' >= got
      OBVIOUS
    <2>1. got \in Nat /\ inEp \in Items \cup {NoItem}
      BY DEF TypeInv, TypeOK
    <2>2. inEp.kind \in PortalReports => inEp.no \in Nat /\ got < inEp.no
      <3>1. inEp.kind \in PortalReports => \A n \in {got} : n < inEp.no
        BY DEF LineInv, ReportLine, Line
      <3> QED
        BY <2>1, <3>1, ItemFacts
    <2>3. got' = got \/ (inEp.kind \in PortalReports /\ got' = inEp.no)
      BY OnlyPolls DEF HostPoll
    <2> QED
      BY <2>1, <2>2, <2>3
  <1> QED
    BY <1>1, LineInvariant, PTL DEF Spec, ReportsInOrder

(* The game gets one answer to a command at most, the one the dongle makes  *)
(* up: answers that are still on their way are to later commands than all   *)
(* that have been answered.                                                *)
THEOREM OneAnswer == Spec => []AnsweredOnce
  <1>1. Init => AnsweredOnce
    BY DEF Init, AnsweredOnce
  <1>2. TypeInv /\ LineInv /\ AnsweredOnce /\ [Next]_vars => AnsweredOnce'
    <2> SUFFICES ASSUME TypeInv, LineInv, AnsweredOnce, [Next]_vars,
                        NEW c \in 1..MaxCommands
                 PROVE  answered'[c] <= 1
      BY DEF AnsweredOnce
    <2>1. answered[c] <= 1 /\ answered \in [1..MaxCommands -> Nat]
      BY DEF AnsweredOnce, TypeInv, TypeOK
    <2>2. CASE answered' = answered
      BY <2>1, <2>2
    <2>3. CASE answered' = [answered EXCEPT ![inEp.no] = @ + 1] /\ inEp.kind \in Answers
      <3>1. inEp.no = c => answered[c] = 0
        <4>1. inEp.kind \in Answers => \A n \in AnsweredSet : n < inEp.no
          BY DEF LineInv, AnswerLine, Line
        <4> QED
          BY <2>3, <4>1 DEF AnsweredSet
      <3> QED
        BY <2>1, <2>3, <3>1
    <2> QED
      BY <2>2, <2>3, OnlyPolls DEF HostPoll
  <1> QED
    BY <1>1, <1>2, LineInvariant, PTL DEF Spec

-----------------------------------------------------------------------------
(***************************************************************************)
(* What every item on its way has in common.                               *)
(***************************************************************************)

(* Only rx_task and the answer to a command bring in items; all others were *)
(* on their way before.                                                    *)
LEMMA HeldSteps ==
  ASSUME TypeInv, [Next]_vars, NEW y \in Held'
  PROVE  \/ y \in Held \cup {NoItem}
         \/ AnswerCommand /\ y = pushing'["usb"]
         \/ ReceiveReport /\ y = pushing'["rx"]
  <1> USE DEF queueVars, usbVars, rxVars, txVars, gameVars
  <1>0. /\ pushing \in [Producers -> Items \cup {NoItem}]
        /\ s_in_q \in Seq(Items) /\ Len(s_in_q) \in Nat
    BY LenProperties DEF TypeInv, TypeOK
  <1>1. /\ inEp \in Held /\ txItem \in Held
        /\ pushing["rx"] \in Held /\ pushing["usb"] \in Held
        /\ \A i \in 1..Len(s_in_q) : s_in_q[i] \in Held
    BY DEF Held
  <1>2. \/ y \in {inEp', txItem', pushing'["rx"], pushing'["usb"]}
        \/ \E i \in 1..Len(s_in_q') : y = s_in_q'[i]
    BY DEF Held
  <1>3. s_in_q # <<>> =>
          /\ Head(s_in_q) \in Held
          /\ \A i \in 1..Len(Tail(s_in_q)) : Tail(s_in_q)[i] \in Held
    <2>1. ASSUME s_in_q # <<>>
          PROVE  /\ Head(s_in_q) = s_in_q[1] /\ Len(s_in_q) > 0
                 /\ Len(Tail(s_in_q)) = Len(s_in_q) - 1
                 /\ \A i \in 1..Len(Tail(s_in_q)) : Tail(s_in_q)[i] = s_in_q[i + 1]
      BY <1>0, <2>1, HeadTailProperties, EmptySeq
    <2> QED
      BY <1>0, <1>1, <2>1
  <1>4. ASSUME NEW p \in Producers,
               QueueItem(p) \/ DropOldest(p) \/ QueueAgain(p)
        PROVE  y \in Held \cup {NoItem}
    <2>1. pushing[p] \in Items /\ pushing[p] \in Held
      BY <1>1, <1>4
      DEF TypeInv, TypeOK, QueueItem, DropOldest, QueueAgain, Producers
    <2>2. \A i \in 1..Len(Append(s_in_q, pushing[p])) :
            Append(s_in_q, pushing[p])[i] \in Held
      <3>1. /\ Len(Append(s_in_q, pushing[p])) = Len(s_in_q) + 1
            /\ \A i \in 1..Len(s_in_q) : Append(s_in_q, pushing[p])[i] = s_in_q[i]
            /\ Append(s_in_q, pushing[p])[Len(s_in_q) + 1] = pushing[p]
        BY <1>0, <2>1, AppendProperties
      <3> QED
        BY <1>0, <1>1, <2>1, <3>1
    <2>3. \A i \in 1..Len(s_in_q') : s_in_q'[i] \in Held
      BY <1>1, <1>3, <1>4, <2>2 DEF QueueItem, DropOldest, QueueAgain
    <2>4. pushing'["rx"] \in {pushing["rx"], NoItem}
          /\ pushing'["usb"] \in {pushing["usb"], NoItem}
      BY <1>0, <1>4 DEF QueueItem, DropOldest, QueueAgain, Producers
    <2>5. UNCHANGED <<inEp, txItem>>
      BY <1>4 DEF QueueItem, DropOldest, QueueAgain
    <2> QED
      BY <1>1, <1>2, <2>3, <2>4, <2>5
  <1>5. CASE Mount \/ BusReset \/ Umount \/ ReceiveCommand \/ LearnEcho
    BY <1>1, <1>2, <1>5
    DEF Mount, BusReset, Umount, ReceiveCommand, LearnEcho
  <1>6. CASE ResetQueue
    BY <1>1, <1>2, <1>6 DEF ResetQueue
  <1>7. CASE AnswerCommand
    <2>1. pushing'["rx"] = pushing["rx"]
      BY <1>0, <1>7 DEF AnswerCommand, StartPush, Producers
    <2>2. UNCHANGED <<inEp, txItem, s_in_q>>
      BY <1>7 DEF AnswerCommand, StartPush
    <2> QED
      BY <1>1, <1>2, <1>7, <2>1, <2>2
  <1>8. CASE ReceiveReport
    <2>1. pushing'["usb"] = pushing["usb"]
      BY <1>0, <1>8 DEF ReceiveReport, StartPush, Producers
    <2>2. UNCHANGED <<inEp, txItem, s_in_q>>
      BY <1>8 DEF ReceiveReport, StartPush
    <2> QED
      BY <1>1, <1>2, <1>8, <2>1, <2>2
  <1>9. CASE TakeItem
    <2>1. /\ txItem' = Head(s_in_q) /\ s_in_q' = Tail(s_in_q) /\ s_in_q # <<>>
          /\ UNCHANGED <<inEp, pushing>>
      BY <1>9 DEF TakeItem
    <2> QED
      BY <1>1, <1>2, <1>3, <2>1
  <1>10. CASE SendItem \/ DropItem \/ RetryItem \/ HostPoll
    BY <1>1, <1>2, <1>10 DEF SendItem, DropItem, RetryItem, HostPoll, ItemDone
  <1>11. CASE UNCHANGED vars
    BY <1>1, <1>2, <1>11 DEF vars
  <1> QED
    BY <1>4, <1>5, <1>6, <1>7, <1>8, <1>9, <1>10, <1>11
    DEF Next, PushIn, UsbTask, RxTask, TxTask

(* An item on its way is an item, and an answer is to a command there was.  *)
LEMMA HeldFacts ==
  ASSUME TypeInv, LineInv, NEW x \in Held
  PROVE  /\ x \in Items \cup {NoItem}
         /\ x.kind \in Answers => x.no \in 1..commands
  <1>1. x \in Items \cup {NoItem}
    BY ElementOfSeq DEF TypeInv, TypeOK, Held, Producers
  <1>2. ASSUME x.kind \in Answers
        PROVE  x.no \in 1..commands
    <2> DEFINE made == IF usbPc = "copy" THEN commands - 1 ELSE commands
    <2>1. commands \in Nat /\ x.no \in Nat \ {0}
      BY <1>1, <1>2, ItemFacts, KindFacts DEF TypeInv, TypeOK
    <2>2. made \in Int /\ made <= commands
      BY <2>1
    <2>3. Line(Answers, AnsweredSet, inEp, txItem, s_in_q, pushing["usb"], made)
      BY DEF LineInv, AnswerLine
    <2> HIDE DEF made
    <2>4. x # pushing["rx"]
      <3>1. pushing["rx"] # NoItem => pushing["rx"].kind \in PortalReports
        BY DEF LineInv, ReportLine, Line
      <3> QED
        BY <1>2, <3>1, ItemFacts, KindFacts
    <2>5. x \in {inEp, txItem, pushing["usb"]}
            \/ \E i \in 1..Len(s_in_q) : x = s_in_q[i]
      BY <2>4 DEF Held
    <2>6. x.no <= made
      BY <1>2, <2>3, <2>5 DEF Line
    <2> QED
      BY <2>1, <2>2, <2>6
  <1> QED
    BY <1>1, <1>2

-----------------------------------------------------------------------------
(***************************************************************************)
(* The gate.                                                               *)
(***************************************************************************)

(* At the start the gate is closed.                                         *)
LEMMA InitGateInv == Init => GateInv
  <1> SUFFICES ASSUME Init PROVE GateInv
    OBVIOUS
  <1>1. Held = {NoItem}
    BY DEF Init, Held, Producers
  <1> QED
    BY <1>1, ItemFacts DEF Init, GateInv

(* Only the callbacks of a connection and a command of the game change the  *)
(* gate, the connection and whether the console has switched the portal on. *)
LEMMA OthersPass ==
  ASSUME [Next]_vars
  PROVE  \/ Mount \/ BusReset \/ Umount \/ ReceiveCommand
         \/ UNCHANGED <<s_console_active, mounted, session, activated>>
  <1> USE DEF queueVars, usbVars, rxVars, txVars, gameVars
  <1> DEFINE Kept == UNCHANGED <<s_console_active, mounted, session, activated>>
  <1>1. PushIn => Kept
    BY DEF PushIn, QueueItem, DropOldest, QueueAgain
  <1>2. ResetQueue \/ AnswerCommand => Kept
    BY DEF ResetQueue, AnswerCommand
  <1>3. RxTask => Kept
    BY DEF RxTask, ReceiveReport, LearnEcho
  <1>4. TxTask => Kept
    BY DEF TxTask, TakeItem, SendItem, DropItem, RetryItem
  <1>5. HostPoll \/ UNCHANGED vars => Kept
    BY DEF HostPoll, vars
  <1> QED
    BY <1>1, <1>2, <1>3, <1>4, <1>5 DEF Next, UsbTask

(* The endpoint is only armed while the console is connected.               *)
LEMMA ArmedWhileMounted ==
  ASSUME TypeInv, GateInv, [Next]_vars
  PROVE  mounted' \/ inEp' = NoItem
  <1>1. CASE UNCHANGED inEp
    BY <1>1 DEF GateInv, Next, PushIn, QueueItem, DropOldest, QueueAgain, UsbTask,
       Mount, BusReset, Umount, ResetQueue, ReceiveCommand, AnswerCommand, RxTask,
       ReceiveReport, LearnEcho, TxTask, TakeItem, SendItem, DropItem, RetryItem,
       HostPoll, usbVars, vars
  <1>2. CASE inEp' # inEp
    <2>1. BusReset \/ Umount \/ SendItem \/ HostPoll
      BY <1>2 DEF Next, PushIn, QueueItem, DropOldest, QueueAgain, UsbTask,
         Mount, ResetQueue, ReceiveCommand, AnswerCommand, RxTask,
         ReceiveReport, LearnEcho, TxTask, TakeItem, DropItem, RetryItem, vars
    <2> QED
      BY <2>1 DEF BusReset, Umount, SendItem, HostPoll, usbVars
  <1> QED
    BY <1>1, <1>2

(* A Status report that is let through is let through by a gate that an     *)
(* Activate of this connection has opened.                                 *)
LEMMA NextGateInv == TypeInv /\ LineInv /\ GateInv /\ [Next]_vars => GateInv'
  <1> SUFFICES ASSUME TypeInv, LineInv, GateInv, [Next]_vars PROVE GateInv'
    OBVIOUS
  <1> DEFINE Fits(x) == /\ x.session <= session
                        /\ x.kind = "S" /\ x.session = session /\ mounted => activated
  <1>0. session \in 0..MaxSessions /\ \A x \in Held : x.session \in 0..MaxSessions
    BY HeldFacts, ItemFacts, ConsoleReportsAssumption DEF TypeInv, TypeOK
  <1>1. ASSUME NEW y \in Held', UNCHANGED <<s_console_active, mounted, session, activated>>
        PROVE  y.session <= session
               /\ (y.kind = "S" /\ y.session = session /\ mounted => activated)
    <2>1. CASE y \in Held \cup {NoItem}
      BY <1>0, <2>1, ItemFacts DEF GateInv
    <2>2. CASE AnswerCommand /\ y = pushing'["usb"]
      <3>1. y.session = session /\ y.kind \in Answers
        BY <2>2, AnswerFacts
        DEF AnswerCommand, StartPush, TypeInv, TypeOK, Producers
      <3> QED
        BY <1>0, <3>1 DEF Answers
    <2>3. CASE ReceiveReport /\ y = pushing'["rx"]
      <3>1. PICK kind \in PortalReports :
              IF kind = "S" /\ ~s_console_active
              THEN UNCHANGED queueVars
              ELSE StartPush("rx", [kind |-> kind, no |-> reports + 1,
                                    session |-> session])
        BY <2>3 DEF ReceiveReport
      <3>2. CASE UNCHANGED queueVars
        <4>1. y \in Held
          BY <2>3, <3>2 DEF queueVars, Held
        <4> QED
          BY <2>1, <4>1
      <3>3. CASE (kind = "S" => s_console_active)
                 /\ StartPush("rx", [kind |-> kind, no |-> reports + 1,
                                     session |-> session])
        <4>1. y = [kind |-> kind, no |-> reports + 1, session |-> session]
          BY <2>3, <3>3 DEF StartPush, TypeInv, TypeOK, Producers
        <4>2. y.session = session /\ (y.kind = "S" => s_console_active)
          BY <3>3, <4>1
        <4> QED
          BY <1>0, <4>2 DEF GateInv
      <3> QED
        BY <3>1, <3>2, <3>3
    <2> QED
      BY HeldSteps, <2>1, <2>2, <2>3
  <1>2. mounted' \/ inEp' = NoItem
    BY ArmedWhileMounted
  <1>3. CASE UNCHANGED <<s_console_active, mounted, session, activated>>
    <2>1. s_console_active' /\ mounted' => activated'
      BY <1>3 DEF GateInv
    <2> QED
      BY <1>1, <1>2, <1>3, <2>1 DEF GateInv
  <1>4. CASE Mount \/ BusReset \/ Umount \/ ReceiveCommand
    <2>1. ~AnswerCommand /\ ~ReceiveReport
      BY <1>4 DEF Mount, BusReset, Umount, ReceiveCommand, AnswerCommand,
                  ReceiveReport, usbFree, usbVars, rxVars
    <2>2. \A y \in Held' : y \in Held \cup {NoItem}
      BY <2>1, HeldSteps
    <2>3. CASE Mount
      <3>1. session' = session + 1 /\ ~s_console_active'
        BY <2>3 DEF Mount
      <3>2. \A y \in Held' : y.session < session'
        BY <1>0, <2>2, <3>1, ItemFacts DEF GateInv
      <3>3. \A y \in Held' : y.session <= session' /\ y.session # session'
        BY <1>0, <2>2, <3>1, <3>2, ItemFacts
      <3> QED
        BY <1>2, <3>1, <3>3 DEF GateInv
    <2>4. CASE BusReset \/ Umount
      <3>1. session' = session /\ ~mounted'
        BY <2>4 DEF BusReset, Umount
      <3>2. \A y \in Held' : y.session <= session'
        BY <1>0, <2>2, <3>1, ItemFacts DEF GateInv
      <3> QED
        BY <1>2, <3>1, <3>2 DEF GateInv
    <2>5. CASE ReceiveCommand
      <3>1. /\ session' = session /\ mounted' = mounted
            /\ activated => activated'
            /\ s_console_active' => s_console_active \/ activated'
        <4>1. activated' = (activated \/ command'.on = "on")
          BY <2>5 DEF ReceiveCommand
        <4>2. \/ s_console_active' = (command'.on = "on")
              \/ s_console_active' = s_console_active
          BY <2>5, Zenon DEF ReceiveCommand
        <4>3. session' = session /\ mounted' = mounted
          BY <2>5 DEF ReceiveCommand
        <4>4. activated => activated'
          BY <4>1
        <4>5. s_console_active' => s_console_active \/ activated'
          <5>1. CASE s_console_active' = (command'.on = "on")
            BY <4>1, <5>1
          <5>2. CASE s_console_active' = s_console_active
            BY <5>2
          <5> QED
            BY <4>2, <5>1, <5>2
        <4> QED
          BY <4>3, <4>4, <4>5
      <3>2. \A y \in Held' :
              /\ y.session <= session'
              /\ y.kind = "S" /\ y.session = session' /\ mounted' => activated'
        BY <1>0, <2>2, <3>1, ItemFacts DEF GateInv
      <3>3. s_console_active' /\ mounted' => activated'
        BY <3>1 DEF GateInv
      <3> QED
        BY <1>2, <3>2, <3>3 DEF GateInv
    <2> QED
      BY <1>4, <2>3, <2>4, <2>5
  <1> QED
    BY <1>3, <1>4, OthersPass

(* No Status report let through in this connection is sent before its       *)
(* console has switched the portal on, bus resets and reconnections         *)
(* included.                                                               *)
THEOREM Gate == Spec => []GateHolds
  <1>1. Init => GateInv
    BY InitGateInv
  <1>2. GateInv => GateHolds
    <2> SUFFICES ASSUME GateInv, inEp.kind = "S", inEp.session = session
                 PROVE  activated
      BY DEF GateHolds
    <2>1. inEp # NoItem /\ inEp \in Held
      BY ItemFacts DEF Held
    <2> QED
      BY <2>1 DEF GateInv
  <1> QED
    BY <1>1, <1>2, LineInvariant, NextGateInv, PTL DEF Spec

-----------------------------------------------------------------------------
(***************************************************************************)
(* Drops: what a connection leaves over, and what push_in gives up.        *)
(***************************************************************************)

\* OneStaleToTake of the queue and the producer's item it is about.
FewStale(q, push, now) ==
  LET Stale(x) == x # NoItem /\ x.session # now
  IN  /\ \A i, j \in 1..Len(q) : Stale(q[i]) /\ Stale(q[j]) => i = j
      /\ Stale(push) => \A i \in 1..Len(q) : ~Stale(q[i])

(* Taking the oldest item away makes room for nothing that is stale.        *)
LEMMA StaleDropped ==
  ASSUME NEW q \in Seq(Items), q # <<>>, NEW push, NEW now, FewStale(q, push, now)
  PROVE  FewStale(Tail(q), push, now)
  <1>1. /\ Len(q) \in Nat /\ Len(Tail(q)) = Len(q) - 1
        /\ \A i \in 1..Len(Tail(q)) : Tail(q)[i] = q[i + 1]
    BY HeadTailProperties, LenProperties
  <1>2. \A i \in 1..Len(Tail(q)) : i + 1 \in 1..Len(q)
    BY <1>1
  <1>3. \A i, j \in 1..Len(Tail(q)) : i + 1 = j + 1 => i = j
    BY <1>1
  <1> QED
    BY <1>1, <1>2, <1>3 DEF FewStale

(* rx_task's item takes its place in the queue, or one of this connection.  *)
LEMMA StaleQueued ==
  ASSUME NEW q \in Seq(Items), NEW push \in Items \cup {NoItem}, NEW now,
         FewStale(q, push, now), NEW x \in Items
  PROVE  /\ x = push => FewStale(Append(q, x), NoItem, now)
         /\ x.session = now => FewStale(Append(q, x), push, now)
  <1>1. /\ Len(q) \in Nat /\ Len(Append(q, x)) = Len(q) + 1
        /\ \A i \in 1..Len(q) : Append(q, x)[i] = q[i]
        /\ Append(q, x)[Len(q) + 1] = x
    BY AppendProperties, LenProperties
  <1>2. \A i \in 1..Len(Append(q, x)) : i \in 1..Len(q) \/ i = Len(q) + 1
    BY <1>1
  <1>3. ASSUME x = push
        PROVE  FewStale(Append(q, x), NoItem, now)
    BY <1>1, <1>2, <1>3 DEF FewStale
  <1>4. ASSUME x.session = now
        PROVE  FewStale(Append(q, x), push, now)
    BY <1>1, <1>2, <1>4 DEF FewStale
  <1> QED
    BY <1>3, <1>4

(* At the start there is no connection to be left from.                     *)
LEMMA InitStaleInv == Init => StaleInv
  BY ItemFacts DEF Init, StaleInv, OneStaleToTake, IsStale, Producers

(* A connection empties the queue; what rx_task had let through before and  *)
(* still pushes is the only report that can come in from before.           *)
LEMMA NextStaleInv == TypeInv /\ LineInv /\ StaleInv /\ [Next]_vars => StaleInv'
  <1> SUFFICES ASSUME TypeInv, LineInv, StaleInv, [Next]_vars PROVE StaleInv'
    OBVIOUS
  <1> USE DEF queueVars, usbVars, rxVars, txVars, gameVars
  <1> DEFINE Few == FewStale(s_in_q, pushing["rx"], session)
  <1>0. /\ s_in_q \in Seq(Items) /\ Len(s_in_q) \in Nat
        /\ pushing \in [Producers -> Items \cup {NoItem}]
        /\ pushing["rx"] \in Items \cup {NoItem}
        /\ pushing["usb"] \in Items \cup {NoItem}
        /\ pushing["usb"] # NoItem => pushing["usb"].session = session
        /\ PushInv
    BY LenProperties DEF TypeInv, TypeOK, Producers, StaleInv, LineInv
  <1>a. OneStaleToTake <=> (usbPc # "reset" => Few)
    BY DEF OneStaleToTake, FewStale, IsStale
  <1>b. OneStaleToTake' <=> (usbPc' # "reset" => Few')
    BY DEF OneStaleToTake, FewStale, IsStale
  <1> HIDE DEF Few
  <1>1. ASSUME NEW p \in Producers,
               QueueItem(p) \/ DropOldest(p) \/ QueueAgain(p)
        PROVE  StaleInv'
    <2>1. /\ pushing[p] \in Items /\ pushing[p] # NoItem
          /\ UNCHANGED <<usbPc, session>>
          /\ pushing' = pushing \/ pushing' = [pushing EXCEPT ![p] = NoItem]
      BY <1>0, <1>1, ItemFacts
      DEF PushInv, TypeInv, TypeOK, QueueItem, DropOldest, QueueAgain
    <2>2. pushing'["usb"] # NoItem => pushing'["usb"].session = session'
      BY <1>0, <2>1 DEF Producers
    <2>3. ASSUME Few PROVE Few'
      <3> USE DEF Few
      <3>1. CASE s_in_q' = s_in_q /\ pushing' = pushing
        BY <2>1, <2>3, <3>1
      <3>2. CASE /\ s_in_q' = s_in_q
                 /\ pushing' = [pushing EXCEPT ![p] = NoItem]
        <4>1. pushing'["rx"] \in {pushing["rx"], NoItem}
          BY <1>0, <3>2 DEF Producers
        <4> QED
          BY <2>1, <2>3, <3>2, <4>1 DEF FewStale
      <3>3. CASE /\ s_in_q' = Append(s_in_q, pushing[p])
                 /\ pushing' = [pushing EXCEPT ![p] = NoItem]
        <4>1. CASE p = "rx"
          <5>1. pushing'["rx"] = NoItem
            BY <1>0, <3>3, <4>1 DEF Producers
          <5> QED
            BY <1>0, <2>1, <2>3, <3>3, <4>1, <5>1, StaleQueued
        <4>2. CASE p = "usb"
          <5>1. pushing'["rx"] = pushing["rx"] /\ pushing[p].session = session
            BY <1>0, <2>1, <3>3, <4>2 DEF Producers
          <5> QED
            <6> DEFINE x == pushing["usb"]
            <6>1. x \in Items /\ x.session = session
              BY <2>1, <4>2, <5>1
            <6>2. s_in_q' = Append(s_in_q, x) /\ session' = session
              BY <2>1, <3>3, <4>2
            <6> HIDE DEF x
            <6>3. FewStale(Append(s_in_q, x), pushing["rx"], session)
              BY <1>0, <2>3, <6>1, StaleQueued
            <6> QED
              BY <5>1, <6>2, <6>3
        <4> QED
          BY <4>1, <4>2 DEF Producers
      <3>4. CASE s_in_q' = <<>> /\ pushing' = pushing
        BY <3>4 DEF FewStale
      <3>5. CASE s_in_q # <<>> /\ s_in_q' = Tail(s_in_q) /\ pushing' = pushing
        BY <1>0, <2>1, <2>3, <3>5, StaleDropped
      <3>6. QueueItem(p) \/ QueueAgain(p) => Few'
        BY <3>1, <3>2, <3>3 DEF QueueItem, QueueAgain
      <3>7. DropOldest(p) => Few'
        BY <3>4, <3>5 DEF DropOldest
      <3> QED
        BY <1>1, <3>6, <3>7
    <2> QED
      BY <1>a, <1>b, <2>1, <2>2, <2>3 DEF StaleInv
  <1>2. CASE Mount \/ Umount
    <2>1. usbPc' = "reset" /\ UNCHANGED pushing /\ pushPc["usb"] = "idle"
      BY <1>2 DEF Mount, Umount, usbFree
    <2>2. pushing'["usb"] = NoItem
      BY <1>0, <2>1 DEF PushInv, Producers
    <2> QED
      BY <1>b, <2>1, <2>2 DEF StaleInv
  <1>3. CASE ResetQueue
    <2>1. Few'
      BY <1>3 DEF ResetQueue, Few, FewStale
    <2> QED
      BY <1>0, <1>3, <1>b, <2>1 DEF ResetQueue, StaleInv
  <1>4. CASE AnswerCommand
    <2>1. /\ UNCHANGED <<s_in_q, session>> /\ usbPc # "reset"
          /\ pushing'["rx"] = pushing["rx"]
          /\ pushing'["usb"].session = session
      BY <1>0, <1>4 DEF AnswerCommand, StartPush, Producers
    <2>2. Few'
      BY <1>a, <2>1 DEF StaleInv, Few
    <2> QED
      BY <1>b, <2>1, <2>2 DEF StaleInv
  <1>5. CASE ReceiveReport
    <2>1. /\ UNCHANGED <<s_in_q, session, usbPc>>
          /\ pushing'["usb"] = pushing["usb"]
          /\ pushing'["rx"] = pushing["rx"] \/ pushing'["rx"].session = session
      BY <1>0, <1>5 DEF ReceiveReport, StartPush, Producers
    <2>2. ASSUME Few PROVE Few'
      BY <2>1, <2>2 DEF Few, FewStale
    <2> QED
      BY <1>0, <1>a, <1>b, <2>1, <2>2 DEF StaleInv
  <1>6. CASE TakeItem
    <2>1. ASSUME Few PROVE Few'
      BY <1>0, <1>6, <2>1, StaleDropped DEF TakeItem, Few
    <2> QED
      BY <1>0, <1>6, <1>a, <1>b, <2>1 DEF TakeItem, StaleInv
  <1>7. CASE UNCHANGED <<s_in_q, pushing, session>>
             /\ (usbPc' # "reset" => usbPc # "reset")
    BY <1>0, <1>7, <1>a, <1>b DEF StaleInv, Few
  <1>8. CASE BusReset \/ ReceiveCommand \/ LearnEcho \/ SendItem \/ DropItem
               \/ RetryItem \/ HostPoll \/ UNCHANGED vars
    BY <1>7, <1>8 DEF BusReset, ReceiveCommand, LearnEcho, SendItem, DropItem,
                      RetryItem, HostPoll, vars, usbFree
  <1> QED
    BY <1>1, <1>2, <1>3, <1>4, <1>5, <1>6, <1>8
    DEF Next, PushIn, UsbTask, RxTask, TxTask

(* Once a connection has reset the queue, tx_task has at most one report    *)
(* from before it to take: the one rx_task was pushing.                    *)
THEOREM OneStale == Spec => []OneStaleToTake
  <1>1. StaleInv => OneStaleToTake
    BY DEF StaleInv
  <1> QED
    BY <1>1, InitStaleInv, NextStaleInv, LineInvariant, PTL DEF Spec

(* After the drop of push_in the queue has a place free, and only the other *)
(* task can have taken it.                                                 *)
LEMMA NextRaces ==
  TypeInv /\ LineInv /\ OnlyRacesLose /\ [Next]_vars => OnlyRacesLose'
  <1> SUFFICES ASSUME TypeInv, LineInv, OnlyRacesLose, [Next]_vars
               PROVE  OnlyRacesLose'
    OBVIOUS
  <1> USE DEF queueVars, usbVars, rxVars, txVars, gameVars
  <1>0. /\ s_in_q \in Seq(Items) /\ Len(s_in_q) \in Nat /\ Len(s_in_q) <= InQCap
        /\ pushPc \in [Producers -> {"idle", "send", "drop", "again"}]
        /\ InQCap \in Nat \ {0}
    BY LenProperties, ConsoleReportsAssumption DEF TypeInv, TypeOK
  <1>1. \A p \in Producers : pushPc[p] # "idle" =>
          pushing[p] \in Items /\ pushing[p].kind \in KindsOf[p]
    <2>1. \A p \in Producers : pushPc[p] # "idle" => pushing[p] \in Items
      BY DEF TypeInv, TypeOK
    <2>2. /\ pushing["rx"] # NoItem => pushing["rx"].kind \in PortalReports
          /\ pushing["usb"] # NoItem => pushing["usb"].kind \in Answers
      BY DEF LineInv, ReportLine, AnswerLine, Line
    <2>3. KindsOf["rx"] = PortalReports /\ KindsOf["usb"] = Answers
      BY DEF KindsOf
    <2> QED
      BY <2>1, <2>2, <2>3, ItemFacts DEF Producers
  <1>2. s_in_q # <<>> => Len(Tail(s_in_q)) < InQCap
    BY <1>0, HeadTailProperties
  <1>3. Len(<<>>) < InQCap
    BY <1>0
  <1>4. CASE Len(s_in_q') < InQCap
    BY <1>0, <1>4 DEF OnlyRacesLose
  <1>5. CASE s_in_q' = s_in_q
             /\ \A p \in Producers : pushPc'[p] = "again" => pushPc[p] = "again"
    BY <1>5 DEF OnlyRacesLose
  <1>6. ASSUME NEW p \in Producers, QueueItem(p) \/ QueueAgain(p)
        PROVE  OnlyRacesLose'
    <2>1. /\ \A r \in Producers : pushPc'[r] = "again" => pushPc[r] = "again" /\ r # p
          /\ pushPc[p] # "idle"
      BY <1>0, <1>6 DEF QueueItem, QueueAgain
    <2>2. CASE s_in_q' = s_in_q
      BY <1>5, <2>1, <2>2
    <2>3. CASE s_in_q' = Append(s_in_q, pushing[p]) /\ Len(s_in_q) < InQCap
      <3>1. /\ Len(s_in_q') = Len(s_in_q) + 1
            /\ s_in_q'[Len(s_in_q) + 1] = pushing[p]
        BY <1>0, <1>1, <2>1, <2>3, AppendProperties
      <3>2. \A r, q \in Producers : r # q /\ pushPc'[r] = "again" => q = p
        BY <2>1 DEF Producers
      <3> QED
        BY <1>1, <2>1, <3>1, <3>2 DEF OnlyRacesLose
    <2> QED
      BY <1>6, <2>2, <2>3 DEF QueueItem, QueueAgain
  <1>7. ASSUME NEW p \in Producers, DropOldest(p)
        PROVE  OnlyRacesLose'
    BY <1>2, <1>3, <1>4, <1>7 DEF DropOldest
  <1>8. CASE ResetQueue \/ TakeItem
    BY <1>2, <1>3, <1>4, <1>8 DEF ResetQueue, TakeItem
  <1>9. CASE AnswerCommand \/ ReceiveReport
    BY <1>0, <1>5, <1>9 DEF AnswerCommand, ReceiveReport, StartPush
  <1>10. CASE Mount \/ BusReset \/ Umount \/ ReceiveCommand \/ LearnEcho
    BY <1>5, <1>10 DEF Mount, BusReset, Umount, ReceiveCommand, LearnEcho
  <1>11. CASE SendItem \/ DropItem \/ RetryItem \/ HostPoll \/ UNCHANGED vars
    BY <1>5, <1>11 DEF SendItem, DropItem, RetryItem, HostPoll, vars
  <1> QED
    BY <1>6, <1>7, <1>8, <1>9, <1>10, <1>11
    DEF Next, PushIn, UsbTask, RxTask, TxTask

(* push_in gives up its own report only to one of the other task, which     *)
(* took the place that push_in had made.                                   *)
THEOREM OnlyRaces == Spec => []OnlyRacesLose
  <1>1. Init => OnlyRacesLose
    BY DEF Init, OnlyRacesLose
  <1> QED
    BY <1>1, NextRaces, LineInvariant, PTL DEF Spec

=============================================================================
