------------------------- MODULE ReliableWriteProofs -------------------------
(***************************************************************************)
(* Proofs about ReliableWrite, for every number of writes, attempts and    *)
(* restarts and every queue length.                                        *)
(***************************************************************************)
EXTENDS ReliableWrite, SequenceTheorems, TLAPS

(***************************************************************************)
(* Queues.                                                                 *)
(***************************************************************************)

(* Taking the head off a queue.                                            *)
LEMMA TakeFacts ==
  ASSUME NEW S, NEW q \in Seq(S), q # <<>>
  PROVE  /\ Head(q) \in S
         /\ Head(q) = q[1]
         /\ Tail(q) \in Seq(S)
         /\ Len(q) \in Nat \ {0}
         /\ Len(Tail(q)) = Len(q) - 1
         /\ \A i \in 1..Len(Tail(q)) : Tail(q)[i] = q[i + 1]
  OBVIOUS

(* Appending to a queue.                                                   *)
LEMMA AppendFacts ==
  ASSUME NEW S, NEW q \in Seq(S), NEW x \in S
  PROVE  /\ Append(q, x) \in Seq(S)
         /\ Len(q) \in Nat
         /\ Len(Append(q, x)) = Len(q) + 1
         /\ \A i \in 1..Len(q) : Append(q, x)[i] = q[i]
         /\ Append(q, x)[Len(q) + 1] = x
  OBVIOUS

(* A send into the receiver's queue keeps its type and its bound; what it   *)
(* holds afterwards is what it held before, perhaps without the oldest,    *)
(* and perhaps the new frame in the last place.                            *)
LEMMA SendFacts ==
  ASSUME NEW S, NEW q \in Seq(S), NEW x \in S, Len(q) <= RxQCap,
         NEW r \in AfterSend(q, x)
  PROVE  /\ r \in Seq(S)
         /\ Len(r) <= RxQCap
         /\ \E d \in {0, 1} : \A i \in 1..Len(r) :
              \/ i + d \in 1..Len(q) /\ r[i] = q[i + d]
              \/ i = Len(r) /\ r[i] = x
  <1>1. CASE r = q
    <2>1. \A i \in 1..Len(r) : i + 0 \in 1..Len(q) /\ r[i] = q[i + 0]
      BY <1>1
    <2> QED
      BY <1>1, <2>1
  <1>2. CASE r = Append(q, x) /\ Len(q) < RxQCap
    <2>1. r \in Seq(S) /\ Len(r) = Len(q) + 1 /\ Len(q) \in Nat
      BY <1>2, AppendFacts
    <2>2. \A i \in 1..Len(r) :
            \/ i + 0 \in 1..Len(q) /\ r[i] = q[i + 0]
            \/ i = Len(r) /\ r[i] = x
      BY <1>2, <2>1, AppendFacts
    <2>3. Len(r) <= RxQCap
      BY <1>2, <2>1, ReliableWriteAssumption
    <2> QED
      BY <2>1, <2>2, <2>3
  <1>3. CASE r = Append(Tail(q), x) /\ ~(Len(q) < RxQCap)
    <2>1. q # <<>>
      BY <1>3, ReliableWriteAssumption
    <2>2. /\ Tail(q) \in Seq(S)
          /\ Len(q) \in Nat \ {0}
          /\ Len(Tail(q)) = Len(q) - 1
          /\ \A i \in 1..Len(Tail(q)) : Tail(q)[i] = q[i + 1]
      BY <2>1, TakeFacts
    <2>3. /\ r \in Seq(S)
          /\ Len(r) = Len(Tail(q)) + 1
          /\ \A i \in 1..Len(Tail(q)) : r[i] = Tail(q)[i]
          /\ r[Len(Tail(q)) + 1] = x
      BY <1>3, <2>2, AppendFacts
    <2>4. ASSUME NEW i \in 1..Len(r)
          PROVE  \/ i + 1 \in 1..Len(q) /\ r[i] = q[i + 1]
                 \/ i = Len(r) /\ r[i] = x
      <3>1. CASE i = Len(r)
        BY <2>3, <3>1
      <3>2. CASE i # Len(r)
        <4> DEFINE n == Len(q)
        <4>0. n \in Nat /\ Len(r) = n /\ Len(Tail(q)) = n - 1
          BY <2>2, <2>3
        <4> HIDE DEF n
        <4>1. i \in 1..Len(Tail(q)) /\ i + 1 \in 1..n
          BY <3>2, <4>0
        <4>2. r[i] = Tail(q)[i]
          BY <2>3, <4>1
        <4>3. Tail(q)[i] = q[i + 1]
          BY <2>2, <4>1
        <4> QED
          BY <4>1, <4>2, <4>3 DEF n
      <3> QED
        BY <3>1, <3>2
    <2>5. Len(r) <= RxQCap
      BY <2>2, <2>3
    <2> QED
      BY <2>3, <2>4, <2>5
  <1> QED
    BY <1>1, <1>2, <1>3 DEF AfterSend, DropOldestPush

(* Sending a number of a set into a queue of such numbers.                  *)
LEMMA SendMembers ==
  ASSUME NEW S, NEW q \in Seq(S), NEW x \in S, Len(q) <= RxQCap,
         NEW r \in AfterSend(q, x)
  PROVE  \A i \in 1..Len(r) : r[i] = x \/ \E j \in 1..Len(q) : r[i] = q[j]
  <1>1. PICK d \in {0, 1} : \A i \in 1..Len(r) :
          \/ i + d \in 1..Len(q) /\ r[i] = q[i + d]
          \/ i = Len(r) /\ r[i] = x
    BY SendFacts
  <1> QED
    BY <1>1

(* Sending the newest frame into a sorted queue leaves it sorted.           *)
LEMMA SendSorted ==
  ASSUME NEW q \in Seq(Frames), NEW x \in Frames, Len(q) <= RxQCap,
         NEW r \in AfterSend(q, x),
         \A i \in 1..Len(q) : q[i].id <= x.id,
         \A i, j \in 1..Len(q) : i <= j => q[i].id <= q[j].id
  PROVE  \A i, j \in 1..Len(r) : i <= j => r[i].id <= r[j].id
  <1>1. PICK d \in {0, 1} : \A i \in 1..Len(r) :
          \/ i + d \in 1..Len(q) /\ r[i] = q[i + d]
          \/ i = Len(r) /\ r[i] = x
    BY SendFacts, SMTT(30)
  <1>2. Len(r) \in Nat /\ Len(q) \in Nat /\ x.id \in Int
    BY SendFacts DEF Frames, Ids
  <1> SUFFICES ASSUME NEW i \in 1..Len(r), NEW j \in 1..Len(r), i <= j
               PROVE  r[i].id <= r[j].id
    OBVIOUS
  <1>3. CASE i + d \in 1..Len(q) /\ r[i] = q[i + d]
    <2>1. CASE j + d \in 1..Len(q) /\ r[j] = q[j + d]
      <3>1. i + d <= j + d
        BY <1>2
      <3> QED
        BY <1>3, <2>1, <3>1
    <2>2. CASE j = Len(r) /\ r[j] = x
      BY <1>3, <2>2
    <2> QED
      BY <1>1, <2>1, <2>2
  <1>4. CASE i = Len(r) /\ r[i] = x
    <2>1. j = i
      BY <1>2, <1>4
    <2> QED
      BY <1>2, <1>4, <2>1
  <1> QED
    BY <1>1, <1>3, <1>4

-----------------------------------------------------------------------------
(***************************************************************************)
(* The inductive invariants.                                               *)
(***************************************************************************)

\* The write that left s_write_q most recently.
Base == accepted - Len(writeQ)

(* Writes keep their order all the way: s_write_q holds the writes after    *)
(* Base, write_task is at Base, and what is on its way to the portal is     *)
(* sorted and no older than what the portal side has handled.              *)
QueueInOrder ==
  /\ Base >= 0
  /\ \A j \in 1..Len(writeQ) : writeQ[j] = Base + j
  /\ pc # "idle" => cur = Base

FramesInOrder ==
  /\ \A i \in 1..Len(toPortal) : lastHandled <= toPortal[i].id /\ toPortal[i].id <= Base
  /\ \A i, j \in 1..Len(toPortal) : i <= j => toPortal[i].id <= toPortal[j].id

WorkerInOrder ==
  /\ lastHandled <= Base
  /\ workerPc = "deliver" =>
       /\ lastHandled <= worker.id
       /\ worker.id <= Base
       /\ \A i \in 1..Len(toPortal) : worker.id <= toPortal[i].id

OrderInv == QueueInOrder /\ FramesInOrder /\ WorkerInOrder

(* While the console side is not restarted a sequence number names one      *)
(* write, so every acknowledgement under way is the acknowledgement of a    *)
(* write that has been handled.                                             *)
NumbersAreWrites ==
  /\ consoleReboots = 0
  /\ cur = Base
  /\ seq = (cur + 1) % SeqMod
  /\ pc # "idle" => cur >= 1 /\ myseq = cur
  /\ \A i \in 1..Len(toPortal) : toPortal[i].seq = toPortal[i].id
  /\ workerPc # "recv" => worker.seq = worker.id

AcksAreHandled ==
  /\ workerPc = "ack" => worker.id \in handled
  /\ \A i \in 1..Len(toConsole) : toConsole[i] \in handled
  /\ ackedSeq # 0 => ackedSeq \in handled
  /\ acked \subseteq handled

AckInv == NumbersAreWrites /\ AcksAreHandled

-----------------------------------------------------------------------------
(***************************************************************************)
(* Type correctness.                                                       *)
(***************************************************************************)

(* At the start the queues are empty.                                       *)
LEMMA InitTypeOK == Init => TypeOK
  <1> SUFFICES ASSUME Init PROVE TypeOK
    OBVIOUS
  <1>1. 0 \in Seqs /\ 1 \in Seqs
    BY ReliableWriteAssumption DEF Seqs
  <1>2. writeQ \in Seq(Ids) /\ toConsole \in Seq(Seqs) /\ toPortal \in Seq(Frames)
    BY DEF Init
  <1>3. Len(writeQ) = 0 /\ Len(toConsole) = 0 /\ Len(toPortal) = 0
    BY DEF Init
  <1>4. /\ Len(writeQ) <= WriteQCap
        /\ Len(toConsole) <= RxQCap
        /\ Len(toPortal) <= RxQCap
    BY <1>3, ReliableWriteAssumption
  <1>5. /\ accepted \in 0..MaxWrites /\ cur \in 0..MaxWrites
        /\ attempt \in 0..MaxAttempts /\ lastHandled \in 0..MaxWrites
        /\ portalReboots \in 0..MaxPortalReboots
        /\ consoleReboots \in 0..MaxConsoleReboots
    BY ReliableWriteAssumption DEF Init
  <1> QED
    BY <1>1, <1>2, <1>4, <1>5 DEF Init, TypeOK

(* The three ways an attempt ends keep write_task's variables in range.     *)
LEMMA NextAttemptTypeOK ==
  ASSUME TypeOK, NextAttempt, pc # "idle"
  PROVE  /\ attempt' \in 0..MaxAttempts
         /\ pc' \in {"idle", "send", "wait", "check"}
         /\ pc' # "idle" => attempt' < MaxAttempts
         /\ lost' \subseteq Ids
  BY ReliableWriteAssumption DEF TypeOK, NextAttempt

(* Every action keeps the types.                                            *)
LEMMA NextTypeOK == TypeOK /\ [Next]_vars => TypeOK'
  <1> SUFFICES ASSUME TypeOK, [Next]_vars PROVE TypeOK'
    OBVIOUS
  <1> USE DEF writeTaskVars, ackVars, portalVars, rebootVars, outcomeVars,
              deliveryVars
  <1>1. CASE ConsoleWrite
    <2>1. CASE Len(writeQ) < WriteQCap
      <3>1. accepted' = accepted + 1 /\ writeQ' = Append(writeQ, accepted + 1)
        BY <1>1, <2>1 DEF ConsoleWrite
      <3>2. accepted + 1 \in Ids
        BY <1>1, ReliableWriteAssumption DEF ConsoleWrite, TypeOK, Ids
      <3>3. writeQ' \in Seq(Ids) /\ Len(writeQ') <= WriteQCap
        BY <2>1, <3>1, <3>2, AppendFacts, ReliableWriteAssumption DEF TypeOK
      <3> QED
        BY <1>1, <2>1, <3>1, <3>2, <3>3 DEF ConsoleWrite, TypeOK, Ids
    <2>2. CASE ~(Len(writeQ) < WriteQCap)
      BY <1>1, <2>2 DEF ConsoleWrite, TypeOK
    <2> QED
      BY <2>1, <2>2
  <1>2. CASE TakeWrite
    <2>1. /\ Head(writeQ) \in Ids
          /\ Tail(writeQ) \in Seq(Ids)
          /\ Len(Tail(writeQ)) = Len(writeQ) - 1
          /\ Len(writeQ) \in Nat
      BY <1>2, TakeFacts DEF TakeWrite, TypeOK
    <2>2. Len(Tail(writeQ)) <= WriteQCap
      BY <2>1, ReliableWriteAssumption DEF TypeOK
    <2>3. (seq + 1) % SeqMod \in Seqs
      BY ReliableWriteAssumption DEF TypeOK, Seqs
    <2>4. Head(writeQ) \in 0..MaxWrites /\ 0 \in 0..MaxAttempts /\ 0 < MaxAttempts
      BY <2>1, ReliableWriteAssumption DEF Ids
    <2> QED
      BY <1>2, <2>1, <2>2, <2>3, <2>4 DEF TakeWrite, TypeOK
  <1>3. CASE SendWrite
    <2>1. [id |-> cur, seq |-> myseq] \in Frames
      BY <1>3 DEF SendWrite, TypeOK, Frames
    <2>2. toPortal' \in Seq(Frames) /\ Len(toPortal') <= RxQCap
      BY <1>3, <2>1, SendFacts DEF SendWrite, TypeOK
    <2> QED
      BY <1>3, <2>2 DEF SendWrite, TypeOK
  <1>4. CASE AckWakes
    BY <1>4 DEF AckWakes, TypeOK
  <1>5. CASE CheckAck
    <2>1. CASE ackedSeq = myseq
      BY <1>5, <2>1 DEF CheckAck, TypeOK
    <2>2. CASE ackedSeq # myseq
      <3>1. NextAttempt /\ pc # "idle"
        BY <1>5, <2>2 DEF CheckAck
      <3> QED
        BY <1>5, <2>2, <3>1, NextAttemptTypeOK DEF CheckAck, TypeOK
    <2> QED
      BY <2>1, <2>2
  <1>6. CASE AckTimeout
    <2>1. NextAttempt /\ pc # "idle"
      BY <1>6 DEF AckTimeout
    <2> QED
      BY <1>6, <2>1, NextAttemptTypeOK DEF AckTimeout, TypeOK
  <1>7. CASE ReceiveAck
    <2>1. /\ Head(toConsole) \in Seqs
          /\ Tail(toConsole) \in Seq(Seqs)
          /\ Len(Tail(toConsole)) = Len(toConsole) - 1
          /\ Len(toConsole) \in Nat
      BY <1>7, TakeFacts DEF ReceiveAck, TypeOK
    <2>2. Len(Tail(toConsole)) <= RxQCap
      BY <2>1, ReliableWriteAssumption DEF TypeOK
    <2> QED
      BY <1>7, <2>1, <2>2 DEF ReceiveAck, TypeOK
  <1>8. CASE GiveAckSem
    BY <1>8 DEF GiveAckSem, TypeOK
  <1>9. CASE PortalReceive
    <2>1. /\ Head(toPortal) \in Frames
          /\ Tail(toPortal) \in Seq(Frames)
          /\ Len(Tail(toPortal)) = Len(toPortal) - 1
          /\ Len(toPortal) \in Nat
      BY <1>9, TakeFacts DEF PortalReceive, TypeOK
    <2>2. Len(Tail(toPortal)) <= RxQCap
      BY <2>1, ReliableWriteAssumption DEF TypeOK
    <2> QED
      BY <1>9, <2>1, <2>2 DEF PortalReceive, TypeOK
  <1>10. CASE PortalDeliver
    <2>1. worker.id \in Ids
      BY <1>10 DEF PortalDeliver, TypeOK, Frames
    <2>2. handled' \subseteq Ids /\ applied' \subseteq Ids
      BY <1>10, <2>1 DEF PortalDeliver, TypeOK
    <2>3. lastHandled' \in 0..MaxWrites
      BY <1>10, <2>1, ReliableWriteAssumption DEF PortalDeliver, Ids
    <2> QED
      BY <1>10, <2>2, <2>3 DEF PortalDeliver, TypeOK
  <1>11. CASE PortalAck
    <2>1. worker.seq \in Seqs
      BY <1>11 DEF PortalAck, TypeOK, Frames
    <2>2. toConsole' \in Seq(Seqs) /\ Len(toConsole') <= RxQCap
      BY <1>11, <2>1, SendFacts DEF PortalAck, TypeOK
    <2> QED
      BY <1>11, <2>2 DEF PortalAck, TypeOK
  <1>12. CASE PortalPlugged
    BY <1>12 DEF PortalPlugged, TypeOK
  <1>13. CASE PortalUnplugged
    BY <1>13 DEF PortalUnplugged, TypeOK
  <1>14. CASE PortalReboot
    <2>1. toPortal' \in Seq(Frames) /\ Len(toPortal') = 0
      BY <1>14 DEF PortalReboot
    <2>2. Len(toPortal') <= RxQCap
      BY <2>1, ReliableWriteAssumption
    <2>3. portalReboots' \in 0..MaxPortalReboots
      BY <1>14, ReliableWriteAssumption DEF PortalReboot, TypeOK
    <2> QED
      BY <1>14, <2>1, <2>2, <2>3 DEF PortalReboot, TypeOK
  <1>15. CASE ConsoleReboot
    <2>1. /\ writeQ' \in Seq(Ids) /\ Len(writeQ') = 0
          /\ toConsole' \in Seq(Seqs) /\ Len(toConsole') = 0
      BY <1>15 DEF ConsoleReboot
    <2>2. Len(writeQ') <= WriteQCap /\ Len(toConsole') <= RxQCap
      BY <2>1, ReliableWriteAssumption
    <2>3. consoleReboots' \in 0..MaxConsoleReboots
      BY <1>15, ReliableWriteAssumption DEF ConsoleReboot, TypeOK
    <2>4. /\ 0 \in Seqs /\ 1 \in Seqs
          /\ 0 \in 0..MaxWrites /\ 0 \in 0..MaxAttempts
      BY ReliableWriteAssumption DEF Seqs
    <2> QED
      BY <1>15, <2>1, <2>2, <2>3, <2>4 DEF ConsoleReboot, TypeOK
  <1>16. CASE UNCHANGED vars
    BY <1>16 DEF vars, TypeOK
  <1> QED
    BY <1>1, <1>2, <1>3, <1>4, <1>5, <1>6, <1>7, <1>8, <1>9, <1>10, <1>11,
       <1>12, <1>13, <1>14, <1>15, <1>16
    DEF Next, WriteTask, AckPath, PortalWorker, Environment

(* Every variable stays in range: the retry counter in the range of its     *)
(* loop, the two receive queues and s_write_q within their lengths.         *)
THEOREM Typing == Spec => []TypeOK
  BY InitTypeOK, NextTypeOK, PTL DEF Spec
-----------------------------------------------------------------------------
(***************************************************************************)
(* Writes never overtake one another.                                      *)
(***************************************************************************)

(* At the start there is no write.                                          *)
LEMMA InitOrder == Init => OrderInv
  BY DEF Init, OrderInv, QueueInOrder, FramesInOrder, WorkerInOrder, Base

(* The numbers OrderInv speaks of are integers.                             *)
LEMMA OrderNumbers ==
  ASSUME TypeOK
  PROVE  /\ accepted \in Nat /\ Base \in Int /\ cur \in Nat /\ lastHandled \in Nat
         /\ Len(writeQ) \in Nat /\ Len(toPortal) \in Nat
         /\ \A i \in 1..Len(toPortal) : toPortal[i] \in Frames /\ toPortal[i].id \in Int
         /\ workerPc # "recv" => worker.id \in Int
  <1>1. /\ accepted \in Nat /\ cur \in Nat /\ lastHandled \in Nat
        /\ writeQ \in Seq(Ids) /\ toPortal \in Seq(Frames)
        /\ workerPc # "recv" => worker \in Frames
    BY DEF TypeOK
  <1>2. Len(writeQ) \in Nat /\ Len(toPortal) \in Nat
    BY <1>1
  <1>3. \A f \in Frames : f.id \in Int
    BY DEF Frames, Ids
  <1>4. \A i \in 1..Len(toPortal) : toPortal[i] \in Frames
    BY <1>1
  <1> QED
    BY <1>1, <1>2, <1>3, <1>4 DEF Base

(* The radio and the portal side see Base grow, never shrink.               *)
LEMMA LaterBase ==
  ASSUME TypeOK, FramesInOrder, WorkerInOrder, Base' \in Int, Base' >= Base,
         UNCHANGED <<toPortal, worker, workerPc, lastHandled>>
  PROVE  FramesInOrder' /\ WorkerInOrder'
  <1>1. FramesInOrder'
    BY OrderNumbers DEF FramesInOrder
  <1>2. WorkerInOrder'
    BY OrderNumbers DEF WorkerInOrder
  <1> QED
    BY <1>1, <1>2

(* Every action keeps the order.                                            *)
LEMMA NextOrder == TypeOK /\ OrderInv /\ [Next]_vars => OrderInv'
  <1> SUFFICES ASSUME TypeOK, OrderInv, [Next]_vars PROVE OrderInv'
    OBVIOUS
  <1> USE DEF writeTaskVars, ackVars, portalVars, rebootVars, outcomeVars,
              deliveryVars
  <1>0. /\ QueueInOrder /\ FramesInOrder /\ WorkerInOrder
        /\ Base \in Int /\ Base' \in Int
        /\ accepted \in Nat /\ Len(writeQ) \in Nat
    <2>1. TypeOK'
      BY NextTypeOK
    <2>2. Base' \in Int
      <3>1. accepted' \in Int /\ writeQ' \in Seq(Ids)
        BY <2>1 DEF TypeOK
      <3>2. Len(writeQ') \in Int
        BY <3>1
      <3> QED
        BY <3>1, <3>2 DEF Base
    <2> QED
      BY <2>2, OrderNumbers DEF OrderInv
  <1>a. ASSUME UNCHANGED <<accepted, writeQ>>, pc' # "idle" => pc # "idle" /\ cur' = cur
        PROVE  QueueInOrder' /\ Base' = Base
    BY <1>0, <1>a DEF QueueInOrder, Base
  <1>1. CASE ConsoleWrite
    <2>1. CASE Len(writeQ) < WriteQCap
      <3>1. accepted' = accepted + 1 /\ writeQ' = Append(writeQ, accepted + 1)
        BY <1>1, <2>1 DEF ConsoleWrite
      <3>2. accepted + 1 \in Ids /\ writeQ \in Seq(Ids)
        BY <1>1, ReliableWriteAssumption DEF ConsoleWrite, TypeOK, Ids
      <3>3. /\ Len(writeQ') = Len(writeQ) + 1
            /\ \A j \in 1..Len(writeQ) : writeQ'[j] = writeQ[j]
            /\ writeQ'[Len(writeQ) + 1] = accepted + 1
        BY <3>1, <3>2, AppendFacts
      <3>4. Base' = Base
        BY <1>0, <3>1, <3>3 DEF Base
      <3>5. \A j \in 1..Len(writeQ') : writeQ'[j] = Base + j
        <4> SUFFICES ASSUME NEW j \in 1..Len(writeQ') PROVE writeQ'[j] = Base + j
          OBVIOUS
        <4>1. CASE j \in 1..Len(writeQ)
          BY <1>0, <3>3, <4>1 DEF QueueInOrder
        <4>2. CASE j = Len(writeQ) + 1
          BY <1>0, <3>3, <4>2 DEF Base
        <4> QED
          BY <1>0, <3>3, <4>1, <4>2
      <3>6. QueueInOrder'
        BY <1>0, <1>1, <3>4, <3>5 DEF QueueInOrder, ConsoleWrite
      <3> QED
        BY <1>0, <1>1, <3>4, <3>6, LaterBase DEF OrderInv, ConsoleWrite
    <2>2. CASE ~(Len(writeQ) < WriteQCap)
      BY <1>0, <1>1, <2>2, <1>a, LaterBase DEF ConsoleWrite, OrderInv
    <2> QED
      BY <2>1, <2>2
  <1>2. CASE TakeWrite
    <2>1. /\ Head(writeQ) = writeQ[1]
          /\ Len(writeQ) \in Nat \ {0}
          /\ Len(writeQ') = Len(writeQ) - 1
          /\ \A j \in 1..Len(writeQ') : writeQ'[j] = writeQ[j + 1]
      BY <1>2, TakeFacts DEF TakeWrite, TypeOK
    <2>2. Base' = Base + 1
      BY <1>0, <1>2, <2>1 DEF Base, TakeWrite
    <2>3. cur' = Base'
      BY <1>0, <1>2, <2>1, <2>2 DEF QueueInOrder, TakeWrite
    <2>4. \A j \in 1..Len(writeQ') : writeQ'[j] = Base' + j
      BY <1>0, <2>1, <2>2 DEF QueueInOrder
    <2>5. QueueInOrder'
      BY <1>0, <2>2, <2>3, <2>4 DEF QueueInOrder
    <2> QED
      BY <1>0, <1>2, <2>2, <2>5, LaterBase DEF OrderInv, TakeWrite
  <1>3. CASE SendWrite
    <2> DEFINE f == [id |-> cur, seq |-> myseq]
    <2>1. f \in Frames /\ f.id = Base
      BY <1>0, <1>3 DEF SendWrite, TypeOK, Frames, QueueInOrder
    <2>2. /\ toPortal \in Seq(Frames) /\ Len(toPortal) <= RxQCap
          /\ toPortal' \in AfterSend(toPortal, f)
          /\ UNCHANGED <<accepted, writeQ, cur, worker, workerPc, lastHandled>>
          /\ pc # "idle"
      BY <1>3 DEF SendWrite, TypeOK
    <2> HIDE DEF f
    <2>3. QueueInOrder' /\ Base' = Base
      BY <2>2, <1>a
    <2>4. \A i \in 1..Len(toPortal') :
            toPortal'[i] = f \/ \E j \in 1..Len(toPortal) : toPortal'[i] = toPortal[j]
      BY <2>1, <2>2, SendMembers
    <2>5. FramesInOrder'
      <3>1. \A i, j \in 1..Len(toPortal') : i <= j => toPortal'[i].id <= toPortal'[j].id
        BY <1>0, <2>1, <2>2, SendSorted DEF FramesInOrder
      <3>2. \A i \in 1..Len(toPortal') :
              lastHandled <= toPortal'[i].id /\ toPortal'[i].id <= Base
        BY <1>0, <2>1, <2>4 DEF FramesInOrder, WorkerInOrder
      <3> QED
        BY <2>2, <2>3, <3>1, <3>2 DEF FramesInOrder
    <2>6. WorkerInOrder'
      BY <1>0, <2>1, <2>2, <2>3, <2>4 DEF WorkerInOrder
    <2> QED
      BY <2>3, <2>5, <2>6 DEF OrderInv
  <1>4. CASE AckWakes
    BY <1>0, <1>4, <1>a, LaterBase DEF AckWakes, OrderInv
  <1>5. CASE CheckAck
    BY <1>0, <1>5, <1>a, LaterBase DEF CheckAck, NextAttempt, OrderInv
  <1>6. CASE AckTimeout
    BY <1>0, <1>6, <1>a, LaterBase DEF AckTimeout, NextAttempt, OrderInv
  <1>7. CASE ReceiveAck
    BY <1>0, <1>7, <1>a, LaterBase DEF ReceiveAck, OrderInv
  <1>8. CASE GiveAckSem
    BY <1>0, <1>8, <1>a, LaterBase DEF GiveAckSem, OrderInv
  <1>9. CASE PortalReceive
    <2>1. /\ toPortal # <<>> /\ toPortal \in Seq(Frames)
          /\ worker' = Head(toPortal) /\ toPortal' = Tail(toPortal)
          /\ UNCHANGED <<accepted, writeQ, pc, cur, lastHandled>>
      BY <1>9 DEF PortalReceive, TypeOK
    <2>2. /\ worker' = toPortal[1]
          /\ Len(toPortal) \in Nat \ {0}
          /\ Len(toPortal') = Len(toPortal) - 1
          /\ \A i \in 1..Len(toPortal') : toPortal'[i] = toPortal[i + 1]
      BY <2>1, TakeFacts
    <2>3. QueueInOrder' /\ Base' = Base
      BY <2>1, <1>a
    <2>4. \A i \in 1..Len(toPortal') : i + 1 \in 1..Len(toPortal) /\ 1 \in 1..Len(toPortal)
      BY <2>2
    <2>5. FramesInOrder'
      <3>1. \A i \in 1..Len(toPortal') :
              lastHandled' <= toPortal'[i].id /\ toPortal'[i].id <= Base'
        BY <1>0, <2>1, <2>2, <2>3, <2>4 DEF FramesInOrder
      <3>2. ASSUME NEW i \in 1..Len(toPortal'), NEW j \in 1..Len(toPortal'), i <= j
            PROVE  toPortal'[i].id <= toPortal'[j].id
        <4>1. i + 1 <= j + 1 /\ i + 1 \in 1..Len(toPortal) /\ j + 1 \in 1..Len(toPortal)
          BY <2>2, <3>2
        <4> QED
          BY <1>0, <2>2, <4>1 DEF FramesInOrder
      <3> QED
        BY <3>1, <3>2 DEF FramesInOrder
    <2>6. WorkerInOrder'
      <3>1. lastHandled' <= worker'.id /\ worker'.id <= Base'
        BY <1>0, <2>1, <2>2, <2>3 DEF FramesInOrder
      <3>2. \A i \in 1..Len(toPortal') : worker'.id <= toPortal'[i].id
        <4> SUFFICES ASSUME NEW i \in 1..Len(toPortal')
                     PROVE  worker'.id <= toPortal'[i].id
          OBVIOUS
        <4>1. 1 <= i + 1 /\ i + 1 \in 1..Len(toPortal) /\ 1 \in 1..Len(toPortal)
          BY <2>2
        <4> QED
          BY <1>0, <2>2, <4>1 DEF FramesInOrder
      <3> QED
        BY <1>0, <2>1, <2>3, <3>1, <3>2 DEF WorkerInOrder
    <2> QED
      BY <2>3, <2>5, <2>6 DEF OrderInv
  <1>10. CASE PortalDeliver
    <2>1. /\ workerPc = "deliver" /\ workerPc' = "ack" /\ lastHandled' = worker.id
          /\ UNCHANGED <<accepted, writeQ, pc, cur, worker, toPortal>>
      BY <1>10 DEF PortalDeliver
    <2>2. QueueInOrder' /\ Base' = Base
      BY <2>1, <1>a
    <2>3. FramesInOrder'
      BY <1>0, <2>1, <2>2 DEF FramesInOrder, WorkerInOrder
    <2>4. WorkerInOrder'
      BY <1>0, <2>1, <2>2 DEF WorkerInOrder
    <2> QED
      BY <2>2, <2>3, <2>4 DEF OrderInv
  <1>11. CASE PortalAck
    <2>1. /\ workerPc' = "recv"
          /\ UNCHANGED <<accepted, writeQ, pc, cur, toPortal, lastHandled>>
      BY <1>11 DEF PortalAck
    <2>2. QueueInOrder' /\ Base' = Base
      BY <2>1, <1>a
    <2> QED
      BY <1>0, <2>1, <2>2 DEF OrderInv, FramesInOrder, WorkerInOrder
  <1>12. CASE PortalPlugged
    BY <1>0, <1>12, <1>a, LaterBase DEF PortalPlugged, OrderInv
  <1>13. CASE PortalUnplugged
    BY <1>0, <1>13, <1>a, LaterBase DEF PortalUnplugged, OrderInv
  <1>14. CASE PortalReboot
    <2>1. /\ workerPc' = "recv" /\ Len(toPortal') = 0
          /\ UNCHANGED <<accepted, writeQ, pc, cur, lastHandled>>
      BY <1>14 DEF PortalReboot
    <2>2. QueueInOrder' /\ Base' = Base
      BY <2>1, <1>a
    <2> QED
      BY <1>0, <2>1, <2>2 DEF OrderInv, FramesInOrder, WorkerInOrder
  <1>15. CASE ConsoleReboot
    <2>1. /\ Len(writeQ') = 0 /\ pc' = "idle" /\ accepted' = accepted
          /\ UNCHANGED <<toPortal, worker, workerPc, lastHandled>>
      BY <1>15 DEF ConsoleReboot
    <2>2. Base' = accepted /\ Base' >= Base
      BY <1>0, <2>1 DEF Base
    <2>3. QueueInOrder'
      BY <1>0, <2>1, <2>2 DEF QueueInOrder
    <2> QED
      BY <1>0, <2>1, <2>2, <2>3, LaterBase DEF OrderInv
  <1>16. CASE UNCHANGED vars
    BY <1>0, <1>16, <1>a, LaterBase DEF vars, OrderInv
  <1> QED
    BY <1>1, <1>2, <1>3, <1>4, <1>5, <1>6, <1>7, <1>8, <1>9, <1>10, <1>11,
       <1>12, <1>13, <1>14, <1>15, <1>16
    DEF Next, WriteTask, AckPath, PortalWorker, Environment

(* Writes stay in order between the game and the portal.                    *)
THEOREM Order == Spec => []OrderInv
  BY Typing, InitOrder, NextOrder, PTL DEF Spec

(* The portal side never handles an older write than the last one.          *)
LEMMA LastHandledGrows ==
  ASSUME TypeOK, OrderInv, [Next]_vars
  PROVE  lastHandled' >= lastHandled
  <1> USE DEF writeTaskVars, ackVars, portalVars, rebootVars, outcomeVars,
              deliveryVars
  <1>1. lastHandled \in Nat
    BY OrderNumbers
  <1>2. CASE PortalDeliver
    BY <1>2 DEF PortalDeliver, OrderInv, WorkerInOrder
  <1>3. CASE ~PortalDeliver
    <2>1. lastHandled' = lastHandled
      BY <1>3
      DEF Next, WriteTask, AckPath, PortalWorker, Environment, vars,
          ConsoleWrite, TakeWrite, SendWrite, AckWakes, CheckAck, AckTimeout,
          NextAttempt, ReceiveAck, GiveAckSem, PortalReceive, PortalAck,
          PortalPlugged, PortalUnplugged, PortalReboot, ConsoleReboot
    <2> QED
      BY <1>1, <2>1
  <1> QED
    BY <1>2, <1>3

(* The portal is never taken back to an older write: not by retries, by     *)
(* frames left in the portal side's queue, or by a restart of either board.  *)
THEOREM NeverGoesBack == Spec => WriteOrder
  <1>1. TypeOK /\ OrderInv /\ [Next]_vars => [lastHandled' >= lastHandled]_vars
    BY LastHandledGrows
  <1> QED
    BY <1>1, Typing, Order, PTL DEF Spec, WriteOrder

-----------------------------------------------------------------------------
(***************************************************************************)
(* An acknowledgement is never taken for that of another write.            *)
(***************************************************************************)

(* The 16 bits are enough for the writes of a run.                          *)
LEMMA SmallMod ==
  ASSUME NEW n \in Nat, NEW m \in Nat, n < m
  PROVE  n % m = n
  OBVIOUS

(* At the start no number is on its way.                                    *)
LEMMA InitAck == Init => AckInv
  <1> SUFFICES ASSUME Init PROVE AckInv
    OBVIOUS
  <1>1. SeqMod \in Nat /\ 1 < SeqMod
    BY ReliableWriteAssumption
  <1>2. (0 + 1) % SeqMod = 1
    <2>1. 0 + 1 = 1 /\ 1 \in Nat
      OBVIOUS
    <2>2. 1 % SeqMod = 1
      BY <1>1, <2>1, SmallMod, Zenon
    <2> QED
      BY <2>1, <2>2, Zenon
  <1>3. seq = (cur + 1) % SeqMod
    BY <1>2, Zenon DEF Init
  <1>4. cur = Base /\ Len(toPortal) = 0 /\ Len(toConsole) = 0
    <2>1. Len(writeQ) = 0 /\ Len(toPortal) = 0 /\ Len(toConsole) = 0
      BY DEF Init
    <2>2. accepted = 0 /\ cur = 0
      BY DEF Init
    <2>3. Base = 0
      BY <2>1, <2>2 DEF Base
    <2> QED
      BY <2>1, <2>2, <2>3
  <1>5. NumbersAreWrites
    <2>1. /\ consoleReboots = 0 /\ pc = "idle" /\ workerPc = "recv"
          /\ \A i \in 1..Len(toPortal) : toPortal[i].seq = toPortal[i].id
      BY <1>4 DEF Init
    <2> QED
      BY <1>3, <1>4, <2>1, Zenon DEF NumbersAreWrites
  <1>6. AcksAreHandled
    BY <1>4 DEF Init, AcksAreHandled
  <1> QED
    BY <1>5, <1>6 DEF AckInv

(* Every action keeps the meaning of the numbers but a restart of the       *)
(* console side.                                                           *)
LEMMA StepAck ==
  ASSUME TypeOK, OrderInv, AckInv, [Next]_vars, ~ConsoleReboot
  PROVE  AckInv'
  <1> USE DEF writeTaskVars, ackVars, portalVars, rebootVars, outcomeVars,
              deliveryVars
  <1>0. /\ NumbersAreWrites /\ AcksAreHandled
        /\ accepted \in Nat /\ Len(writeQ) \in Nat /\ cur \in Nat
    BY OrderNumbers DEF AckInv
  <1>a. ASSUME UNCHANGED <<accepted, writeQ, cur, seq, myseq, consoleReboots,
                           toPortal, worker>>,
               pc' # "idle" => pc # "idle", workerPc' # "recv" => workerPc # "recv"
        PROVE  NumbersAreWrites'
    BY <1>0, <1>a DEF NumbersAreWrites, Base
  <1>b. ASSUME UNCHANGED <<worker, toConsole, ackedSeq, acked, handled>>,
               workerPc' = "ack" => workerPc = "ack"
        PROVE  AcksAreHandled'
    BY <1>0, <1>b DEF AcksAreHandled
  <1>1. CASE ConsoleWrite
    <2>1. CASE Len(writeQ) < WriteQCap
      <3>1. /\ accepted' = accepted + 1 /\ writeQ' = Append(writeQ, accepted + 1)
            /\ accepted + 1 \in Ids /\ writeQ \in Seq(Ids)
        BY <1>1, <2>1, ReliableWriteAssumption DEF ConsoleWrite, TypeOK, Ids
      <3>2. Len(writeQ') = Len(writeQ) + 1
        BY <3>1, AppendFacts
      <3>3. Base' = Base
        BY <1>0, <3>1, <3>2 DEF Base
      <3>4. NumbersAreWrites'
        BY <1>0, <1>1, <3>3 DEF ConsoleWrite, NumbersAreWrites
      <3> QED
        BY <1>1, <1>b, <3>4 DEF ConsoleWrite, AckInv
    <2>2. CASE ~(Len(writeQ) < WriteQCap)
      BY <1>1, <1>a, <1>b, <2>2 DEF ConsoleWrite, AckInv
    <2> QED
      BY <2>1, <2>2
  <1>2. CASE TakeWrite
    <2>1. /\ Head(writeQ) = writeQ[1]
          /\ Len(writeQ) \in Nat \ {0}
          /\ Len(writeQ') = Len(writeQ) - 1
          /\ writeQ \in Seq(Ids)
      BY <1>2, TakeFacts DEF TakeWrite, TypeOK
    <2>2. Base' = Base + 1
      BY <1>0, <1>2, <2>1 DEF Base, TakeWrite
    <2>3. cur' = Base' /\ cur' = cur + 1
      BY <1>0, <1>2, <2>1, <2>2
      DEF OrderInv, QueueInOrder, NumbersAreWrites, TakeWrite
    <2>4. cur' \in Ids
      BY <1>2, TakeFacts DEF TakeWrite, TypeOK
    <2>5. seq = cur' /\ seq' = (cur' + 1) % SeqMod
      <3>1. cur' \in Nat /\ SeqMod \in Nat /\ cur' < SeqMod
        BY <2>4, ReliableWriteAssumption DEF Ids
      <3>2. cur' % SeqMod = cur'
        BY <3>1, SmallMod, Zenon
      <3> QED
        BY <1>0, <1>2, <2>3, <3>2 DEF NumbersAreWrites, TakeWrite
    <2>6. NumbersAreWrites'
      BY <1>0, <1>2, <2>3, <2>4, <2>5 DEF NumbersAreWrites, TakeWrite, Ids
    <2> QED
      BY <1>2, <1>b, <2>6 DEF TakeWrite, AckInv
  <1>3. CASE SendWrite
    <2> DEFINE f == [id |-> cur, seq |-> myseq]
    <2>1. f \in Frames /\ f.seq = f.id
      BY <1>0, <1>3 DEF SendWrite, TypeOK, Frames, NumbersAreWrites
    <2>2. /\ toPortal \in Seq(Frames) /\ Len(toPortal) <= RxQCap
          /\ toPortal' \in AfterSend(toPortal, f)
      BY <1>3 DEF SendWrite, TypeOK
    <2> HIDE DEF f
    <2>3. \A i \in 1..Len(toPortal') :
            toPortal'[i] = f \/ \E j \in 1..Len(toPortal) : toPortal'[i] = toPortal[j]
      BY <2>1, <2>2, SendMembers
    <2>4. \A i \in 1..Len(toPortal') : toPortal'[i].seq = toPortal'[i].id
      BY <1>0, <2>1, <2>3 DEF NumbersAreWrites
    <2>5. NumbersAreWrites'
      BY <1>0, <1>3, <2>4 DEF SendWrite, NumbersAreWrites, Base
    <2> QED
      BY <1>3, <1>b, <2>5 DEF SendWrite, AckInv
  <1>4. CASE AckWakes
    BY <1>4, <1>a, <1>b DEF AckWakes, AckInv
  <1>5. CASE CheckAck
    <2>1. NumbersAreWrites'
      BY <1>5, <1>a DEF CheckAck, NextAttempt
    <2>2. CASE ackedSeq = myseq
      <3>1. cur \in handled
        BY <1>0, <1>5, <2>2 DEF CheckAck, NumbersAreWrites, AcksAreHandled
      <3> QED
        BY <1>0, <1>5, <2>1, <2>2, <3>1 DEF CheckAck, AckInv, AcksAreHandled
    <2>3. CASE ackedSeq # myseq
      BY <1>5, <1>b, <2>1, <2>3 DEF CheckAck, AckInv
    <2> QED
      BY <2>2, <2>3
  <1>6. CASE AckTimeout
    BY <1>6, <1>a, <1>b DEF AckTimeout, NextAttempt, AckInv
  <1>7. CASE ReceiveAck
    <2>1. NumbersAreWrites'
      BY <1>7, <1>a DEF ReceiveAck
    <2>2. /\ Head(toConsole) = toConsole[1]
          /\ Len(toConsole) \in Nat \ {0}
          /\ Len(toConsole') = Len(toConsole) - 1
          /\ \A i \in 1..Len(toConsole') : toConsole'[i] = toConsole[i + 1]
      BY <1>7, TakeFacts DEF ReceiveAck, TypeOK
    <2>3. ackedSeq' \in handled
      BY <1>0, <1>7, <2>2 DEF ReceiveAck, AcksAreHandled
    <2>4. \A i \in 1..Len(toConsole') : i + 1 \in 1..Len(toConsole)
      BY <2>2
    <2>5. AcksAreHandled'
      BY <1>0, <1>7, <2>2, <2>3, <2>4 DEF ReceiveAck, AcksAreHandled
    <2> QED
      BY <2>1, <2>5 DEF AckInv
  <1>8. CASE GiveAckSem
    BY <1>8, <1>a, <1>b DEF GiveAckSem, AckInv
  <1>9. CASE PortalReceive
    <2>1. /\ worker' = toPortal[1]
          /\ Len(toPortal) \in Nat \ {0}
          /\ Len(toPortal') = Len(toPortal) - 1
          /\ \A i \in 1..Len(toPortal') : toPortal'[i] = toPortal[i + 1]
      BY <1>9, TakeFacts DEF PortalReceive, TypeOK
    <2>2. 1 \in 1..Len(toPortal) /\ \A i \in 1..Len(toPortal') : i + 1 \in 1..Len(toPortal)
      BY <2>1
    <2>3. NumbersAreWrites'
      BY <1>0, <1>9, <2>1, <2>2 DEF PortalReceive, NumbersAreWrites, Base
    <2>4. AcksAreHandled'
      BY <1>0, <1>9 DEF PortalReceive, AcksAreHandled
    <2> QED
      BY <2>3, <2>4 DEF AckInv
  <1>10. CASE PortalDeliver
    <2>1. NumbersAreWrites'
      BY <1>10, <1>a DEF PortalDeliver
    <2>2. AcksAreHandled'
      BY <1>0, <1>10 DEF PortalDeliver, AcksAreHandled
    <2> QED
      BY <2>1, <2>2 DEF AckInv
  <1>11. CASE PortalAck
    <2>1. NumbersAreWrites'
      BY <1>0, <1>11 DEF PortalAck, NumbersAreWrites, Base
    <2>2. /\ toConsole \in Seq(Seqs) /\ Len(toConsole) <= RxQCap
          /\ toConsole' \in AfterSend(toConsole, worker.seq)
          /\ worker.seq \in Seqs
      BY <1>11 DEF PortalAck, TypeOK, Frames
    <2>3. \A i \in 1..Len(toConsole') :
            \/ toConsole'[i] = worker.seq
            \/ \E j \in 1..Len(toConsole) : toConsole'[i] = toConsole[j]
      BY <2>2, SendMembers
    <2>4. worker.seq \in handled
      BY <1>0, <1>11 DEF PortalAck, NumbersAreWrites, AcksAreHandled
    <2>5. AcksAreHandled'
      BY <1>0, <1>11, <2>3, <2>4 DEF PortalAck, AcksAreHandled
    <2> QED
      BY <2>1, <2>5 DEF AckInv
  <1>12. CASE PortalPlugged
    BY <1>12, <1>a, <1>b DEF PortalPlugged, AckInv
  <1>13. CASE PortalUnplugged
    BY <1>13, <1>a, <1>b DEF PortalUnplugged, AckInv
  <1>14. CASE PortalReboot
    <2>1. Len(toPortal') = 0
      BY <1>14 DEF PortalReboot
    <2>2. NumbersAreWrites'
      BY <1>0, <1>14, <2>1 DEF PortalReboot, NumbersAreWrites, Base
    <2>3. AcksAreHandled'
      BY <1>0, <1>14 DEF PortalReboot, AcksAreHandled
    <2> QED
      BY <2>2, <2>3 DEF AckInv
  <1>15. CASE UNCHANGED vars
    BY <1>15, <1>a, <1>b DEF vars, AckInv
  <1> QED
    BY <1>1, <1>2, <1>3, <1>4, <1>5, <1>6, <1>7, <1>8, <1>9, <1>10, <1>11,
       <1>12, <1>13, <1>14, <1>15
    DEF Next, WriteTask, AckPath, PortalWorker, Environment

\* A board that has been restarted has been restarted.
LEMMA RestartsStay ==
  ASSUME TypeOK, [Next]_vars, consoleReboots' = 0
  PROVE  consoleReboots = 0 /\ ~ConsoleReboot
  <1> USE DEF rebootVars
  <1>1. ~ConsoleReboot
    BY DEF ConsoleReboot, TypeOK
  <1> QED
    BY <1>1
    DEF Next, WriteTask, AckPath, PortalWorker, Environment, ConsoleWrite,
        TakeWrite, SendWrite, AckWakes, CheckAck, AckTimeout, ReceiveAck,
        GiveAckSem, PortalReceive, PortalDeliver, PortalAck, PortalPlugged,
        PortalUnplugged, PortalReboot, vars

(* Until the console side restarts, the numbers on their way back are true. *)
LEMMA NextAck ==
  TypeOK /\ OrderInv /\ (consoleReboots = 0 => AckInv) /\ [Next]_vars
    => (consoleReboots = 0 => AckInv)'
  <1> SUFFICES ASSUME TypeOK, OrderInv, consoleReboots = 0 => AckInv, [Next]_vars,
                      consoleReboots' = 0
               PROVE  AckInv'
    OBVIOUS
  <1> QED
    BY RestartsStay, StepAck

(* While the console side is not restarted, a write taken for acknowledged  *)
(* has been through the portal side's handler.                             *)
THEOREM NoFalseAck == Spec => []AckedWasHandled
  <1>1. Spec => [](consoleReboots = 0 => AckInv)
    BY Typing, Order, InitAck, NextAck, PTL DEF Spec
  <1>2. (consoleReboots = 0 => AckInv) => AckedWasHandled
    BY DEF AckInv, AcksAreHandled, AckedWasHandled
  <1> QED
    BY <1>1, <1>2, PTL

-----------------------------------------------------------------------------
(***************************************************************************)
(* The code implements the abstract channel.                               *)
(***************************************************************************)

\* The ways write_task can leave a write: acknowledged, tried again, lost.
EndAcked ==
  pc # "idle" /\ pc' = "idle" /\ cur' = cur /\ acked' = acked \cup {cur} /\ lost' = lost
EndLost ==
  pc # "idle" /\ pc' = "idle" /\ cur' = cur /\ lost' = lost \cup {cur} /\ acked' = acked
Retry ==
  pc # "idle" /\ pc' # "idle" /\ cur' = cur /\ UNCHANGED <<acked, lost>>

(* What a step of the console side does to the outcomes.                    *)
LEMMA OutcomeSteps ==
  /\ CheckAck => EndAcked \/ EndLost \/ Retry
  /\ AckTimeout => EndLost \/ Retry
  /\ SendWrite \/ AckWakes => Retry
  BY DEF CheckAck, AckTimeout, SendWrite, AckWakes, NextAttempt, EndAcked,
         EndLost, Retry, outcomeVars

\* The state of the abstract channel, as the code has it.
Abstract == <<accepted, finished, acked, handled, lastHandled>>

(* Until the console side is restarted every step of the code is a step of  *)
(* the abstract channel or leaves it as it is.                             *)
LEMMA StepSimulation ==
  ASSUME TypeOK, OrderInv, AckInv, AckInv', [Next]_vars
  PROVE  \/ Channel!ChannelNext
         \/ UNCHANGED Abstract
  <1> USE DEF writeTaskVars, ackVars, portalVars, rebootVars, outcomeVars,
              deliveryVars, Abstract
  <1>t. consoleReboots = 0 /\ consoleReboots' = 0
    BY DEF AckInv, NumbersAreWrites
  <1>0. /\ accepted \in Nat /\ cur \in Nat /\ Base \in Int
        /\ Len(writeQ) \in Nat /\ cur = Base /\ cur <= accepted
        /\ pc # "idle" => cur >= 1
        /\ QueueInOrder /\ FramesInOrder /\ WorkerInOrder
    BY OrderNumbers DEF AckInv, NumbersAreWrites, OrderInv, Base
  <1>a. finished \in Int /\ cur <= finished + 1 /\ finished <= cur
    BY <1>0 DEF finished
  <1>b. ASSUME Retry, UNCHANGED <<accepted, handled, lastHandled>>
        PROVE  UNCHANGED Abstract
    BY <1>b DEF Retry, finished
  <1>c. ASSUME EndLost, UNCHANGED <<accepted, handled, lastHandled>>
        PROVE  Channel!GiveUp
    BY <1>0, <1>c, <1>t DEF EndLost, finished, Channel!GiveUp
  <1>d. ASSUME EndAcked, UNCHANGED <<accepted, handled, lastHandled>>
        PROVE  Channel!Acknowledge
    <2>1. cur \in handled
      BY <1>d DEF EndAcked, AckInv, AcksAreHandled
    <2>2. finished + 1 = cur /\ finished' = cur
      BY <1>0, <1>d DEF EndAcked, finished
    <2>3. finished < accepted /\ acked' = acked \cup {finished + 1}
      BY <1>0, <1>a, <1>d, <2>2 DEF EndAcked
    <2> QED
      BY <1>d, <1>t, <2>1, <2>2, <2>3 DEF Channel!Acknowledge
  <1>1. CASE ConsoleWrite
    <2>1. UNCHANGED <<finished, acked, handled, lastHandled>>
      BY <1>1 DEF ConsoleWrite, finished
    <2>2. CASE Len(writeQ) < WriteQCap
      BY <1>1, <1>t, <2>1, <2>2 DEF ConsoleWrite, Channel!ChannelNext, Channel!Accept
    <2>3. CASE ~(Len(writeQ) < WriteQCap)
      BY <1>1, <2>1, <2>3 DEF ConsoleWrite
    <2> QED
      BY <2>2, <2>3
  <1>2. CASE TakeWrite
    <2>1. cur' = cur + 1 /\ pc = "idle" /\ pc' = "send"
      <3>1. Len(writeQ) \in Nat \ {0} /\ cur' = writeQ[1]
        BY <1>2, TakeFacts DEF TakeWrite, TypeOK
      <3> QED
        BY <1>0, <1>2, <3>1 DEF QueueInOrder, TakeWrite
    <2>2. finished' = finished
      BY <1>0, <2>1 DEF finished
    <2> QED
      BY <1>2, <2>2 DEF TakeWrite
  <1>3. CASE SendWrite \/ AckWakes
    BY <1>3, <1>b, OutcomeSteps DEF SendWrite, AckWakes
  <1>4. CASE CheckAck \/ AckTimeout
    BY <1>4, <1>b, <1>c, <1>d, OutcomeSteps
    DEF CheckAck, AckTimeout, Channel!ChannelNext
  <1>5. CASE ReceiveAck \/ GiveAckSem
    BY <1>5 DEF ReceiveAck, GiveAckSem, finished
  <1>6. CASE PortalReceive \/ PortalAck \/ PortalPlugged \/ PortalUnplugged
    BY <1>6
    DEF PortalReceive, PortalAck, PortalPlugged, PortalUnplugged, finished
  <1>7. CASE PortalDeliver
    <2>1. worker.id \in Ids /\ workerPc = "deliver"
      BY <1>7 DEF PortalDeliver, TypeOK, Frames
    <2>2. worker.id \in Nat \ {0} /\ lastHandled <= worker.id /\ worker.id <= Base
      BY <1>0, <2>1 DEF WorkerInOrder, Ids
    <2>3. worker.id \in 1..accepted /\ worker.id <= finished + 1
      BY <1>0, <1>a, <2>2
    <2>4. UNCHANGED <<accepted, finished, acked>>
      BY <1>7 DEF PortalDeliver, finished
    <2> QED
      BY <1>7, <1>t, <2>2, <2>3, <2>4 DEF PortalDeliver, Channel!ChannelNext, Channel!Handle
  <1>8. CASE PortalReboot
    BY <1>8 DEF PortalReboot, finished
  <1>9. CASE ConsoleReboot
    BY <1>9, <1>t DEF ConsoleReboot
  <1>10. CASE UNCHANGED vars
    BY <1>10 DEF vars, finished
  <1> QED
    BY <1>1, <1>2, <1>3, <1>4, <1>5, <1>6, <1>7, <1>8, <1>9, <1>10
    DEF Next, WriteTask, AckPath, PortalWorker, Environment

(* From the restart of the console side on, nothing goes back.              *)
LEMMA StepAfterRestart ==
  ASSUME TypeOK, OrderInv, [Next]_vars, consoleReboots' # 0
  PROVE  Channel!ChannelNext
  <1> USE DEF writeTaskVars, ackVars, portalVars, rebootVars, outcomeVars,
              deliveryVars
  <1>1. lastHandled' >= lastHandled
    BY LastHandledGrows
  <1>2. accepted' >= accepted
    <2>1. accepted \in Nat /\ accepted' \in {accepted, accepted + 1}
      BY DEF TypeOK, Next, WriteTask, AckPath, PortalWorker, Environment, vars,
          ConsoleWrite, TakeWrite, SendWrite, AckWakes, CheckAck, AckTimeout,
          ReceiveAck, GiveAckSem, PortalReceive, PortalDeliver, PortalAck,
          PortalPlugged, PortalUnplugged, PortalReboot, ConsoleReboot
    <2> QED
      BY <2>1
  <1>3. handled \subseteq handled' /\ acked \subseteq acked'
    BY DEF Next, WriteTask, AckPath, PortalWorker, Environment, vars,
        ConsoleWrite, TakeWrite, SendWrite, AckWakes, CheckAck, AckTimeout,
        ReceiveAck, GiveAckSem, PortalReceive, PortalDeliver, PortalAck,
        PortalPlugged, PortalUnplugged, PortalReboot, ConsoleReboot
  <1> QED
    BY <1>1, <1>2, <1>3 DEF Channel!ChannelNext, Channel!AfterRestart

(* The code does nothing that the abstract channel does not allow: until    *)
(* the console side is restarted writes are finished one at a time and in   *)
(* order, each acknowledged after it was handled or given up; afterwards    *)
(* nothing goes back.                                                      *)
THEOREM ImplementsChannel == Spec => ChannelSafety
  <1> DEFINE full == <<consoleReboots = 0, accepted, finished, acked, handled,
                       lastHandled>>
             Known == consoleReboots = 0 => AckInv
  <1>1. Init => Channel!ChannelInit
    BY DEF Init, Channel!ChannelInit, finished
  <1>2. Spec => []Known
    BY Typing, Order, InitAck, NextAck, PTL DEF Spec
  <1>3. ASSUME TypeOK, OrderInv, Known, Known', [Next]_vars
        PROVE  [Channel!ChannelNext]_full
    <2>1. CASE consoleReboots' # 0
      BY <1>3, <2>1, StepAfterRestart
    <2>2. CASE consoleReboots' = 0
      <3>1. consoleReboots = 0
        BY <1>3, <2>2, RestartsStay
      <3>2. AckInv /\ AckInv'
        BY <1>3, <2>2, <3>1
      <3>3. Channel!ChannelNext \/ UNCHANGED Abstract
        BY <1>3, <3>2, StepSimulation
      <3> QED
        BY <2>2, <3>1, <3>3 DEF Abstract
    <2> QED
      BY <2>1, <2>2
  <1> QED
    BY <1>1, <1>2, <1>3, Typing, Order, PTL
    DEF Spec, ChannelSafety, Channel!ChannelSpec, Channel!channelVars

-----------------------------------------------------------------------------
(***************************************************************************)
(* Every write has one outcome.                                            *)
(***************************************************************************)

\* Writes 1..Done are over: the one in write_task's hands is not.
Done == IF pc = "idle" THEN Base ELSE Base - 1

OutcomeInv ==
  /\ Done \in Nat
  /\ acked \cap lost = {}
  /\ acked \cup lost \subseteq 1..Done
  /\ consoleReboots = 0 => cur = Base /\ acked \cup lost = 1..Done

(* At the start no write has a verdict.                                     *)
LEMMA InitOutcome == Init => OutcomeInv
  <1> SUFFICES ASSUME Init PROVE OutcomeInv
    OBVIOUS
  <1>1. Len(writeQ) = 0 /\ accepted = 0 /\ cur = 0 /\ pc = "idle"
    BY DEF Init
  <1>2. Base = 0 /\ Done = 0
    BY <1>1 DEF Base, Done
  <1>3. acked = {} /\ lost = {}
    BY DEF Init
  <1> QED
    BY <1>1, <1>2, <1>3 DEF OutcomeInv

(* Every action keeps the outcomes apart.                                   *)
LEMMA NextOutcome ==
  TypeOK /\ OrderInv /\ OutcomeInv /\ [Next]_vars => OutcomeInv'
  <1> SUFFICES ASSUME TypeOK, OrderInv, OutcomeInv, [Next]_vars
               PROVE  OutcomeInv'
    OBVIOUS
  <1> USE DEF writeTaskVars, ackVars, portalVars, rebootVars, outcomeVars,
              deliveryVars
  <1>0. /\ Base \in Int /\ accepted \in Nat /\ Len(writeQ) \in Nat
        /\ consoleReboots \in Nat
        /\ pc # "idle" => cur = Base /\ Done + 1 = Base
        /\ Base >= 0
    BY OrderNumbers DEF OrderInv, QueueInOrder, Done, TypeOK
  <1>a. ASSUME UNCHANGED <<accepted, writeQ, acked, lost, consoleReboots, cur>>,
               pc' = "idle" <=> pc = "idle"
        PROVE  OutcomeInv'
    <2>1. Base' = Base
      BY <1>a DEF Base
    <2>2. Done' = Done
      BY <1>a, <2>1 DEF Done
    <2> QED
      BY <1>a, <2>1, <2>2 DEF OutcomeInv
  <1>b. ASSUME EndAcked \/ EndLost, UNCHANGED <<accepted, writeQ, consoleReboots>>
        PROVE  OutcomeInv'
    <2>1. Base' = Base /\ cur' = cur /\ cur = Base /\ pc # "idle" /\ pc' = "idle"
      BY <1>0, <1>b DEF Base, EndAcked, EndLost
    <2>2. Done' = cur /\ Done + 1 = cur /\ Done \in Nat
      BY <1>0, <2>1 DEF Done, OutcomeInv
    <2>3. cur \notin acked \cup lost /\ 1..Done' = (1..Done) \cup {cur}
      BY <2>2 DEF OutcomeInv
    <2>4. acked' \cup lost' = (acked \cup lost) \cup {cur} /\ acked' \cap lost' = {}
      BY <1>b, <2>3 DEF EndAcked, EndLost, OutcomeInv
    <2> QED
      BY <1>b, <2>1, <2>2, <2>3, <2>4 DEF OutcomeInv
  <1>1. CASE ConsoleWrite
    <2>1. CASE Len(writeQ) < WriteQCap
      <3>1. /\ accepted' = accepted + 1 /\ writeQ' = Append(writeQ, accepted + 1)
            /\ accepted + 1 \in Ids /\ writeQ \in Seq(Ids)
        BY <1>1, <2>1, ReliableWriteAssumption DEF ConsoleWrite, TypeOK, Ids
      <3>2. Len(writeQ') = Len(writeQ) + 1
        BY <3>1, AppendFacts
      <3>3. Base' = Base
        BY <1>0, <3>1, <3>2 DEF Base
      <3>4. Done' = Done
        BY <1>1, <3>3 DEF Done, ConsoleWrite
      <3> QED
        BY <1>1, <3>3, <3>4 DEF ConsoleWrite, OutcomeInv
    <2>2. CASE ~(Len(writeQ) < WriteQCap)
      BY <1>1, <1>a, <2>2 DEF ConsoleWrite
    <2> QED
      BY <2>1, <2>2
  <1>2. CASE TakeWrite
    <2>1. /\ Len(writeQ) \in Nat \ {0}
          /\ Len(writeQ') = Len(writeQ) - 1
          /\ cur' = writeQ[1]
      BY <1>2, TakeFacts DEF TakeWrite, TypeOK
    <2>2. Base' = Base + 1
      BY <1>0, <1>2, <2>1 DEF Base, TakeWrite
    <2>3. cur' = Base'
      BY <1>0, <2>1, <2>2 DEF OrderInv, QueueInOrder
    <2>4. Done' = Done
      BY <1>0, <1>2, <2>2 DEF Done, TakeWrite
    <2> QED
      BY <1>2, <2>3, <2>4 DEF TakeWrite, OutcomeInv
  <1>3. CASE SendWrite \/ AckWakes
    BY <1>3, <1>a DEF SendWrite, AckWakes
  <1>4. CASE CheckAck \/ AckTimeout
    <2>1. EndAcked \/ EndLost \/ Retry
      BY <1>4, OutcomeSteps
    <2>2. UNCHANGED <<accepted, writeQ, consoleReboots>>
      BY <1>4 DEF CheckAck, AckTimeout
    <2>3. CASE Retry
      BY <2>2, <2>3, <1>a DEF Retry
    <2> QED
      BY <2>1, <2>2, <2>3, <1>b
  <1>5. CASE AckPath
    BY <1>5, <1>a DEF AckPath, ReceiveAck, GiveAckSem
  <1>6. CASE PortalWorker
    BY <1>6, <1>a DEF PortalWorker, PortalReceive, PortalDeliver, PortalAck
  <1>7. CASE PortalPlugged \/ PortalUnplugged \/ PortalReboot
    BY <1>7, <1>a DEF PortalPlugged, PortalUnplugged, PortalReboot
  <1>8. CASE ConsoleReboot
    <2>1. /\ Len(writeQ') = 0 /\ pc' = "idle" /\ accepted' = accepted
          /\ consoleReboots' # 0 /\ UNCHANGED <<acked, lost>>
      BY <1>0, <1>8 DEF ConsoleReboot
    <2>2. Done' = accepted /\ Done <= accepted
      BY <1>0, <2>1 DEF Done, Base
    <2> QED
      BY <1>0, <2>1, <2>2 DEF OutcomeInv
  <1>9. CASE UNCHANGED vars
    BY <1>9, <1>a DEF vars
  <1> QED
    BY <1>1, <1>2, <1>3, <1>4, <1>5, <1>6, <1>7, <1>8, <1>9
    DEF Next, WriteTask, Environment

(* No write is both acknowledged and reported lost, and while the console   *)
(* side is not restarted none leaves write_task as neither.                *)
THEOREM OutcomesAreExclusive == Spec => []OneOutcome
  <1>1. Spec => []OutcomeInv
    BY Typing, Order, InitOutcome, NextOutcome, PTL DEF Spec
  <1>2. OutcomeInv => OneOutcome
    BY DEF OutcomeInv, OneOutcome, Done, finished
  <1> QED
    BY <1>1, <1>2, PTL

(* The write that was handled last is among those that were handled.        *)
LEMMA LastIsHandled == Spec => [](lastHandled # 0 => lastHandled \in handled)
  <1> DEFINE I == lastHandled # 0 => lastHandled \in handled
  <1>1. Init => I
    BY DEF Init
  <1>2. I /\ [Next]_vars => I'
    BY DEF Next, WriteTask, AckPath, PortalWorker, Environment, vars,
        ConsoleWrite, TakeWrite, SendWrite, AckWakes, CheckAck, AckTimeout,
        ReceiveAck, GiveAckSem, PortalReceive, PortalDeliver, PortalAck,
        PortalPlugged, PortalUnplugged, PortalReboot, ConsoleReboot, deliveryVars
  <1> QED
    BY <1>1, <1>2, PTL DEF Spec

(* While the console side is not restarted no write is skipped in silence:  *)
(* what precedes a handled write was handled or is reported lost.           *)
THEOREM NothingSkipped == Spec => []NoSilentGap
  <1>1. ASSUME TypeOK, OrderInv, OutcomeInv, AckedWasHandled,
               lastHandled # 0 => lastHandled \in handled
        PROVE  NoSilentGap
    <2> SUFFICES ASSUME consoleReboots = 0, NEW w \in 1..lastHandled
                 PROVE  w \in handled \cup lost
      BY DEF NoSilentGap
    <2>1. /\ lastHandled \in Nat /\ lastHandled <= Base /\ Base \in Int
          /\ Done \in {Base, Base - 1}
      BY <1>1, OrderNumbers DEF OrderInv, WorkerInOrder, Done
    <2>2. w \in 1..Done \/ w = lastHandled
      BY <2>1
    <2> QED
      BY <1>1, <2>1, <2>2 DEF OutcomeInv, AckedWasHandled
  <1>2. Spec => []OutcomeInv
    BY Typing, Order, InitOutcome, NextOutcome, PTL DEF Spec
  <1> QED
    BY <1>1, <1>2, Typing, Order, NoFalseAck, LastIsHandled, PTL

=============================================================================
