------------------------- MODULE PwrMsgBufferProofs -------------------------
(***************************************************************************)
(* Proofs about the ring of module PwrMsgBuffer, for every buffer size and *)
(* every set of messages: its type, the invariant of its slots, and that   *)
(* it implements the lossy queue.                                          *)
(***************************************************************************)
EXTENDS PwrMsgBuffer, SequenceTheorems, TLAPS

(***************************************************************************)
(* The inductive invariant.  Besides the slots it says that the consumer   *)
(* holds a message only between a pop and the release, and that it is not  *)
(* in the middle of a turn while the buffer is shut down.                  *)
(***************************************************************************)
ConsumerIsJoined ==
    /\ hand # NoMsg => cpc = "took"
    /\ ~ready => cpc = "idle"

Inv == TypeOK /\ SlotsHoldOwnMessages /\ ConsumerIsJoined

\* Why the unlocked look can be trusted when it finds a message: the ring cannot have
\* become empty between the two reads, since only the consumer empties it.
LookIsSound ==
    /\ cpc = "reading" /\ head = tail => seen[2] = head
    /\ cpc = "nonEmpty" => head # tail

-----------------------------------------------------------------------------
\* Round the ring, the slot after the last is slot 0.
LEMMA SuccIs ==
    ASSUME NEW i \in Index
    PROVE  /\ Succ(i) \in Index
           /\ Succ(i) = IF i = PWR_BUFFER_SIZE - 1 THEN 0 ELSE i + 1
  <1>1. CASE i = PWR_BUFFER_SIZE - 1
    BY <1>1, BufferAssumption DEF Index, Succ
  <1>2. CASE i # PWR_BUFFER_SIZE - 1
    <2>1. i + 1 \in 0 .. PWR_BUFFER_SIZE - 1
      BY <1>2, BufferAssumption DEF Index
    <2>2. (i + 1) % PWR_BUFFER_SIZE = i + 1
      BY <2>1, BufferAssumption DEF Index
    <2> QED
      BY <1>2, <2>1, <2>2 DEF Index, Succ
  <1> QED
    BY <1>1, <1>2

\* An add makes one slot live, and takes the oldest out of a full ring.
LEMMA LiveAfterAdd ==
    ASSUME TypeOK, head' = (IF Succ(tail) = head THEN Succ(head) ELSE head), tail' = Succ(tail)
    PROVE  /\ Live' = (IF Succ(tail) = head THEN Live \ {Succ(head)} ELSE Live)
                        \union {Succ(tail)}
           /\ Succ(tail) \notin Live
           /\ Succ(tail) # Succ(head) \/ head = tail
           /\ Succ(tail) = head => Succ(head) \in Live
  <1>1. head \in Index /\ tail \in Index
    BY DEF TypeOK
  <1>2. Succ(head) \in Index /\ Succ(tail) \in Index
    BY <1>1, SuccIs
  <1>3. /\ Succ(head) = IF head = PWR_BUFFER_SIZE - 1 THEN 0 ELSE head + 1
        /\ Succ(tail) = IF tail = PWR_BUFFER_SIZE - 1 THEN 0 ELSE tail + 1
        /\ Succ(Succ(head)) =
             IF Succ(head) = PWR_BUFFER_SIZE - 1 THEN 0 ELSE Succ(head) + 1
    BY <1>1, <1>2, SuccIs
  <1>4. Live' = IF head' = tail' THEN {} ELSE Between(Succ(head'), tail')
    BY DEF Live, Between, Succ, Index
  <1> QED
    BY <1>1, <1>2, <1>3, <1>4, BufferAssumption DEF Live, Between, Index

\* A pop takes the slot after head out of the live ones.
LEMMA LiveAfterPop ==
    ASSUME TypeOK, head # tail, head' = Succ(head), tail' = tail
    PROVE  /\ Live' = Live \ {Succ(head)}
           /\ Succ(head) \in Live
  <1>1. head \in Index /\ tail \in Index
    BY DEF TypeOK
  <1>2. Succ(head) \in Index
    BY <1>1, SuccIs
  <1>3. /\ Succ(head) = IF head = PWR_BUFFER_SIZE - 1 THEN 0 ELSE head + 1
        /\ Succ(Succ(head)) =
             IF Succ(head) = PWR_BUFFER_SIZE - 1 THEN 0 ELSE Succ(head) + 1
    BY <1>1, <1>2, SuccIs
  <1>4. Live' = IF head' = tail' THEN {} ELSE Between(Succ(head'), tail')
    BY DEF Live, Between, Succ, Index
  <1> QED
    BY <1>1, <1>2, <1>3, <1>4, BufferAssumption DEF Live, Between, Index

\* The live slots are slots.
LEMMA LiveIsIndex == ASSUME TypeOK PROVE Live \subseteq Index
  BY SuccIs, BufferAssumption DEF TypeOK, Live, Between, Index

-----------------------------------------------------------------------------
LEMMA InitInv == Init => Inv
  BY BufferAssumption
     DEF Init, Inv, TypeOK, SlotsHoldOwnMessages, ConsumerIsJoined, Live, Empty, Index

LEMMA AddInv ==
    ASSUME Inv, NEW m \in Msg, AddToBufferTail(m)
    PROVE  Inv'
  <1> USE DEF Inv, ConsumerIsJoined, consumer
  <1>1. Succ(tail) \in Index /\ Succ(head) \in Index
    BY SuccIs DEF TypeOK
  <1>2. /\ Live' = (IF Succ(tail) = head THEN Live \ {Succ(head)} ELSE Live)
                     \union {Succ(tail)}
        /\ Succ(tail) \notin Live
        /\ Succ(tail) # Succ(head) \/ head = tail
        /\ Succ(tail) = head => Succ(head) \in Live
    BY LiveAfterAdd DEF AddToBufferTail
  <1>3. Live \subseteq Index
    BY LiveIsIndex
  <1>4. TypeOK'
    BY <1>1 DEF TypeOK, AddToBufferTail, Index
  <1>5. SlotsHoldOwnMessages'
    BY <1>1, <1>2, <1>3, BufferAssumption DEF SlotsHoldOwnMessages, AddToBufferTail, TypeOK
  <1>6. ConsumerIsJoined'
    BY DEF AddToBufferTail
  <1> QED
    BY <1>4, <1>5, <1>6

LEMMA PopInv == ASSUME Inv, PopFromBufferHead PROVE Inv'
  <1> USE DEF Inv, ConsumerIsJoined
  <1>1. Succ(head) \in Index
    BY SuccIs DEF TypeOK
  <1>2. CASE head = tail
    <2>1. Live' = Live
      BY <1>2 DEF PopFromBufferHead, Live, Between, Index, Succ, ring
    <2> QED
      BY <1>2, <2>1 DEF PopFromBufferHead, TypeOK, SlotsHoldOwnMessages, ring
  <1>3. CASE head # tail
    <2>1. Live' = Live \ {Succ(head)} /\ Succ(head) \in Live
      BY <1>3, LiveAfterPop DEF PopFromBufferHead
    <2>2. hand = NoMsg /\ ready
      BY DEF PopFromBufferHead
    <2>3. TypeOK'
      BY <1>1, <1>3 DEF PopFromBufferHead, TypeOK
    <2>4. SlotsHoldOwnMessages'
      BY <1>1, <1>3, <2>1, <2>2, LiveIsIndex, BufferAssumption
         DEF PopFromBufferHead, TypeOK, SlotsHoldOwnMessages
    <2>5. ConsumerIsJoined'
      BY DEF PopFromBufferHead
    <2> QED
      BY <2>3, <2>4, <2>5
  <1> QED
    BY <1>2, <1>3

\* The slots stay as they are when neither the ring nor the messages change.
LEMMA LookInv ==
    ASSUME Inv,
           IsEmptyBufferFirstRead \/ IsEmptyBufferSecondRead \/ NothingToDo \/ UNCHANGED vars
    PROVE  Inv'
  <1> USE DEF Inv, ConsumerIsJoined, ring, vars,
              IsEmptyBufferFirstRead, IsEmptyBufferSecondRead, NothingToDo
  <1>1. UNCHANGED <<head, tail, msgList, ready, allocated, hand>>
    OBVIOUS
  <1>2. Live' = Live
    BY <1>1 DEF Live, Between, Index, Succ
  <1>3. TypeOK'
    BY DEF TypeOK
  <1>4. SlotsHoldOwnMessages'
    BY <1>1, <1>2 DEF SlotsHoldOwnMessages
  <1>5. ConsumerIsJoined'
    OBVIOUS
  <1> QED
    BY <1>3, <1>4, <1>5

LEMMA ReleaseInv == ASSUME Inv, ReleasePwrMsg PROVE Inv'
  <1> USE DEF Inv, ConsumerIsJoined, ring, ReleasePwrMsg
  <1>1. Live' = Live
    BY DEF Live, Between, Index, Succ
  <1>2. TypeOK'
    BY DEF TypeOK
  <1>3. SlotsHoldOwnMessages'
    BY <1>1, BufferAssumption DEF SlotsHoldOwnMessages, TypeOK
  <1> QED
    BY <1>2, <1>3

LEMMA ResetInv == ASSUME Inv, ResetPwrMsgBuffer \/ InitPwrMsgBuffer PROVE Inv'
  <1> USE DEF Inv, ConsumerIsJoined, consumer
  <1>1. CASE ResetPwrMsgBuffer
    <2>1. TypeOK'
      BY <1>1 DEF ResetPwrMsgBuffer, TypeOK
    <2>2. SlotsHoldOwnMessages'
      BY <1>1 DEF ResetPwrMsgBuffer, SlotsHoldOwnMessages
    <2> QED
      BY <1>1, <2>1, <2>2 DEF ResetPwrMsgBuffer
  <1>2. CASE InitPwrMsgBuffer
    <2>1. TypeOK'
      BY <1>2, BufferAssumption DEF InitPwrMsgBuffer, TypeOK, Empty, Index
    <2>2. Live' = {}
      BY <1>2 DEF InitPwrMsgBuffer, Live
    <2>3. SlotsHoldOwnMessages'
      BY <1>2, <2>2 DEF InitPwrMsgBuffer, SlotsHoldOwnMessages, Empty, Index
    <2> QED
      BY <1>2, <2>1, <2>3 DEF InitPwrMsgBuffer
  <1> QED
    BY <1>1, <1>2

LEMMA NextInv == Inv /\ [Next]_vars => Inv'
  <1> SUFFICES ASSUME Inv, [Next]_vars PROVE Inv'
    OBVIOUS
  <1>1. ASSUME NEW m \in Msg, AddToBufferTail(m) PROVE Inv'
    BY <1>1, AddInv
  <1>2. CASE Consume
    BY <1>2, PopInv, LookInv, ReleaseInv DEF Consume
  <1>3. CASE ResetPwrMsgBuffer \/ InitPwrMsgBuffer
    BY <1>3, ResetInv
  <1>4. CASE UNCHANGED vars
    BY <1>4, LookInv
  <1> QED
    BY <1>1, <1>2, <1>3, <1>4 DEF Next

LEMMA Invariance == Spec => []Inv
  BY InitInv, NextInv, PTL DEF Spec

\* Every variable of the ring keeps its type, whatever the size of the buffer.
THEOREM TypeCorrect == Spec => []TypeOK
  BY Invariance, PTL DEF Inv

\* Each live slot always holds a message of its own that is allocated, so no message is
\* freed twice or used after it was freed, whatever the interleaving of adds, pops,
\* releases, resets and initialisations.
THEOREM SlotsCorrect == Spec => []SlotsHoldOwnMessages
  BY Invariance, PTL DEF Inv

-----------------------------------------------------------------------------
LEMMA LookInvariant == Inv /\ LookIsSound /\ [Next]_vars => LookIsSound'
  <1> SUFFICES ASSUME Inv, LookIsSound, [Next]_vars PROVE LookIsSound'
    OBVIOUS
  <1> USE DEF LookIsSound
  <1>1. ASSUME NEW m \in Msg, AddToBufferTail(m) PROVE LookIsSound'
    <2>1. head \in Index /\ tail \in Index
      BY DEF Inv, TypeOK
    <2>2. head' # tail'
      BY <1>1, <2>1, SuccIs, BufferAssumption DEF AddToBufferTail, Index
    <2> QED
      BY <1>1, <2>2 DEF AddToBufferTail, consumer
  <1>2. CASE IsEmptyBufferFirstRead
    BY <1>2 DEF IsEmptyBufferFirstRead, ring
  <1>3. CASE IsEmptyBufferSecondRead
    BY <1>3 DEF IsEmptyBufferSecondRead, ring
  <1>4. CASE NothingToDo \/ PopFromBufferHead \/ ReleasePwrMsg
    BY <1>4 DEF NothingToDo, PopFromBufferHead, ReleasePwrMsg
  <1>5. CASE ResetPwrMsgBuffer \/ InitPwrMsgBuffer
    BY <1>5 DEF ResetPwrMsgBuffer, InitPwrMsgBuffer, consumer, Inv, ConsumerIsJoined
  <1>6. CASE UNCHANGED vars
    BY <1>6 DEF vars
  <1> QED
    BY <1>1, <1>2, <1>3, <1>4, <1>5, <1>6 DEF Next, Consume

\* A pop that follows a look that found a message returns one: the unlocked reads of
\* IsEmptyBuffer are safe for the single consumer.
THEOREM SeenIsPopped == Spec => SeenMessageIsPopped
  <1>1. Init => LookIsSound
    BY DEF Init, LookIsSound
  <1>2. Inv /\ LookIsSound /\ [Next]_vars
          => [cpc = "nonEmpty" /\ cpc' = "took" => hand' # NoMsg]_vars
    <2> SUFFICES ASSUME Inv, LookIsSound, [Next]_vars, cpc = "nonEmpty", cpc' = "took"
                 PROVE  hand' # NoMsg
      OBVIOUS
    <2>1. PopFromBufferHead
      BY DEF Next, Consume, AddToBufferTail, IsEmptyBufferFirstRead, IsEmptyBufferSecondRead,
             NothingToDo, ReleasePwrMsg, ResetPwrMsgBuffer, InitPwrMsgBuffer, consumer, vars
    <2>2. head # tail /\ ready
      BY DEF LookIsSound, Inv, ConsumerIsJoined
    <2>3. head' = Succ(head) /\ tail' = tail /\ hand' = msgList[Succ(head)]
      BY <2>1, <2>2 DEF PopFromBufferHead
    <2>4. Succ(head) \in Live
      BY <2>2, <2>3, LiveAfterPop DEF Inv
    <2>5. Succ(head) \in Index
      BY SuccIs DEF Inv, TypeOK
    <2> QED
      BY <2>2, <2>3, <2>4, <2>5, BufferAssumption DEF Inv, TypeOK, SlotsHoldOwnMessages
  <1> QED
    BY <1>1, <1>2, InitInv, NextInv, LookInvariant, PTL DEF Spec, SeenMessageIsPopped

-----------------------------------------------------------------------------
\* The slots of the messages in queue order: they are live, and different.
LEMMA SlotIs ==
    ASSUME TypeOK
    PROVE  /\ Count \in 0 .. PWR_BUFFER_SIZE - 1
           /\ Count = 0 <=> head = tail
           /\ Count = PWR_BUFFER_SIZE - 1 <=> Succ(tail) = head
           /\ \A i \in 1 .. Count : Slot(i) \in Index /\ Slot(i) # Succ(tail)
           /\ \A i \in 2 .. Count : Slot(i) # Succ(head)
           /\ Slot(1) = Succ(head)
           /\ Slot(Count + 1) = Succ(tail)
  <1>1. head \in Index /\ tail \in Index
    BY DEF TypeOK
  <1>2. /\ Succ(head) = IF head = PWR_BUFFER_SIZE - 1 THEN 0 ELSE head + 1
        /\ Succ(tail) = IF tail = PWR_BUFFER_SIZE - 1 THEN 0 ELSE tail + 1
    BY <1>1, SuccIs
  <1> QED
    BY <1>1, <1>2, BufferAssumption DEF Count, Slot, Index

\* A queue that has as many messages as another, and the same ones, is the same.
LEMMA ContentsIsSeq ==
    ASSUME TypeOK
    PROVE  /\ Contents \in Seq(Msg \union {NoMsg})
           /\ Len(Contents) = (IF ready THEN Count ELSE 0)
           /\ ready => \A i \in 1 .. Count : Contents[i] = msgList[Slot(i)]
  <1>1. Count \in Nat /\ \A i \in 1 .. Count : Slot(i) \in Index
    BY SlotIs, BufferAssumption
  <1> QED
    BY <1>1 DEF Contents, TypeOK

LEMMA AddIsPut ==
    ASSUME Inv, Inv', NEW m \in Msg, AddToBufferTail(m)
    PROVE  Lossy!Put(m)
  <1> DEFINE full == Succ(tail) = head
             q == IF full THEN Tail(Contents) ELSE Contents
  <1>1. TypeOK /\ TypeOK' /\ ready /\ ready'
    BY DEF Inv, AddToBufferTail
  <1>2. head \in Index /\ tail \in Index
    BY <1>1 DEF TypeOK
  <1>3. /\ Succ(head) = IF head = PWR_BUFFER_SIZE - 1 THEN 0 ELSE head + 1
        /\ Succ(tail) = IF tail = PWR_BUFFER_SIZE - 1 THEN 0 ELSE tail + 1
    BY <1>2, SuccIs
  <1>4. Count' = IF full THEN Count ELSE Count + 1
    BY <1>2, <1>3, BufferAssumption DEF Count, AddToBufferTail, Index
  <1>5. Contents' = [i \in 1 .. Count' |-> msgList'[Slot(i)']]
    BY <1>1 DEF Contents
  <1>6. /\ Contents \in Seq(Msg \union {NoMsg})
        /\ Len(Contents) = Count
        /\ \A i \in 1 .. Count : Contents[i] = msgList[Slot(i)]
    BY <1>1, ContentsIsSeq
  <1>7. Contents' \in Seq(Msg \union {NoMsg}) /\ Len(Contents') = Count'
    <2>1. /\ Count' \in Nat
          /\ \A i \in 1 .. Count' : Slot(i)' \in Index
      BY <1>1, <1>2, <1>3, BufferAssumption DEF Count, Slot, AddToBufferTail, Index
    <2> QED
      BY <1>1, <1>5, <2>1 DEF TypeOK
  <1>8. Contents' = Append(q, m)
    <2>1. CASE full
      <3>1. Count = PWR_BUFFER_SIZE - 1 /\ Count' = Count
        BY <1>1, <1>4, <2>1, SlotIs
      <3>2. /\ q \in Seq(Msg \union {NoMsg}) /\ Len(q) = Count - 1
            /\ \A i \in 1 .. Count - 1 : q[i] = msgList[Slot(i + 1)]
        BY <1>6, <2>1, <3>1, BufferAssumption
      <3>3. \A i \in 1 .. Count - 1 : msgList'[Slot(i)'] = msgList[Slot(i + 1)]
        <4> TAKE i \in 1 .. Count - 1
        <4>1. Slot(i)' = Slot(i + 1)
          BY <1>2, <1>3, <2>1, <3>1, BufferAssumption DEF Slot, AddToBufferTail, Index
        <4>2. /\ Slot(i + 1) \in Index
              /\ Slot(i + 1) # Succ(head) /\ Slot(i + 1) # Succ(tail)
          BY <1>1, <3>1, SlotIs, BufferAssumption
        <4> QED
          BY <1>1, <4>1, <4>2 DEF AddToBufferTail, TypeOK
      <3>4. msgList'[Slot(Count)'] = m
        <4>1. Slot(Count)' = Succ(tail)
          BY <1>2, <1>3, <2>1, <3>1, BufferAssumption DEF Slot, AddToBufferTail, Index
        <4> QED
          BY <1>1, <1>2, <4>1, SuccIs DEF AddToBufferTail, TypeOK
      <3> QED
        BY <1>5, <3>1, <3>2, <3>3, <3>4, BufferAssumption
    <2>2. CASE ~full
      <3>1. Count \in Nat /\ Count' = Count + 1
        BY <1>1, <1>4, <2>2, SlotIs, BufferAssumption
      <3>2. \A i \in 1 .. Count + 1 : Slot(i)' = Slot(i)
        BY <2>2 DEF Slot, AddToBufferTail
      <3>3. \A i \in 1 .. Count : msgList'[Slot(i)] = msgList[Slot(i)]
        BY <1>1, <2>2, SlotIs DEF AddToBufferTail, TypeOK
      <3>4. msgList'[Slot(Count + 1)] = m
        BY <1>1, <1>2, SlotIs, SuccIs DEF AddToBufferTail, TypeOK
      <3>5. /\ Append(q, m) \in Seq(Msg \union {NoMsg})
            /\ Len(Append(q, m)) = Count + 1
            /\ \A i \in 1 .. Count : Append(q, m)[i] = Contents[i]
            /\ Append(q, m)[Count + 1] = m
        BY <1>6, <2>2, <3>1, AppendProperties
      <3>6. \A i \in 1 .. Count + 1 : msgList'[Slot(i)'] = Append(q, m)[i]
        BY <1>6, <3>1, <3>2, <3>3, <3>4, <3>5
      <3>7. Contents' \in Seq(Msg \union {NoMsg}) /\ Len(Contents') = Count + 1
        BY <1>7, <3>1
      <3> QED
        BY <1>5, <3>1, <3>5, <3>6, <3>7, SeqEqual
    <2> QED
      BY <2>1, <2>2
  <1>9. full <=> Len(Contents) = PWR_BUFFER_SIZE - 1
    BY <1>1, <1>6, SlotIs
  <1> QED
    BY <1>8, <1>9 DEF Lossy!Put, AddToBufferTail, consumer

LEMMA PopIsTake ==
    ASSUME Inv, Inv', PopFromBufferHead
    PROVE  Lossy!Take \/ UNCHANGED Lossy!vars
  <1>1. TypeOK /\ TypeOK' /\ ready /\ ready' /\ hand = NoMsg
    BY DEF Inv, ConsumerIsJoined, PopFromBufferHead
  <1>2. CASE head = tail
    BY <1>1, <1>2 DEF PopFromBufferHead, ring, Lossy!vars, Contents, Count, Slot
  <1>3. CASE head # tail
    <2>1. head \in Index /\ tail \in Index
      BY <1>1 DEF TypeOK
    <2>2. Succ(head) = IF head = PWR_BUFFER_SIZE - 1 THEN 0 ELSE head + 1
      BY <2>1, SuccIs
    <2>3. Count' = Count - 1
      BY <1>3, <2>1, <2>2, BufferAssumption DEF Count, PopFromBufferHead, Index
    <2>4. Contents' = [i \in 1 .. Count' |-> msgList'[Slot(i)']]
      BY <1>1 DEF Contents
    <2>5. /\ Contents \in Seq(Msg \union {NoMsg})
          /\ Len(Contents) = Count
          /\ \A i \in 1 .. Count : Contents[i] = msgList[Slot(i)]
      BY <1>1, ContentsIsSeq
    <2>6. Count \in Nat \ {0}
      BY <1>1, <1>3, SlotIs, BufferAssumption
    <2>7. \A i \in 1 .. Count - 1 : msgList'[Slot(i)'] = msgList[Slot(i + 1)]
      <3> TAKE i \in 1 .. Count - 1
      <3>1. Slot(i)' = Slot(i + 1)
        BY <1>3, <2>1, <2>2, <2>6, BufferAssumption DEF Slot, Count, PopFromBufferHead, Index
      <3>2. Slot(i + 1) \in Index /\ Slot(i + 1) # Succ(head)
        BY <1>1, <2>6, SlotIs, BufferAssumption
      <3> QED
        BY <1>1, <1>3, <3>1, <3>2 DEF PopFromBufferHead, TypeOK
    <2>8. Contents' = Tail(Contents)
      <3>1. /\ Tail(Contents) \in Seq(Msg \union {NoMsg})
            /\ Len(Tail(Contents)) = Count - 1
            /\ \A i \in 1 .. Count - 1 : Tail(Contents)[i] = msgList[Slot(i + 1)]
        BY <2>5, <2>6
      <3>2. \A i \in 1 .. Count - 1 : Slot(i)' \in Index
        BY <1>3, <2>1, <2>2, <2>6, BufferAssumption DEF Slot, Count, PopFromBufferHead, Index
      <3>3. Contents' \in Seq(Msg \union {NoMsg}) /\ Len(Contents') = Count - 1
        BY <1>1, <2>3, <2>4, <2>6, <3>2 DEF TypeOK
      <3>4. \A i \in 1 .. Count - 1 : Contents'[i] = Tail(Contents)[i]
        BY <2>3, <2>4, <2>7, <3>1
      <3> QED
        BY <3>1, <3>3, <3>4, SeqEqual
    <2>9. hand' = Head(Contents) /\ Contents # <<>>
      BY <1>1, <1>3, <2>5, <2>6, SlotIs DEF PopFromBufferHead
    <2> QED
      BY <1>1, <2>8, <2>9 DEF Lossy!Take
  <1> QED
    BY <1>2, <1>3

LEMMA StepIsLossyStep == Inv /\ Inv' /\ [Next]_vars => [Lossy!Next]_(Lossy!vars)
  <1> SUFFICES ASSUME Inv, Inv', [Next]_vars PROVE [Lossy!Next]_(Lossy!vars)
    OBVIOUS
  <1>1. ASSUME NEW m \in Msg, AddToBufferTail(m) PROVE Lossy!Next
    BY <1>1, AddIsPut DEF Lossy!Next
  <1>2. CASE PopFromBufferHead
    BY <1>2, PopIsTake DEF Lossy!Next
  <1>3. CASE IsEmptyBufferFirstRead \/ IsEmptyBufferSecondRead \/ NothingToDo
             \/ UNCHANGED vars
    <2>1. UNCHANGED <<head, tail, msgList, ready, hand>>
      BY <1>3 DEF IsEmptyBufferFirstRead, IsEmptyBufferSecondRead, NothingToDo, vars, ring
    <2>2. Contents' = Contents
      BY <2>1 DEF Contents, Count, Slot
    <2> QED
      BY <2>1, <2>2 DEF Lossy!vars
  <1>4. CASE ReleasePwrMsg
    BY <1>4 DEF ReleasePwrMsg, ring, Lossy!Next, Lossy!Finish, Contents, Count, Slot
  <1>5. CASE ResetPwrMsgBuffer
    BY <1>5 DEF ResetPwrMsgBuffer, consumer, Lossy!Next, Lossy!Clear, Contents
  <1>6. CASE InitPwrMsgBuffer
    BY <1>6 DEF InitPwrMsgBuffer, consumer, Lossy!Next, Lossy!Clear, Contents, Count
  <1> QED
    BY <1>1, <1>2, <1>3, <1>4, <1>5, <1>6 DEF Next, Consume

\* The ring of pwrbuffer.c is a lossy queue of PWR_BUFFER_SIZE - 1 messages: in order,
\* never blocking, dropping the oldest message and only when full.
THEOREM RingIsLossyQueue == Spec => ImplementsLossyQueue
  <1>1. Init => Lossy!Init
    BY DEF Init, Lossy!Init, Contents, Count
  <1> QED
    BY <1>1, StepIsLossyStep, InitInv, NextInv, PTL DEF Spec, Lossy!Spec, ImplementsLossyQueue

-----------------------------------------------------------------------------
\* After a reset only the slot at tail may still hold a message.
NewestRemains == ~ready => \A i \in Index : i # tail => msgList[i] = NoMsg

LEMMA NewestRemainsInv == Inv /\ NewestRemains /\ [Next]_vars => NewestRemains'
  <1> SUFFICES ASSUME Inv, NewestRemains, [Next]_vars PROVE NewestRemains'
    OBVIOUS
  <1>1. CASE ResetPwrMsgBuffer
    <2> SUFFICES ASSUME NEW i \in Index, i # tail PROVE msgList'[i] = NoMsg
      BY <1>1 DEF ResetPwrMsgBuffer, NewestRemains
    <2>1. head \in Index /\ tail \in Index /\ ready
      BY <1>1 DEF ResetPwrMsgBuffer, Inv, TypeOK
    <2>2. Succ(head) = IF head = PWR_BUFFER_SIZE - 1 THEN 0 ELSE head + 1
      BY <2>1, SuccIs
    <2>3. i \in Live => head # tail /\ i \in Between(head, tail) \ {tail}
      BY <2>1, <2>2, BufferAssumption DEF Live, Between, Index
    <2>4. i \notin Live => msgList[i] = NoMsg
      BY <2>1 DEF Inv, SlotsHoldOwnMessages
    <2> QED
      BY <1>1, <2>3, <2>4 DEF ResetPwrMsgBuffer
  <1>2. CASE ~ResetPwrMsgBuffer
    <2>1. ready' \/ UNCHANGED <<ready, msgList, tail>>
      BY <1>2 DEF Next, Consume, AddToBufferTail, IsEmptyBufferFirstRead,
                  IsEmptyBufferSecondRead, NothingToDo, PopFromBufferHead, ReleasePwrMsg,
                  InitPwrMsgBuffer, ring, vars, Inv, ConsumerIsJoined
    <2> QED
      BY <2>1 DEF NewestRemains
  <1> QED
    BY <1>1, <1>2

\* Memory is lost only when InitPwrMsgBuffer follows a ResetPwrMsgBuffer that stopped
\* short of the newest message, and then it is that message and no other, whatever the
\* size of the ring.
THEOREM LeakIsNewest == Spec => OnlyNewestIsLeaked
  <1>1. Init => NewestRemains
    BY DEF Init, NewestRemains
  <1>2. Inv /\ NewestRemains /\ [Next]_vars
          => [Leaked' \subseteq Leaked \/ (~ready /\ Leaked' \ Leaked = {msgList[tail]})]_vars
    <2> SUFFICES ASSUME Inv, NewestRemains, Next
                 PROVE  Leaked' \subseteq Leaked \/ (~ready /\ Leaked' \ Leaked = {msgList[tail]})
      OBVIOUS
    <2>1. ASSUME NEW m \in Msg, AddToBufferTail(m) PROVE Leaked' \subseteq Leaked
      <3>1. head \in Index /\ tail \in Index /\ ready
        BY <2>1 DEF AddToBufferTail, Inv, TypeOK
      <3>2. Succ(head) \in Index /\ Succ(tail) \in Index
        BY <3>1, SuccIs
      <3>3. msgList[Succ(tail)] = NoMsg
        <4>1. Succ(tail) \notin Live
          BY <2>1, LiveAfterAdd DEF AddToBufferTail, Inv
        <4> QED
          BY <3>1, <3>2, <4>1 DEF Inv, SlotsHoldOwnMessages
      <3>4. msgList'[Succ(tail)] = m
        BY <2>1, <3>2 DEF AddToBufferTail, Inv, TypeOK
      <3>5. ASSUME NEW x \in allocated', x # m, NEW i \in Index, msgList[i] = x
            PROVE  msgList'[i] = x
        <4>1. x # NoMsg /\ i # Succ(tail)
          BY <2>1, <3>3, <3>5, BufferAssumption DEF AddToBufferTail, Inv, TypeOK
        <4>2. ~(Succ(tail) = head /\ i = Succ(head))
          BY <2>1, <3>5 DEF AddToBufferTail
        <4> QED
          BY <2>1, <3>5, <4>1, <4>2 DEF AddToBufferTail, Inv, TypeOK
      <3> SUFFICES ASSUME NEW x \in Leaked' PROVE x \in Leaked
        OBVIOUS
      <3>6. x \in allocated' /\ x # hand /\ \A i \in Index : msgList'[i] # x
        BY <2>1 DEF Leaked, AddToBufferTail, consumer
      <3>7. x # m /\ x \in allocated
        BY <2>1, <3>2, <3>4, <3>6 DEF AddToBufferTail
      <3> QED
        BY <3>5, <3>6, <3>7 DEF Leaked
    <2>2. CASE IsEmptyBufferFirstRead \/ IsEmptyBufferSecondRead \/ NothingToDo
      BY <2>2 DEF IsEmptyBufferFirstRead, IsEmptyBufferSecondRead, NothingToDo, ring, Leaked
    <2>3. CASE PopFromBufferHead
      <3>1. head \in Index /\ hand = NoMsg
        BY <2>3 DEF PopFromBufferHead, Inv, TypeOK, ConsumerIsJoined
      <3>2. Succ(head) \in Index
        BY <3>1, SuccIs
      <3>3. NoMsg \notin allocated
        BY BufferAssumption DEF Inv, TypeOK
      <3> QED
        BY <2>3, <3>1, <3>2, <3>3 DEF PopFromBufferHead, Leaked, ring, Inv, TypeOK
    <2>4. CASE ReleasePwrMsg
      BY <2>4 DEF ReleasePwrMsg, Leaked, ring
    <2>5. CASE ResetPwrMsgBuffer
      BY <2>5 DEF ResetPwrMsgBuffer, Leaked, consumer
    <2>6. CASE InitPwrMsgBuffer
      <3>1. \A x \in Leaked' \ Leaked : x = msgList[tail]
        <4>1. NoMsg \notin allocated
          BY BufferAssumption DEF Inv, TypeOK
        <4> QED
          BY <2>6, <4>1 DEF InitPwrMsgBuffer, Leaked, consumer, NewestRemains
      <3> QED
        BY <2>6, <3>1 DEF InitPwrMsgBuffer
    <2> QED
      BY <2>1, <2>2, <2>3, <2>4, <2>5, <2>6 DEF Next, Consume
  <1> QED
    BY <1>1, <1>2, InitInv, NextInv, NewestRemainsInv, PTL DEF Spec, OnlyNewestIsLeaked
=============================================================================
