-------------------------- MODULE SockClientProofs --------------------------
(***************************************************************************)
(* Proofs about the calls of module SockClient, for any number of          *)
(* concurrent calls and any size of the send buffer.                       *)
(***************************************************************************)
EXTENDS SockClient, SequenceTheorems, FiniteSetTheorems, TLAPS

(***************************************************************************)
(* The inductive invariant: wherever an answer is on its way from the      *)
(* socket to the caller, it is at the node of its own call.                *)
(***************************************************************************)
AnswersAtOwnNode ==
    /\ \A c \in Call : rspMsg[c] \in {c, None}
    /\ spc = "deliver" => found \in Call /\ rsp = found
    /\ spc = "signal" => found \in Call

Inv == TypeOK /\ AnswersAtOwnNode /\ AnswerIsOwn

LEMMA InitInv == Init => Inv
  <1>1. <<>> \in Seq(Call) /\ Len(<<>>) = 0
    OBVIOUS
  <1> SUFFICES ASSUME Init PROVE Inv
    OBVIOUS
  <1>2. sendBuff \in Seq(Call) /\ Len(sendBuff) <= SendCapacity
    BY <1>1, SockClientAssumption DEF Init
  <1>3. TypeOK
    BY <1>1, <1>2 DEF Init, TypeOK, CallPc
  <1> QED
    BY <1>3 DEF Init, Inv, AnswersAtOwnNode, AnswerIsOwn

\* Taking a node out of the list, or dying of it, keeps the types of the links.
LEMMA MoveTypes ==
    ASSUME TypeOK, NEW n \in Call, MoveFromList(n)
    PROVE  /\ next' \in [Call -> Call \union {None}]
           /\ prev' \in [Call -> Call \union {None}]
           /\ head' \in Call \union {None}
           /\ tail' \in Call \union {None}
           /\ inList' \subseteq Call
           /\ fault' \in BOOLEAN
  <1> DEFINE before == IF n = head THEN None ELSE prev[n]
             after  == IF n = tail THEN None ELSE next[n]
  <1>1. before \in Call \union {None} /\ after \in Call \union {None}
    BY DEF TypeOK
  <1>2. CASE HitsNull(n)
    BY <1>2 DEF MoveFromList, linkVars, TypeOK
  <1>3. CASE ~HitsNull(n)
    BY <1>1, <1>3 DEF MoveFromList, TypeOK
  <1> QED
    BY <1>2, <1>3

LEMMA CallStepInv ==
    ASSUME Inv, NEW c \in Call, CallStep(c)
    PROVE  Inv'
  <1> USE SockClientAssumption DEF Inv, AnswersAtOwnNode, AnswerIsOwn
  <1> USE DEF linkVars, nodeVars, netVars, sockVars
  <1>1. CASE SendClone(c)
    <2>1. sendBuff' \in Seq(Call) /\ Len(sendBuff') <= SendCapacity
      <3> DEFINE kept == IF Len(sendBuff) = SendCapacity THEN Tail(sendBuff) ELSE sendBuff
      <3>1. kept \in Seq(Call) /\ Len(kept) \in Nat /\ Len(kept) + 1 <= SendCapacity
        <4>1. CASE Len(sendBuff) = SendCapacity
          <5>1. Tail(sendBuff) \in Seq(Call) /\ Len(Tail(sendBuff)) = SendCapacity - 1
            BY <4>1, HeadTailProperties DEF TypeOK
          <5> QED
            BY <4>1, <5>1
        <4>2. CASE Len(sendBuff) # SendCapacity
          BY <4>2 DEF TypeOK
        <4> QED
          BY <4>1, <4>2
      <3>2. Append(kept, c) \in Seq(Call) /\ Len(Append(kept, c)) = Len(kept) + 1
        <4> HIDE DEF kept
        <4> QED
          BY <3>1, AppendProperties
      <3>3. sendBuff' = Append(kept, c) \/ sendBuff' = sendBuff
        BY <1>1 DEF SendClone
      <3> HIDE DEF kept
      <3> QED
        BY <3>1, <3>2, <3>3 DEF TypeOK
    <2>2. pc' \in [Call -> CallPc]
      <3>1. pc' = [pc EXCEPT ![c] = "sent"] \/ pc' = [pc EXCEPT ![c] = "done"]
        BY <1>1 DEF SendClone
      <3>2. pc \in [Call -> CallPc] /\ "sent" \in CallPc /\ "done" \in CallPc
        BY DEF TypeOK, CallPc
      <3> QED
        BY <3>1, <3>2
    <2>3. UNCHANGED <<start, got, linkVars, nodeVars, up, down, connected, peerOpen, sockVars, fault>>
      BY <1>1 DEF SendClone
    <2> QED
      BY <2>1, <2>2, <2>3 DEF TypeOK
  <1>2. CASE Enlist(c) /\ JoinList(c)
    <2>1. pc' \in [Call -> CallPc] /\ hasReq' \in [Call -> BOOLEAN]
      BY <1>2 DEF Enlist, JoinList, TypeOK, CallPc
    <2>2. /\ next' \in [Call -> Call \union {None}] /\ prev' \in [Call -> Call \union {None}]
          /\ head' \in Call \union {None} /\ tail' \in Call \union {None}
      <3>1. AddToWaitingListTail(c)
        BY <1>2 DEF Enlist, JoinList
      <3>2. CASE tail = None \/ head = None
        BY <3>1, <3>2 DEF AddToWaitingListTail, TypeOK
      <3>3. CASE ~(tail = None \/ head = None)
        <4>1. /\ prev' = [prev EXCEPT ![c] = tail]
              /\ next' = [next EXCEPT ![c] = None, ![tail] = c]
              /\ tail' = c /\ head' = head
          BY <3>1, <3>3 DEF AddToWaitingListTail
        <4>2. next' \in [Call -> Call \union {None}]
          BY <4>1 DEF TypeOK
        <4>3. prev' \in [Call -> Call \union {None}]
          BY <4>1 DEF TypeOK
        <4> QED
          BY <4>1, <4>2, <4>3 DEF TypeOK
      <3> QED
        BY <3>2, <3>3
    <2>3. inList' \subseteq Call /\ UNCHANGED <<start, got, rspMsg, netVars, sockVars, fault>>
      BY <1>2 DEF Enlist, JoinList, TypeOK
    <2> QED
      BY <2>1, <2>2, <2>3 DEF TypeOK
  <1>9. CASE Enlist(c) /\ ReleaseTwice(c)
    <2>1. pc' \in [Call -> CallPc] /\ fault' \in BOOLEAN
      BY <1>9 DEF ReleaseTwice, TypeOK, CallPc
    <2>2. UNCHANGED <<start, got, linkVars, hasReq, rspMsg, netVars, sockVars>>
      BY <1>9 DEF Enlist, ReleaseTwice
    <2> QED
      BY <2>1, <2>2 DEF TypeOK
  <1>3. CASE StartWaiting(c) \/ WakeUpForNoReason(c) \/ TimeOut(c)
    <2>1. /\ UNCHANGED <<start, got, linkVars, nodeVars, netVars, sockVars, fault>>
          /\ pc' \in [Call -> CallPc]
      <3>1. \E p \in CallPc : pc' = [pc EXCEPT ![c] = p]
        BY <1>3 DEF StartWaiting, WakeUpForNoReason, TimeOut, CallPc
      <3>2. pc \in [Call -> CallPc]
        BY DEF TypeOK
      <3> QED
        BY <1>3, <3>1, <3>2 DEF StartWaiting, WakeUpForNoReason, TimeOut
    <2> QED
      BY <2>1 DEF TypeOK
  <1>4. CASE ReadHead(c)
    BY <1>4 DEF ReadHead, TypeOK, CallPc
  <1>5. CASE MoveOutWaitingMsg(c)
    <2>1. /\ next' \in [Call -> Call \union {None}]
          /\ prev' \in [Call -> Call \union {None}]
          /\ head' \in Call \union {None}
          /\ tail' \in Call \union {None}
          /\ inList' \subseteq Call
          /\ fault' \in BOOLEAN
      BY <1>5, MoveTypes DEF MoveOutWaitingMsg, TypeOK
    <2> QED
      BY <1>5, <2>1 DEF MoveOutWaitingMsg, TypeOK, CallPc
  <1>6. CASE TakeAnswer(c)
    BY <1>6 DEF TakeAnswer, TypeOK, CallPc
  <1>7. CASE ClearNode(c)
    BY <1>7 DEF ClearNode, TypeOK, CallPc
  <1>8. CASE ReleaseNode(c)
    BY <1>8 DEF ReleaseNode, TypeOK, CallPc
  <1> QED
    BY <1>1, <1>2, <1>3, <1>4, <1>5, <1>6, <1>7, <1>8, <1>9 DEF CallStep, Proceed, Enlist

LEMMA SockStepInv == ASSUME Inv, SockStep PROVE Inv'
  <1> USE SockClientAssumption DEF Inv, AnswersAtOwnNode, AnswerIsOwn
  <1> USE DEF linkVars, nodeVars, netVars, sockVars, callVars
  <1>1. CASE SendMsgToSocket
    <2>1. /\ sendBuff' \in Seq(Call) /\ Len(sendBuff') <= SendCapacity
          /\ up' \in Seq(Call)
      <3>1. /\ Head(sendBuff) \in Call /\ Tail(sendBuff) \in Seq(Call)
            /\ Len(Tail(sendBuff)) = Len(sendBuff) - 1
        BY <1>1, HeadTailProperties DEF SendMsgToSocket, TypeOK
      <3> QED
        <4>1. Append(up, Head(sendBuff)) \in Seq(Call)
          BY <3>1, AppendProperties DEF TypeOK
        <4>2. up' = Append(up, Head(sendBuff)) \/ up' = up
          BY <1>1 DEF SendMsgToSocket
        <4>3. sendBuff' = Tail(sendBuff) /\ Len(sendBuff) \in Nat
          BY <1>1 DEF SendMsgToSocket, TypeOK
        <4>4. Len(sendBuff') <= SendCapacity
          <5>1. Len(sendBuff) <= SendCapacity /\ SendCapacity \in Nat
            BY DEF TypeOK
          <5>2. Len(sendBuff') = Len(sendBuff) - 1
            BY <3>1, <4>3
          <5> QED
            BY <4>3, <5>1, <5>2
        <4>5. up' \in Seq(Call)
          BY <4>1, <4>2 DEF TypeOK
        <4> QED
          BY <3>1, <4>3, <4>4, <4>5
    <2> QED
      BY <1>1, <2>1 DEF SendMsgToSocket, TypeOK
  <1>2. CASE RecvMsgFromSocket
    <2>1. Head(down) \in Call /\ down' \in Seq(Call)
      BY <1>2 DEF RecvMsgFromSocket, TypeOK
    <2>2. CASE Matches(Head(down)) = {}
      BY <1>2, <2>1, <2>2 DEF RecvMsgFromSocket, FindAndMoveWaitingMsg, TypeOK
    <2>3. CASE Matches(Head(down)) # {}
      <3>1. found' = Head(down) /\ MoveFromList(Head(down))
        BY <1>2, <2>3 DEF RecvMsgFromSocket, FindAndMoveWaitingMsg, Matches
      <3>2. spc' = "deliver" /\ rsp' = Head(down)
        BY <1>2, <2>1, <3>1 DEF RecvMsgFromSocket
      <3>3. TypeOK'
        BY <1>2, <2>1, <3>1, <3>2, MoveTypes DEF RecvMsgFromSocket, TypeOK
      <3> QED
        BY <1>2, <2>1, <3>1, <3>2, <3>3 DEF RecvMsgFromSocket
    <2> QED
      BY <2>2, <2>3
  <1>3. CASE DeliverAnswer
    BY <1>3 DEF DeliverAnswer, TypeOK
  <1>4. CASE SignalCall
    BY <1>4 DEF SignalCall, TypeOK, CallPc
  <1>5. CASE NoticeClosed \/ Reconnect
    BY <1>5 DEF NoticeClosed, Reconnect, TypeOK
  <1> QED
    BY <1>1, <1>2, <1>3, <1>4, <1>5 DEF SockStep

LEMMA DaemonInv == ASSUME Inv, Answer \/ Close PROVE Inv'
  <1> USE DEF Inv, AnswersAtOwnNode, AnswerIsOwn, linkVars, nodeVars, netVars, sockVars, callVars
  <1>1. up' \in Seq(Call) /\ down' \in Seq(Call)
    <2>1. up # <<>> => Head(up) \in Call /\ Tail(up) \in Seq(Call)
      BY HeadTailProperties DEF TypeOK
    <2>2. <<>> \in Seq(Call)
      OBVIOUS
    <2>3. up # <<>> => Append(down, Head(up)) \in Seq(Call)
      BY <2>1, AppendProperties DEF TypeOK
    <2> QED
      BY <2>1, <2>2, <2>3 DEF Answer, Close, TypeOK
  <1> QED
    BY <1>1 DEF Answer, Close, TypeOK

LEMMA NextInv == Inv /\ [Next]_vars => Inv'
  <1> SUFFICES ASSUME Inv, [Next]_vars PROVE Inv'
    OBVIOUS
  <1>1. CASE UNCHANGED vars
    BY <1>1 DEF vars, callVars, linkVars, nodeVars, netVars, sockVars,
                Inv, TypeOK, AnswersAtOwnNode, AnswerIsOwn
  <1> QED
    BY <1>1, CallStepInv, SockStepInv, DaemonInv DEF Next

LEMMA Invariance == Spec => []Inv
  BY InitInv, NextInv, PTL DEF Spec

\* The variables of the client keep their types, and the send buffer its bound.
THEOREM TypeCorrect == Spec => []TypeOK
  BY Invariance, PTL DEF Inv

\* However many calls wait at once, time out, or return with the socket thread still
\* holding their node, each returns the answer to its own request or none.
THEOREM OwnAnswer == Spec => []AnswerIsOwn
  BY Invariance, PTL DEF Inv

(***************************************************************************)
(* The order of the waiting list: the nodes from the head to the tail.     *)
(***************************************************************************)
Once(s) == \A i, j \in 1 .. Len(s) : s[i] = s[j] => i = j

Order(q) ==
    /\ q \in Seq(Call)
    /\ Once(q)
    /\ inList = {q[i] : i \in 1 .. Len(q)}
    /\ head = IF Len(q) = 0 THEN None ELSE q[1]
    /\ tail = IF Len(q) = 0 THEN None ELSE q[Len(q)]
    /\ \A i \in 1 .. Len(q) : next[q[i]] = IF i = Len(q) THEN None ELSE q[i + 1]
    /\ \A i \in 1 .. Len(q) : prev[q[i]] = IF i = 1 THEN None ELSE q[i - 1]
    /\ \A n \in Call \ inList : next[n] = None /\ prev[n] = None

LEMMA AppendOrder ==
    ASSUME TypeOK, NEW q, Order(q), NEW n \in Call \ inList, AddToWaitingListTail(n),
           inList' = inList \union {n}
    PROVE  \E r : Order(r)'
  <1> DEFINE L == Len(q)
             r == Append(q, n)
  <1>1. /\ q \in Seq(Call) /\ L \in Nat /\ \A i \in 1 .. L : q[i] \in Call /\ q[i] # n
        /\ None \notin Call
    BY SockClientAssumption DEF Order
  <1>2. r \in Seq(Call) /\ Len(r) = L + 1 /\ r[L + 1] = n /\ \A i \in 1 .. L : r[i] = q[i]
    BY <1>1, AppendProperties
  <1> HIDE DEF r
  <1>3. Once(r)
    <2>1. \A i, j \in 1 .. L : q[i] = q[j] => i = j
      BY DEF Order, Once
    <2>2. \A i \in 1 .. L + 1 : i = L + 1 \/ i \in 1 .. L
      BY <1>1
    <2> SUFFICES ASSUME NEW i \in 1 .. L + 1, NEW j \in 1 .. L + 1, r[i] = r[j] PROVE i = j
      BY <1>2 DEF Once
    <2> QED
      BY <1>1, <1>2, <2>1, <2>2
  <1>4. inList' = {r[i] : i \in 1 .. Len(r)}
    <2>1. 1 .. Len(r) = (1 .. L) \union {L + 1}
      BY <1>1, <1>2
    <2>2. inList = {q[i] : i \in 1 .. L}
      BY DEF Order
    <2>3. {r[i] : i \in 1 .. Len(r)} = {r[i] : i \in 1 .. L} \union {r[L + 1]}
      BY <2>1
    <2>4. {r[i] : i \in 1 .. L} = {q[i] : i \in 1 .. L}
      BY <1>2
    <2> QED
      BY <1>2, <2>2, <2>3, <2>4
  <1>5. /\ next \in [Call -> Call \union {None}] /\ prev \in [Call -> Call \union {None}]
    BY DEF TypeOK
  <1>6. CASE L = 0
    <2>1. /\ head' = n /\ tail' = n
          /\ next' = [next EXCEPT ![n] = None]
          /\ prev' = [prev EXCEPT ![n] = None]
      BY <1>6 DEF Order, AddToWaitingListTail
    <2>2. /\ next'[n] = None /\ prev'[n] = None
          /\ \A c \in Call \ {n} : next'[c] = next[c] /\ prev'[c] = prev[c]
      BY <1>5, <2>1
    <2>3. Len(r) = 1 /\ r[1] = n /\ \A i \in 1 .. Len(r) : i = 1
      BY <1>2, <1>6
    <2>4. \A c \in Call \ inList' : next'[c] = None /\ prev'[c] = None
      BY <2>2 DEF Order
    <2>5. \A i \in 1 .. Len(r) : next'[r[i]] = IF i = Len(r) THEN None ELSE r[i + 1]
      BY <2>2, <2>3
    <2>6. \A i \in 1 .. Len(r) : prev'[r[i]] = IF i = 1 THEN None ELSE r[i - 1]
      BY <2>2, <2>3
    <2>7. /\ head' = IF Len(r) = 0 THEN None ELSE r[1]
          /\ tail' = IF Len(r) = 0 THEN None ELSE r[Len(r)]
      BY <2>1, <2>3
    <2> QED
      BY <1>2, <1>3, <1>4, <2>4, <2>5, <2>6, <2>7 DEF Order
  <1>7. CASE L > 0
    <2>1. head = q[1] /\ tail = q[L] /\ head # None /\ tail # None /\ tail \in Call
      BY <1>1, <1>7 DEF Order
    <2>2. /\ head' = head /\ tail' = n
          /\ next' = [next EXCEPT ![n] = None, ![tail] = n]
          /\ prev' = [prev EXCEPT ![n] = tail]
      BY <2>1 DEF AddToWaitingListTail
    <2>3. tail # n
      BY <1>1, <1>7, <2>1
    <2>4. /\ next'[n] = None /\ prev'[n] = tail /\ next'[tail] = n
          /\ \A c \in Call \ {n} : prev'[c] = prev[c]
          /\ \A c \in Call \ {n, tail} : next'[c] = next[c]
      BY <1>5, <2>1, <2>2, <2>3
    <2>5. \A i \in 1 .. L : i # L => q[i] # tail
      BY <1>1, <1>7, <2>1 DEF Order, Once
    <2>6. \A i \in 1 .. L : next'[q[i]] = r[i + 1]
      <3> SUFFICES ASSUME NEW i \in 1 .. L PROVE next'[q[i]] = r[i + 1]
        OBVIOUS
      <3>1. CASE i = L
        BY <1>2, <2>1, <2>4, <3>1
      <3>2. CASE i # L
        <4>1. i + 1 \in 1 .. L
          BY <1>1, <3>2
        <4>2. next[q[i]] = q[i + 1]
          BY <3>2 DEF Order
        <4> QED
          BY <1>1, <1>2, <2>4, <2>5, <3>2, <4>1, <4>2
      <3> QED
        BY <3>1, <3>2
    <2>7. \A i \in 1 .. Len(r) : next'[r[i]] = IF i = Len(r) THEN None ELSE r[i + 1]
      BY <1>1, <1>2, <2>4, <2>6
    <2>8. \A i \in 1 .. Len(r) : prev'[r[i]] = IF i = 1 THEN None ELSE r[i - 1]
      <3> SUFFICES ASSUME NEW i \in 1 .. Len(r)
                   PROVE  prev'[r[i]] = IF i = 1 THEN None ELSE r[i - 1]
        OBVIOUS
      <3>1. CASE i = L + 1
        BY <1>1, <1>2, <1>7, <2>1, <2>4, <3>1
      <3>2. CASE i # L + 1
        <4>1. i \in 1 .. L
          BY <1>1, <1>2, <3>2
        <4>2. prev[q[i]] = IF i = 1 THEN None ELSE q[i - 1]
          BY <4>1 DEF Order
        <4>3. i # 1 => i - 1 \in 1 .. L
          BY <1>1, <4>1
        <4> QED
          BY <1>1, <1>2, <2>4, <4>1, <4>2, <4>3
      <3> QED
        BY <3>1, <3>2
    <2>9. \A c \in Call \ inList' : next'[c] = None /\ prev'[c] = None
      <3>1. tail \in inList
        BY <1>1, <1>7, <2>1 DEF Order
      <3> QED
        BY <2>4, <3>1 DEF Order
    <2>10. head' = r[1] /\ tail' = r[Len(r)] /\ Len(r) # 0
      BY <1>1, <1>2, <1>7, <2>1, <2>2
    <2> QED
      BY <1>2, <1>3, <1>4, <2>7, <2>8, <2>9, <2>10 DEF Order
  <1> QED
    BY <1>1, <1>6, <1>7

LEMMA RemoveOrder ==
    ASSUME TypeOK, NEW q, Order(q), NEW n \in inList, MoveFromList(n)
    PROVE  ~HitsNull(n) /\ \E r : Order(r)'
  <1> DEFINE L == Len(q)
  <1>1. /\ q \in Seq(Call) /\ L \in Nat /\ \A i \in 1 .. L : q[i] \in Call /\ q[i] # None
        /\ \A i, j \in 1 .. L : q[i] = q[j] => i = j
    BY SockClientAssumption DEF Order, Once
  <1>2. PICK k \in 1 .. L : n = q[k]
    BY DEF Order
  <1>3. head = q[1] /\ tail = q[L] /\ L > 0
    BY <1>1, <1>2 DEF Order
  <1>4. (n = head <=> k = 1) /\ (n = tail <=> k = L)
    BY <1>1, <1>2, <1>3
  <1>5. /\ \A i \in 1 .. L : next[q[i]] = IF i = L THEN None ELSE q[i + 1]
        /\ \A i \in 1 .. L : prev[q[i]] = IF i = 1 THEN None ELSE q[i - 1]
    BY DEF Order
  <1>6. ~HitsNull(n)
    <2>1. k # 1 => k - 1 \in 1 .. L
      BY <1>1, <1>2
    <2>2. k # L => k + 1 \in 1 .. L
      BY <1>1, <1>2
    <2> QED
      BY <1>1, <1>2, <1>4, <1>5, <2>1, <2>2 DEF HitsNull
  <1> DEFINE before == IF k = 1 THEN None ELSE q[k - 1]
             after == IF k = L THEN None ELSE q[k + 1]
  <1>7. /\ before = IF n = head THEN None ELSE prev[n]
        /\ after = IF n = tail THEN None ELSE next[n]
    BY <1>2, <1>4, <1>5
  <1> HIDE DEF before, after
  <1>8. /\ head' = IF n = head THEN after ELSE head
        /\ tail' = IF n = tail THEN before ELSE tail
        /\ next' = [c \in Call |-> CASE c = n -> None [] c = before -> after [] OTHER -> next[c]]
        /\ prev' = [c \in Call |-> CASE c = n -> None [] c = after -> before [] OTHER -> prev[c]]
        /\ inList' = inList \ {n}
    BY <1>6, <1>7 DEF MoveFromList
  <1>9. \A i \in 1 .. L : i # k =>
           /\ next'[q[i]] = IF i = k - 1 THEN after ELSE next[q[i]]
           /\ prev'[q[i]] = IF i = k + 1 THEN before ELSE prev[q[i]]
    <2> SUFFICES ASSUME NEW i \in 1 .. L, i # k
                 PROVE  /\ next'[q[i]] = IF i = k - 1 THEN after ELSE next[q[i]]
                        /\ prev'[q[i]] = IF i = k + 1 THEN before ELSE prev[q[i]]
      OBVIOUS
    <2>1. q[i] \in Call /\ q[i] # n
      BY <1>1, <1>2
    <2>2. q[i] = before <=> i = k - 1
      <3>1. k # 1 => k - 1 \in 1 .. L
        BY <1>1, <1>2
      <3> QED
        BY <1>1, <3>1 DEF before
    <2>3. q[i] = after <=> i = k + 1
      <3>1. k # L => k + 1 \in 1 .. L
        BY <1>1, <1>2
      <3> QED
        BY <1>1, <3>1 DEF after
    <2> QED
      BY <1>8, <2>1, <2>2, <2>3
  <1> DEFINE r == [i \in 1 .. L - 1 |-> IF i < k THEN q[i] ELSE q[i + 1]]
  <1>10. /\ L \in Nat /\ L - 1 \in Nat /\ k \in Nat /\ k >= 1 /\ k <= L
         /\ \A i \in 1 .. L - 1 : i \in 1 .. L /\ i + 1 \in 1 .. L
    BY <1>1, <1>2
  <1>11. /\ r \in Seq(Call) /\ Len(r) = L - 1
         /\ \A i \in 1 .. L - 1 : r[i] = IF i < k THEN q[i] ELSE q[i + 1]
    <2>1. \A i \in 1 .. L - 1 : (IF i < k THEN q[i] ELSE q[i + 1]) \in Call
      BY <1>1, <1>10
    <2> QED
      BY <1>10, <2>1
  <1> HIDE DEF r, L
  <1>12. Once(r)
    <2> SUFFICES ASSUME NEW i \in 1 .. L - 1, NEW j \in 1 .. L - 1, r[i] = r[j] PROVE i = j
      BY <1>11 DEF Once
    <2> DEFINE x == IF i < k THEN i ELSE i + 1
               y == IF j < k THEN j ELSE j + 1
    <2>1. x \in 1 .. L /\ y \in 1 .. L /\ r[i] = q[x] /\ r[j] = q[y]
      BY <1>10, <1>11
    <2>2. x = y
      <3> HIDE DEF x, y
      <3> QED
        BY <1>1, <2>1
    <2> QED
      BY <1>10, <2>2
  <1>13. inList' = {r[i] : i \in 1 .. Len(r)}
    <2>1. inList = {q[i] : i \in 1 .. L}
      BY DEF Order, L
    <2>2. ASSUME NEW i \in 1 .. L, i # k PROVE \E j \in 1 .. L - 1 : r[j] = q[i]
      <3>1. CASE i < k
        <4>1. i \in 1 .. L - 1 /\ r[i] = q[i]
          BY <1>10, <1>11, <3>1
        <4> QED
          BY <4>1
      <3>2. CASE i > k
        <4>1. i - 1 \in 1 .. L - 1 /\ ~(i - 1 < k) /\ (i - 1) + 1 = i
          BY <1>10, <3>2
        <4>2. r[i - 1] = q[i]
          BY <1>11, <4>1
        <4> QED
          BY <4>1, <4>2
      <3> QED
        BY <1>10, <2>2, <3>1, <3>2
    <2>3. ASSUME NEW j \in 1 .. L - 1 PROVE r[j] \in inList /\ r[j] # n
      <3> DEFINE x == IF j < k THEN j ELSE j + 1
      <3>1. x \in 1 .. L /\ r[j] = q[x] /\ x # k
        BY <1>10, <1>11
      <3> HIDE DEF x
      <3> QED
        BY <1>1, <1>2, <2>1, <3>1
    <2> QED
      BY <1>2, <1>8, <1>11, <2>1, <2>2, <2>3
  <1>14. /\ head' = IF Len(r) = 0 THEN None ELSE r[1]
         /\ tail' = IF Len(r) = 0 THEN None ELSE r[Len(r)]
    <2>1. CASE L = 1
      <3>1. k = 1
        BY <1>10, <2>1
      <3> QED
        BY <1>4, <1>8, <1>11, <2>1, <3>1 DEF before, after
    <2>2. CASE L > 1
      <3>1. /\ 1 \in 1 .. L - 1 /\ L - 1 \in 1 .. L - 1 /\ (L - 1) + 1 = L /\ Len(r) # 0
            /\ r[1] = (IF 1 < k THEN q[1] ELSE q[2])
            /\ r[L - 1] = (IF L - 1 < k THEN q[L - 1] ELSE q[L])
        BY <1>10, <1>11, <2>2
      <3>2. head' = IF 1 < k THEN q[1] ELSE q[2]
        BY <1>3, <1>4, <1>8, <1>10, <2>2 DEF after
      <3>3. tail' = IF L - 1 < k THEN q[L - 1] ELSE q[L]
        BY <1>3, <1>4, <1>8, <1>10, <2>2 DEF before, L
      <3> QED
        BY <1>11, <3>1, <3>2, <3>3
    <2> QED
      BY <1>10, <2>1, <2>2
  <1>15. \A i \in 1 .. L - 1 : next'[r[i]] = IF i = L - 1 THEN None ELSE r[i + 1]
    <2> SUFFICES ASSUME NEW i \in 1 .. L - 1
                 PROVE  next'[r[i]] = IF i = L - 1 THEN None ELSE r[i + 1]
      OBVIOUS
    <2>0. i # L - 1 => r[i + 1] = (IF i + 1 < k THEN q[i + 1] ELSE q[(i + 1) + 1])
      BY <1>10, <1>11
    <2>1. CASE i + 1 < k
      <3>1. r[i] = q[i] /\ i # L - 1 /\ i # k /\ i # k - 1 /\ i \in 1 .. L /\ i # L
        BY <1>10, <1>11, <2>1
      <3> QED
        BY <1>5, <1>9, <2>0, <2>1, <3>1 DEF L
    <2>2. CASE i + 1 = k
      <3>1. r[i] = q[i] /\ i = k - 1 /\ i # k /\ i \in 1 .. L
        BY <1>10, <1>11, <2>2
      <3>2. next'[r[i]] = after
        BY <1>9, <3>1
      <3>3. i = L - 1 <=> k = L
        BY <1>10, <2>2
      <3>4. (i + 1) + 1 = k + 1 /\ ~(i + 1 < k)
        BY <1>10, <2>2
      <3> QED
        BY <2>0, <3>2, <3>3, <3>4 DEF after
    <2>3. CASE i >= k
      <3>1. r[i] = q[i + 1] /\ i + 1 \in 1 .. L /\ i + 1 # k /\ i + 1 # k - 1
        BY <1>10, <1>11, <2>3
      <3>2. next'[r[i]] = IF i + 1 = L THEN None ELSE q[(i + 1) + 1]
        <4>1. next'[q[i + 1]] = next[q[i + 1]]
          BY <1>9, <3>1 DEF L
        <4>2. next[q[i + 1]] = IF i + 1 = L THEN None ELSE q[(i + 1) + 1]
          BY <1>5, <3>1 DEF L
        <4> QED
          BY <3>1, <4>1, <4>2
      <3>3. (i + 1 = L <=> i = L - 1) /\ ~(i + 1 < k)
        BY <1>10, <2>3
      <3> QED
        BY <2>0, <3>2, <3>3
    <2> QED
      BY <1>10, <2>1, <2>2, <2>3
  <1>16. \A i \in 1 .. L - 1 : prev'[r[i]] = IF i = 1 THEN None ELSE r[i - 1]
    <2> SUFFICES ASSUME NEW i \in 1 .. L - 1
                 PROVE  prev'[r[i]] = IF i = 1 THEN None ELSE r[i - 1]
      OBVIOUS
    <2>0. i # 1 => r[i - 1] = (IF i - 1 < k THEN q[i - 1] ELSE q[i])
      <3> SUFFICES ASSUME i # 1 PROVE r[i - 1] = (IF i - 1 < k THEN q[i - 1] ELSE q[i])
        OBVIOUS
      <3>1. i - 1 \in 1 .. L - 1 /\ (i - 1) + 1 = i
        BY <1>10
      <3> QED
        BY <1>11, <3>1
    <2>1. CASE i < k
      <3>1. r[i] = q[i] /\ i # k /\ i # k + 1 /\ i \in 1 .. L /\ i - 1 < k
        BY <1>10, <1>11, <2>1
      <3> QED
        BY <1>5, <1>9, <2>0, <3>1 DEF L
    <2>2. CASE i = k
      <3>1. r[i] = q[i + 1] /\ i + 1 = k + 1 /\ i + 1 # k /\ i + 1 \in 1 .. L
        BY <1>10, <1>11, <2>2
      <3>2. prev'[r[i]] = before
        BY <1>9, <3>1
      <3>3. i - 1 < k
        BY <1>10, <2>2
      <3> QED
        BY <2>0, <2>2, <3>2, <3>3 DEF before
    <2>3. CASE i > k
      <3>1. /\ r[i] = q[i + 1] /\ i + 1 \in 1 .. L /\ i + 1 # k /\ i + 1 # k + 1 /\ i + 1 # 1
            /\ (i + 1) - 1 = i /\ i # 1 /\ ~(i - 1 < k)
        BY <1>10, <1>11, <2>3
      <3>2. prev'[r[i]] = q[i]
        BY <1>5, <1>9, <3>1 DEF L
      <3> QED
        BY <2>0, <3>1, <3>2
    <2> QED
      BY <1>10, <2>1, <2>2, <2>3
  <1>17. \A c \in Call \ inList' : next'[c] = None /\ prev'[c] = None
    <2> SUFFICES ASSUME NEW c \in Call \ inList' PROVE next'[c] = None /\ prev'[c] = None
      OBVIOUS
    <2>1. CASE c = n
      <3>1. n \in Call
        BY <1>1, <1>2
      <3>2. n # before /\ n # after
        <4>1. (k # 1 => k - 1 \in 1 .. L) /\ (k # L => k + 1 \in 1 .. L)
          BY <1>10
        <4>2. k - 1 # k /\ k + 1 # k
          BY <1>10
        <4> QED
          BY <1>1, <1>2, <4>1, <4>2 DEF before, after
      <3> QED
        BY <1>8, <2>1, <3>1, <3>2
    <2>2. CASE c # n
      <3>1. c \notin inList /\ next[c] = None /\ prev[c] = None
        BY <1>8, <2>2 DEF Order
      <3>2. c # before /\ c # after
        <4>1. before \in inList \union {None} /\ after \in inList \union {None}
          <5>1. (k # 1 => k - 1 \in 1 .. L) /\ (k # L => k + 1 \in 1 .. L)
            BY <1>10
          <5> QED
            BY <5>1 DEF before, after, Order, L
        <4> QED
          BY <3>1, <4>1, SockClientAssumption
      <3> QED
        BY <1>8, <2>2, <3>1, <3>2
    <2> QED
      BY <2>1, <2>2
  <1>18. Order(r)'
    BY <1>11, <1>12, <1>13, <1>14, <1>15, <1>16, <1>17 DEF Order
  <1> QED
    BY <1>6, <1>18

(***************************************************************************)
(* Where the walks lead: Reach follows next, in a function that is defined *)
(* by recursion over the number of steps.                                  *)
(***************************************************************************)
Walk(n, h) ==
    h = [k \in Nat |-> IF k = 0 THEN n ELSE IF h[k - 1] = None THEN None ELSE next[h[k - 1]]]

Follow(q, j) == [k \in Nat |-> IF j + k <= Len(q) THEN q[j + k] ELSE None]

LEMMA LeastExists ==
    ASSUME NEW S \in SUBSET Nat, S # {}
    PROVE  \E m \in S : \A n \in S : ~(n < m)
  <1> DEFINE R == {ss \in Nat \X Nat : ss[1] < ss[2]}
  <1>1. IsWellFoundedOn(R, Nat)
    BY NatLessThanWellFounded DEF OpToRel
  <1>2. \A m, n \in Nat : n < m => <<n, m>> \in R
    OBVIOUS
  <1> HIDE DEF R
  <1>3. PICK m \in S : \A n \in S : <<n, m>> \notin R
    BY <1>1, WFMin
  <1> QED
    BY <1>2, <1>3

\* Two functions that obey the recursion are equal, so the walk is any of them.
LEMMA WalkIs ==
    ASSUME NEW n, NEW h, Walk(n, h)
    PROVE  Reach(n) = {h[k] : k \in 0 .. Cardinality(Call)} \ {None}
  <1> DEFINE w == CHOOSE w : Walk(n, w)
  <1>1. Walk(n, w)
    BY DEF Walk
  <1>2. Reach(n) = {w[k] : k \in 0 .. Cardinality(Call)} \ {None}
    BY DEF Reach, Walk
  <1> HIDE DEF w
  <1>3. \A k \in Nat : w[k] = h[k]
    <2> DEFINE S == {k \in Nat : w[k] # h[k]}
    <2> SUFFICES ASSUME S # {} PROVE FALSE
      OBVIOUS
    <2>1. PICK m \in S : \A k \in S : ~(k < m)
      <3> HIDE DEF S
      <3>1. S \in SUBSET Nat
        BY DEF S
      <3> QED
        BY <3>1, LeastExists
    <2>2. CASE m = 0
      BY <1>1, <2>2 DEF Walk
    <2>3. CASE m # 0
      <3>1. m \in Nat /\ m - 1 \in Nat /\ m - 1 < m
        BY <2>3
      <3>2. w[m - 1] = h[m - 1]
        BY <2>1, <3>1
      <3> QED
        BY <1>1, <2>3, <3>1, <3>2 DEF Walk
    <2> QED
      BY <2>2, <2>3
  <1>4. CASE Cardinality(Call) \in Int
    <2>1. \A k \in 0 .. Cardinality(Call) : k \in Nat
      BY <1>4
    <2> QED
      BY <1>2, <1>3, <2>1
  <1> QED
    BY <1>4, FS_CardinalityType, SockClientAssumption

\* From a node of the list the walk goes along it to the tail.
LEMMA WalkAlong ==
    ASSUME NEW q, Order(q), NEW j \in 1 .. Len(q)
    PROVE  Walk(q[j], Follow(q, j))
  <1> DEFINE h == Follow(q, j)
             L == Len(q)
  <1>1. /\ L \in Nat /\ \A i \in 1 .. L : q[i] \in Call /\ q[i] # None
        /\ \A i \in 1 .. L : next[q[i]] = IF i = L THEN None ELSE q[i + 1]
    BY SockClientAssumption DEF Order
  <1>2. \A k \in Nat : h[k] = IF j + k <= L THEN q[j + k] ELSE None
    BY DEF Follow
  <1>3. h = [k \in Nat |-> h[k]]
    BY DEF Follow
  <1> HIDE DEF h, L
  <1>4. ASSUME NEW k \in Nat
        PROVE  h[k] = IF k = 0 THEN q[j]
                      ELSE IF h[k - 1] = None THEN None ELSE next[h[k - 1]]
    <2>0. j \in 1 .. L /\ j \in Nat /\ j <= L
      BY <1>1 DEF L
    <2>1. CASE k = 0
      BY <1>2, <2>0, <2>1
    <2>2. CASE k # 0
      <3>1. k - 1 \in Nat /\ j + (k - 1) = (j + k) - 1
        BY <2>0, <2>2
      <3>2. h[k - 1] = IF (j + k) - 1 <= L THEN q[(j + k) - 1] ELSE None
        BY <1>2, <3>1
      <3>3. CASE (j + k) - 1 <= L
        <4>1. (j + k) - 1 \in 1 .. L /\ ((j + k) - 1) + 1 = j + k
          BY <1>1, <2>0, <2>2, <3>3
        <4>2. h[k - 1] # None /\ next[h[k - 1]] = IF (j + k) - 1 = L THEN None ELSE q[j + k]
          BY <1>1, <3>2, <3>3, <4>1
        <4>3. (j + k <= L) <=> (j + k) - 1 # L
          BY <1>1, <2>0, <3>3
        <4> QED
          BY <1>2, <2>2, <4>2, <4>3
      <3>4. CASE ~((j + k) - 1 <= L)
        <4>1. ~(j + k <= L)
          BY <1>1, <2>0, <3>4
        <4> QED
          BY <1>2, <2>2, <3>2, <3>4, <4>1
      <3> QED
        BY <3>3, <3>4
    <2> QED
      BY <2>1, <2>2
  <1> QED
    BY <1>3, <1>4 DEF Walk, h

\* No more nodes than calls.
LEMMA OrderLength ==
    ASSUME NEW q, Order(q)
    PROVE  Len(q) <= Cardinality(Call) /\ Cardinality(Call) \in Nat
  <1>1. q \in [1 .. Len(q) -> inList] /\ Len(q) \in Nat
    BY DEF Order
  <1>2. q \in Bijection(1 .. Len(q), inList)
    BY <1>1 DEF Order, Once, Bijection, Injection, IsInjective, Surjection
  <1>3. Cardinality(inList) = Len(q)
    BY <1>1, <1>2, FS_CountingElements DEF ExistsBijection
  <1>4. IsFiniteSet(Call) /\ inList \in SUBSET Call
    BY SockClientAssumption DEF Order
  <1> QED
    BY <1>3, <1>4, FS_Subset, FS_CardinalityType

LEMMA ReachFrom ==
    ASSUME NEW q, Order(q), NEW j \in 1 .. Len(q)
    PROVE  Reach(q[j]) = {q[i] : i \in j .. Len(q)}
  <1>1. Reach(q[j]) = {Follow(q, j)[k] : k \in 0 .. Cardinality(Call)} \ {None}
    BY WalkAlong, WalkIs
  <1>2. Len(q) <= Cardinality(Call) /\ Cardinality(Call) \in Nat /\ Len(q) \in Nat
    BY OrderLength DEF Order
  <1>3. \A i \in 1 .. Len(q) : q[i] # None
    BY SockClientAssumption DEF Order
  <1>4. ASSUME NEW k \in 0 .. Cardinality(Call), Follow(q, j)[k] # None
        PROVE  \E i \in j .. Len(q) : Follow(q, j)[k] = q[i]
    <2>1. j + k <= Len(q) /\ Follow(q, j)[k] = q[j + k]
      BY <1>2, <1>4 DEF Follow
    <2> QED
      BY <1>2, <2>1
  <1>5. ASSUME NEW i \in j .. Len(q)
        PROVE  \E k \in 0 .. Cardinality(Call) : q[i] = Follow(q, j)[k]
    <2>1. i - j \in 0 .. Cardinality(Call) /\ i - j \in Nat /\ j + (i - j) = i /\ i <= Len(q)
      BY <1>2
    <2>2. Follow(q, j)[i - j] = q[i]
      BY <2>1 DEF Follow
    <2> QED
      BY <2>1, <2>2
  <1>6. \A i \in j .. Len(q) : i \in 1 .. Len(q)
    BY <1>2
  <1>7. ASSUME NEW x \in Reach(q[j]) PROVE \E i \in j .. Len(q) : x = q[i]
    BY <1>1, <1>4
  <1>8. ASSUME NEW i \in j .. Len(q) PROVE q[i] \in Reach(q[j])
    BY <1>1, <1>3, <1>5, <1>6
  <1> QED
    BY <1>7, <1>8

LEMMA ReachNone == Reach(None) = {}
  <1> DEFINE h == [k \in Nat |-> None]
  <1>1. Walk(None, h)
    BY DEF Walk
  <1>2. Cardinality(Call) \in Nat
    BY FS_CardinalityType, SockClientAssumption
  <1>3. \A k \in 0 .. Cardinality(Call) : h[k] = None
    BY <1>2
  <1> HIDE DEF h
  <1> QED
    BY <1>1, <1>3, WalkIs

\* From the head the walk meets the nodes of the list.
LEMMA ReachHead == ASSUME NEW q, Order(q) PROVE Reach(head) = inList
  <1>1. Len(q) \in Nat /\ inList = {q[i] : i \in 1 .. Len(q)}
    BY DEF Order
  <1>2. CASE Len(q) = 0
    <2>1. inList = {} /\ head = None
      BY <1>1, <1>2 DEF Order
    <2> QED
      BY <2>1, ReachNone
  <1>3. CASE Len(q) # 0
    <2>1. 1 \in 1 .. Len(q) /\ head = q[1]
      BY <1>1, <1>3 DEF Order
    <2> QED
      BY <1>1, <2>1, ReachFrom
  <1> QED
    BY <1>2, <1>3

(***************************************************************************)
(* The messages in flight: a request is in one place at most.              *)
(***************************************************************************)
In(c, s) == \E i \in 1 .. Len(s) : s[i] = c

InFlight(c) == In(c, sendBuff) \/ In(c, up) \/ In(c, down)

LEMMA InEmpty == ASSUME NEW c PROVE ~In(c, <<>>) /\ Once(<<>>)
  BY DEF In, Once

LEMMA InTail ==
    ASSUME NEW s \in Seq(Call), s # <<>>
    PROVE  /\ \A c : In(c, s) <=> c = Head(s) \/ In(c, Tail(s))
           /\ Once(s) => Once(Tail(s)) /\ ~In(Head(s), Tail(s))
  <1>1. /\ Len(s) \in Nat /\ Len(s) >= 1 /\ Head(s) = s[1] /\ Len(Tail(s)) = Len(s) - 1
        /\ \A i \in 1 .. Len(s) - 1 : Tail(s)[i] = s[i + 1]
    BY HeadTailProperties
  <1>2. /\ \A i \in 1 .. Len(s) - 1 : i + 1 \in 1 .. Len(s) /\ i + 1 # 1
        /\ \A i \in 1 .. Len(s) : i = 1 \/ (i - 1 \in 1 .. Len(s) - 1 /\ (i - 1) + 1 = i)
        /\ 1 \in 1 .. Len(s)
    BY <1>1
  <1>3. ASSUME NEW c PROVE In(c, s) <=> c = Head(s) \/ In(c, Tail(s))
    <2>1. ASSUME In(c, s) PROVE c = Head(s) \/ In(c, Tail(s))
      <3>1. PICK i \in 1 .. Len(s) : s[i] = c
        BY <2>1 DEF In
      <3>2. CASE i # 1
        <4>1. Tail(s)[i - 1] = c /\ i - 1 \in 1 .. Len(Tail(s))
          BY <1>1, <1>2, <3>1, <3>2
        <4> QED
          BY <4>1 DEF In
      <3> QED
        BY <1>1, <3>1, <3>2
    <2>2. ASSUME In(c, Tail(s)) PROVE In(c, s)
      <3>1. PICK i \in 1 .. Len(s) - 1 : Tail(s)[i] = c
        BY <1>1, <2>2 DEF In
      <3>2. s[i + 1] = c /\ i + 1 \in 1 .. Len(s)
        BY <1>1, <1>2, <3>1
      <3> QED
        BY <3>2 DEF In
    <2>3. c = Head(s) => In(c, s)
      BY <1>1, <1>2 DEF In
    <2> QED
      BY <2>1, <2>2, <2>3
  <1>4. ASSUME Once(s) PROVE Once(Tail(s))
    <2> SUFFICES ASSUME NEW i \in 1 .. Len(s) - 1, NEW j \in 1 .. Len(s) - 1,
                        Tail(s)[i] = Tail(s)[j]
                 PROVE  i = j
      BY <1>1 DEF Once
    <2>1. s[i + 1] = s[j + 1] /\ i + 1 \in 1 .. Len(s) /\ j + 1 \in 1 .. Len(s)
      BY <1>1, <1>2
    <2>2. i + 1 = j + 1
      BY <1>4, <2>1 DEF Once
    <2> QED
      BY <1>1, <2>2
  <1>5. ASSUME Once(s), In(Head(s), Tail(s)) PROVE FALSE
    <2>1. PICK i \in 1 .. Len(s) - 1 : Tail(s)[i] = s[1]
      BY <1>1, <1>5 DEF In
    <2>2. s[i + 1] = s[1] /\ i + 1 \in 1 .. Len(s) /\ i + 1 # 1
      BY <1>1, <1>2, <2>1
    <2> QED
      BY <1>2, <1>5, <2>2 DEF Once
  <1> QED
    BY <1>3, <1>4, <1>5

LEMMA InAppend ==
    ASSUME NEW s \in Seq(Call), NEW d \in Call
    PROVE  /\ \A c : In(c, Append(s, d)) <=> c = d \/ In(c, s)
           /\ Once(s) /\ ~In(d, s) => Once(Append(s, d))
  <1> DEFINE r == Append(s, d)
  <1>1. /\ Len(s) \in Nat /\ Len(r) = Len(s) + 1 /\ r[Len(s) + 1] = d
        /\ \A i \in 1 .. Len(s) : r[i] = s[i]
    BY AppendProperties
  <1> HIDE DEF r
  <1>2. /\ \A i \in 1 .. Len(r) : i = Len(s) + 1 \/ i \in 1 .. Len(s)
        /\ \A i \in 1 .. Len(s) : i \in 1 .. Len(r)
        /\ Len(s) + 1 \in 1 .. Len(r)
    BY <1>1
  <1>3. \A c : In(c, r) <=> c = d \/ In(c, s)
    BY <1>1, <1>2 DEF In
  <1>4. Once(s) /\ ~In(d, s) => Once(r)
    BY <1>1, <1>2 DEF In, Once
  <1> QED
    BY <1>3, <1>4 DEF r

(***************************************************************************)
(* The inductive invariant.  Lost are the nodes whose links were reset     *)
(* while they were in the list: the only way it breaks, for ever.          *)
(***************************************************************************)
Listed == {"listed", "waiting", "expired", "walking"}

Lost == {c \in inList : pc[c] = "done"}

CallsGood ==
    \A c \in Call :
        /\ pc[c] \in {"start", "sent"} => c \notin inList
        /\ pc[c] \in Listed => hasReq[c]
        /\ pc[c] \in {"start", "sent", "cleared", "done"} => ~hasReq[c]
        /\ pc[c] = "start" => ~InFlight(c)
        /\ pc[c] \in Listed /\ c \notin inList => ~InFlight(c)

FlightGood ==
    /\ Once(sendBuff) /\ Once(up) /\ Once(down)
    /\ \A c \in Call : /\ In(c, sendBuff) => ~In(c, up) /\ ~In(c, down)
                       /\ In(c, up) => ~In(c, down)

ListGood == ~fault /\ Lost = {} => \E q : Order(q)

ListInv == Inv /\ CallsGood /\ FlightGood /\ ListGood

LEMMA InitList == Init => ListInv
  <1> SUFFICES ASSUME Init PROVE ListInv
    OBVIOUS
  <1>1. CallsGood /\ FlightGood
    BY InEmpty DEF Init, CallsGood, FlightGood, InFlight, Listed
  <1>2. Order(<<>>)
    BY InEmpty DEF Init, Order
  <1> QED
    BY <1>1, <1>2, InitInv DEF ListInv, ListGood

\* Nothing moves but the calls.
LEMMA QuietCalls ==
    ASSUME CallsGood, FlightGood, UNCHANGED <<sendBuff, up, down, inList, hasReq>>,
           \A c \in Call : \/ pc'[c] = pc[c]
                           \/ pc[c] \in Listed /\ pc'[c] \in Listed
                           \/ pc'[c] \in {"woken", "took"}
    PROVE  CallsGood' /\ FlightGood'
  <1>1. FlightGood'
    BY DEF FlightGood, Once, In
  <1>2. \A c \in Call : InFlight(c)' <=> InFlight(c)
    BY DEF InFlight, In
  <1> QED
    BY <1>1, <1>2 DEF CallsGood, Listed

\* The list stays as it is, and no call returns with its node in it.
LEMMA QuietList ==
    ASSUME ListGood, UNCHANGED linkVars, fault => fault',
           \A c \in inList : pc[c] = "done" => pc'[c] = "done"
    PROVE  ListGood'
  <1>1. Lost' = {} => Lost = {}
    BY DEF Lost, linkVars
  <1>2. ASSUME NEW q, Order(q) PROVE Order(q)'
    BY <1>2 DEF Order, Once, linkVars
  <1> QED
    BY <1>1, <1>2 DEF ListGood

\* A node leaves the list, whether its call has given up or is answered.
LEMMA MoveList ==
    ASSUME TypeOK, ListGood, NEW n \in Call, MoveFromList(n), pc[n] # "done",
           \A c \in inList : pc[c] = "done" => pc'[c] = "done"
    PROVE  ListGood' /\ inList \ {n} \subseteq inList' /\ inList' \subseteq inList
  <1>1. inList \ {n} \subseteq inList' /\ inList' \subseteq inList
    BY DEF MoveFromList, linkVars
  <1> SUFFICES ASSUME ~fault', Lost' = {} PROVE \E q : Order(q)'
    BY <1>1 DEF ListGood
  <1>2. ~HitsNull(n) /\ fault' = fault
    BY DEF MoveFromList
  <1>3. Lost = {}
    BY <1>1 DEF Lost
  <1>4. PICK q : Order(q)
    BY <1>2, <1>3 DEF ListGood
  <1>5. n \in inList
    <2> SUFFICES ASSUME n \notin inList PROVE FALSE
      OBVIOUS
    <2>1. next[n] = None /\ prev[n] = None
      BY <1>4 DEF Order
    <2>2. n # head
      <3>1. head = None \/ head \in inList
        <4>1. Len(q) \in Nat
          BY <1>4 DEF Order
        <4>2. Len(q) # 0 => 1 \in 1 .. Len(q)
          BY <4>1
        <4> QED
          BY <1>4, <4>2 DEF Order
      <3> QED
        BY <3>1, SockClientAssumption
    <2> QED
      BY <1>2, <2>1, <2>2 DEF HitsNull
  <1> QED
    BY <1>4, <1>5, RemoveOrder

LEMMA CallStepList ==
    ASSUME ListInv, NEW c \in Call, CallStep(c)
    PROVE  CallsGood' /\ FlightGood' /\ ListGood'
  <1> USE DEF linkVars, nodeVars, netVars, sockVars
  <1>0. /\ TypeOK /\ CallsGood /\ FlightGood /\ ListGood
        /\ pc \in [Call -> CallPc] /\ hasReq \in [Call -> BOOLEAN] /\ sendBuff \in Seq(Call)
        /\ inList \in SUBSET Call
    BY DEF ListInv, Inv, TypeOK
  <1>1. CASE SendClone(c)
    <2>1. /\ UNCHANGED <<up, down, linkVars, nodeVars, fault>> /\ pc[c] = "start"
          /\ \A d \in Call \ {c} : pc'[d] = pc[d]
      BY <1>0, <1>1 DEF SendClone
    <2>2. c \notin inList /\ ~InFlight(c)
      BY <1>0, <2>1 DEF CallsGood
    <2>3. ListGood'
      BY <1>0, <2>1, <2>2, QuietList
    <2>4. CASE pc'[c] = "done" /\ UNCHANGED sendBuff
      <3>1. \A d \in Call : InFlight(d)' <=> InFlight(d)
        BY <2>1, <2>4 DEF InFlight, In
      <3>2. FlightGood'
        BY <1>0, <2>1, <2>4 DEF FlightGood, In, Once
      <3>3. CallsGood'
        BY <1>0, <2>1, <2>4, <3>1 DEF CallsGood, Listed
      <3> QED
        BY <2>3, <3>2, <3>3
    <2>5. CASE /\ pc'[c] = "sent"
               /\ sendBuff' = Append(IF Len(sendBuff) = SendCapacity
                                     THEN Tail(sendBuff) ELSE sendBuff, c)
      <3> DEFINE kept == IF Len(sendBuff) = SendCapacity THEN Tail(sendBuff) ELSE sendBuff
      <3>1. /\ kept \in Seq(Call) /\ Once(kept) /\ \A d : In(d, kept) => In(d, sendBuff)
        <4>1. CASE Len(sendBuff) = SendCapacity
          <5>1. sendBuff # <<>>
            BY <4>1, SockClientAssumption
          <5> QED
            BY <1>0, <4>1, <5>1, InTail, HeadTailProperties DEF FlightGood
        <4> QED
          BY <1>0, <4>1 DEF FlightGood
      <3> HIDE DEF kept
      <3>2. ~In(c, kept) /\ ~In(c, up) /\ ~In(c, down)
        BY <2>2, <3>1 DEF InFlight
      <3>3. /\ Once(sendBuff') /\ \A d : In(d, sendBuff') <=> d = c \/ In(d, kept)
        BY <2>5, <3>1, <3>2, InAppend DEF kept
      <3>4. FlightGood'
        BY <1>0, <2>1, <3>1, <3>2, <3>3 DEF FlightGood
      <3>5. \A d \in Call \ {c} : InFlight(d)' => InFlight(d)
        BY <2>1, <3>1, <3>3 DEF InFlight
      <3>6. CallsGood'
        BY <1>0, <2>1, <2>2, <2>5, <3>5 DEF CallsGood, Listed
      <3> QED
        BY <2>3, <3>4, <3>6
    <2> QED
      BY <1>0, <1>1, <2>4, <2>5 DEF SendClone
  <1>2. CASE Enlist(c) /\ JoinList(c)
    <2>1. /\ UNCHANGED <<sendBuff, up, down, fault>> /\ pc[c] = "sent" /\ pc'[c] = "listed"
          /\ \A d \in Call \ {c} : pc'[d] = pc[d] /\ hasReq'[d] = hasReq[d]
          /\ hasReq'[c] = TRUE /\ inList' = inList \union {c} /\ AddToWaitingListTail(c)
      BY <1>0, <1>2 DEF Enlist, JoinList
    <2>2. c \notin inList
      BY <1>0, <2>1 DEF CallsGood
    <2>3. \A d \in Call : InFlight(d)' <=> InFlight(d)
      BY <2>1 DEF InFlight, In
    <2>4. FlightGood'
      BY <1>0, <2>1 DEF FlightGood, In, Once
    <2>5. CallsGood'
      BY <1>0, <2>1, <2>3 DEF CallsGood, Listed
    <2>6. Lost' = Lost
      BY <1>0, <2>1, <2>2 DEF Lost
    <2>7. \A q : Order(q) => \E r : Order(r)'
      BY <1>0, <2>1, <2>2, AppendOrder
    <2> QED
      BY <1>0, <2>1, <2>4, <2>5, <2>6, <2>7 DEF ListGood
  <1>8. CASE Enlist(c) /\ ReleaseTwice(c)
    <2>1. /\ UNCHANGED <<sendBuff, up, down, linkVars, hasReq>> /\ pc[c] = "sent" /\ pc'[c] = "done"
          /\ \A d \in Call \ {c} : pc'[d] = pc[d]
      BY <1>0, <1>8 DEF Enlist, ReleaseTwice
    <2>2. c \notin inList
      BY <1>0, <2>1 DEF CallsGood
    <2>3. \A d \in Call : InFlight(d)' <=> InFlight(d)
      BY <2>1 DEF InFlight, In
    <2>4. FlightGood'
      BY <1>0, <2>1 DEF FlightGood, In, Once
    <2>5. CallsGood'
      BY <1>0, <2>1, <2>2, <2>3 DEF CallsGood, Listed
    <2>6. fault => fault'
      BY <1>8 DEF ReleaseTwice
    <2>7. ListGood'
      BY <1>0, <2>1, <2>2, <2>6, QuietList
    <2> QED
      BY <2>4, <2>5, <2>7
  <1>3. CASE StartWaiting(c) \/ WakeUpForNoReason(c) \/ TimeOut(c) \/ ReadHead(c) \/ TakeAnswer(c)
    <2>1. /\ UNCHANGED <<sendBuff, up, down, linkVars, hasReq, fault>>
          /\ pc[c] \in Listed \union {"woken"}
          /\ \/ pc[c] \in Listed /\ pc'[c] \in Listed
             \/ pc'[c] \in {"woken", "took"}
          /\ \A d \in Call \ {c} : pc'[d] = pc[d]
      BY <1>0, <1>3 DEF StartWaiting, WakeUpForNoReason, TimeOut, ReadHead, TakeAnswer, Listed
    <2>2. CallsGood' /\ FlightGood'
      BY <1>0, <2>1, QuietCalls
    <2>3. \A d \in inList : pc[d] = "done" => pc'[d] = "done"
      BY <1>0, <2>1 DEF Listed
    <2> QED
      BY <1>0, <2>1, <2>2, <2>3, QuietList
  <1>4. CASE MoveOutWaitingMsg(c)
    <2>1. /\ UNCHANGED <<sendBuff, up, down, hasReq>> /\ pc[c] = "walking" /\ pc'[c] = "woken"
          /\ \A d \in Call \ {c} : pc'[d] = pc[d]
          /\ MoveFromList(c) \/ UNCHANGED <<linkVars, fault>>
      BY <1>0, <1>4 DEF MoveOutWaitingMsg
    <2>2. \A d \in inList : pc[d] = "done" => pc'[d] = "done"
      BY <1>0, <2>1
    <2>3. ListGood' /\ inList \ {c} \subseteq inList' /\ inList' \subseteq inList
      <3>1. CASE MoveFromList(c)
        BY <1>0, <2>1, <2>2, <3>1, MoveList
      <3>2. CASE UNCHANGED <<linkVars, fault>>
        BY <1>0, <2>2, <3>2, QuietList
      <3> QED
        BY <2>1, <3>1, <3>2
    <2>4. \A d \in Call : InFlight(d)' <=> InFlight(d)
      BY <2>1 DEF InFlight, In
    <2>5. FlightGood'
      BY <1>0, <2>1 DEF FlightGood, In, Once
    <2>6. CallsGood'
      BY <1>0, <2>1, <2>3, <2>4 DEF CallsGood, Listed
    <2> QED
      BY <2>3, <2>5, <2>6
  <1>5. CASE ClearNode(c)
    <2>1. /\ UNCHANGED <<sendBuff, up, down, linkVars, fault>> /\ pc[c] = "took" /\ pc'[c] = "cleared"
          /\ \A d \in Call \ {c} : pc'[d] = pc[d] /\ hasReq'[d] = hasReq[d]
          /\ hasReq'[c] = FALSE
      BY <1>0, <1>5 DEF ClearNode
    <2>2. \A d \in Call : InFlight(d)' <=> InFlight(d)
      BY <2>1 DEF InFlight, In
    <2>3. FlightGood'
      BY <1>0, <2>1 DEF FlightGood, In, Once
    <2>4. CallsGood'
      BY <1>0, <2>1, <2>2 DEF CallsGood, Listed
    <2>5. \A d \in inList : pc[d] = "done" => pc'[d] = "done"
      BY <1>0, <2>1
    <2> QED
      BY <1>0, <2>1, <2>3, <2>4, <2>5, QuietList
  <1>6. CASE ReleaseNode(c)
    <2>1. /\ UNCHANGED <<sendBuff, up, down, head, tail, inList, hasReq, fault>>
          /\ pc[c] = "cleared" /\ pc'[c] = "done"
          /\ next' = [next EXCEPT ![c] = None] /\ prev' = [prev EXCEPT ![c] = None]
          /\ \A d \in Call \ {c} : pc'[d] = pc[d]
      BY <1>0, <1>6 DEF ReleaseNode
    <2>2. \A d \in Call : InFlight(d)' <=> InFlight(d)
      BY <2>1 DEF InFlight, In
    <2>3. FlightGood'
      BY <1>0, <2>1 DEF FlightGood, In, Once
    <2>4. CallsGood'
      BY <1>0, <2>1, <2>2 DEF CallsGood, Listed
    <2>5. ASSUME ~fault', Lost' = {} PROVE \E q : Order(q)'
      <3>1. c \notin inList
        BY <2>1, <2>5 DEF Lost
      <3>2. Lost = {}
        BY <1>0, <2>1, <2>5 DEF Lost
      <3>3. PICK q : Order(q)
        BY <1>0, <2>1, <2>5, <3>2 DEF ListGood
      <3>4. next[c] = None /\ prev[c] = None
        BY <3>1, <3>3 DEF Order
      <3>5. next' = next /\ prev' = prev
        BY <1>0, <2>1, <3>4 DEF TypeOK
      <3>6. Order(q)'
        BY <2>1, <3>3, <3>5 DEF Order, Once
      <3> QED
        BY <3>6
    <2> QED
      BY <2>3, <2>4, <2>5 DEF ListGood
  <1> QED
    BY <1>1, <1>2, <1>3, <1>4, <1>5, <1>6, <1>8 DEF CallStep, Proceed, Enlist

LEMMA SockStepList ==
    ASSUME ListInv, SockStep
    PROVE  CallsGood' /\ FlightGood' /\ ListGood'
  <1> USE DEF linkVars, nodeVars, netVars, sockVars, callVars
  <1>0. /\ TypeOK /\ CallsGood /\ FlightGood /\ ListGood
        /\ pc \in [Call -> CallPc] /\ hasReq \in [Call -> BOOLEAN] /\ inList \in SUBSET Call
        /\ sendBuff \in Seq(Call) /\ up \in Seq(Call) /\ down \in Seq(Call)
    BY DEF ListInv, Inv, TypeOK
  <1>1. CASE SendMsgToSocket
    <2> DEFINE m == Head(sendBuff)
    <2>1. /\ UNCHANGED <<pc, hasReq, linkVars, down>> /\ sendBuff # <<>>
          /\ sendBuff' = Tail(sendBuff) /\ (up' = Append(up, m) \/ up' = up)
      BY <1>1 DEF SendMsgToSocket
    <2>2. m \in Call
      BY <1>0, <2>1, HeadTailProperties
    <2>3. /\ \A d : In(d, sendBuff) <=> d = m \/ In(d, sendBuff')
          /\ Once(sendBuff') /\ ~In(m, sendBuff')
      BY <1>0, <2>1, InTail DEF FlightGood
    <2> HIDE DEF m
    <2>4. ~In(m, up) /\ ~In(m, down)
      BY <1>0, <2>2, <2>3 DEF FlightGood
    <2>5. Once(up') /\ \A d : In(d, up') => d = m \/ In(d, up)
      <3>1. Once(Append(up, m)) /\ \A d : In(d, Append(up, m)) => d = m \/ In(d, up)
        BY <1>0, <2>2, <2>4, InAppend DEF FlightGood
      <3> QED
        BY <1>0, <2>1, <3>1 DEF FlightGood
    <2>6. FlightGood'
      BY <1>0, <2>1, <2>3, <2>4, <2>5 DEF FlightGood
    <2>7. \A d : InFlight(d)' => InFlight(d)
      BY <2>1, <2>3, <2>5 DEF InFlight
    <2>8. CallsGood'
      BY <1>0, <2>1, <2>7 DEF CallsGood
    <2>9. ListGood'
      <3>1. fault => fault'
        BY <1>1 DEF SendMsgToSocket
      <3>2. ASSUME NEW q, Order(q) PROVE Order(q)'
        BY <2>1, <3>2 DEF Order, Once
      <3>3. Lost' = Lost
        BY <2>1 DEF Lost
      <3> QED
        BY <1>0, <3>1, <3>2, <3>3 DEF ListGood
    <2> QED
      BY <2>6, <2>8, <2>9
  <1>2. CASE RecvMsgFromSocket
    <2>0. PICK m : m = Head(down)
      OBVIOUS
    <2>1. /\ UNCHANGED <<pc, hasReq, sendBuff, up>> /\ down # <<>> /\ down' = Tail(down)
          /\ FindAndMoveWaitingMsg(m)
      BY <1>2, <2>0 DEF RecvMsgFromSocket
    <2>2. m \in Call
      BY <1>0, <2>0, <2>1, HeadTailProperties
    <2>3. /\ \A d : In(d, down) <=> d = m \/ In(d, down')
          /\ Once(down') /\ ~In(m, down')
      BY <1>0, <2>0, <2>1, InTail DEF FlightGood
    <2>4. ~In(m, up) /\ ~In(m, sendBuff)
      BY <1>0, <2>2, <2>3 DEF FlightGood
    <2>5. FlightGood'
      BY <1>0, <2>1, <2>3 DEF FlightGood
    <2>6. /\ \A d : InFlight(d)' => InFlight(d)
          /\ ~InFlight(m)'
      BY <2>1, <2>3, <2>4 DEF InFlight
    <2>7. CASE UNCHANGED <<linkVars, fault>>
      <3>1. CallsGood'
        BY <1>0, <2>1, <2>6, <2>7 DEF CallsGood
      <3> QED
        BY <1>0, <2>1, <2>5, <2>7, <3>1, QuietList
    <2>8. CASE \E n \in Matches(m) : MoveFromList(n)
      <3>1. MoveFromList(m) /\ hasReq[m]
        BY <2>8 DEF Matches
      <3>2. pc[m] # "done"
        BY <1>0, <2>2, <3>1 DEF CallsGood
      <3>3. ListGood' /\ inList \ {m} \subseteq inList' /\ inList' \subseteq inList
        BY <1>0, <2>1, <2>2, <3>1, <3>2, MoveList
      <3>4. CallsGood'
        BY <1>0, <2>1, <2>6, <3>3 DEF CallsGood
      <3> QED
        BY <2>5, <3>3, <3>4
    <2> QED
      BY <2>1, <2>7, <2>8 DEF FindAndMoveWaitingMsg
  <1>3. CASE DeliverAnswer \/ SignalCall \/ NoticeClosed \/ Reconnect
    <2>1. /\ UNCHANGED <<sendBuff, up, down, linkVars, hasReq, fault>>
          /\ \A c \in Call : pc'[c] = pc[c] \/ (pc[c] = "waiting" /\ pc'[c] = "woken")
      BY <1>0, <1>3 DEF DeliverAnswer, SignalCall, NoticeClosed, Reconnect
    <2>2. CallsGood' /\ FlightGood'
      BY <1>0, <2>1, QuietCalls
    <2>3. \A d \in inList : pc[d] = "done" => pc'[d] = "done"
      BY <1>0, <2>1
    <2> QED
      BY <1>0, <2>1, <2>2, <2>3, QuietList
  <1> QED
    BY <1>1, <1>2, <1>3 DEF SockStep

LEMMA DaemonList ==
    ASSUME ListInv, Answer \/ Close
    PROVE  CallsGood' /\ FlightGood' /\ ListGood'
  <1> USE DEF linkVars, nodeVars, netVars, sockVars, callVars
  <1>0. /\ CallsGood /\ FlightGood /\ ListGood /\ up \in Seq(Call) /\ down \in Seq(Call)
    BY DEF ListInv, Inv, TypeOK
  <1>1. UNCHANGED <<pc, hasReq, linkVars, sendBuff, fault>>
    BY DEF Answer, Close
  <1>2. ListGood'
    BY <1>0, <1>1, QuietList
  <1>3. /\ Once(up') /\ Once(down')
        /\ \A d : In(d, up') => In(d, up)
        /\ \A d : In(d, down') => In(d, down) \/ (In(d, up) /\ ~In(d, up'))
    <2>1. CASE Answer
      <3> DEFINE m == Head(up)
      <3>1. up # <<>> /\ up' = Tail(up) /\ down' \in {down, Append(down, m)}
        BY <2>1 DEF Answer
      <3>2. m \in Call
        BY <1>0, <3>1, HeadTailProperties
      <3>3. /\ \A d : In(d, up) <=> d = m \/ In(d, up')
            /\ Once(up') /\ ~In(m, up')
        BY <1>0, <3>1, InTail DEF FlightGood
      <3> HIDE DEF m
      <3>4. ~In(m, down)
        BY <1>0, <3>2, <3>3 DEF FlightGood
      <3>5. Once(down') /\ \A d : In(d, down') => d = m \/ In(d, down)
        <4>1. Once(Append(down, m)) /\ \A d : In(d, Append(down, m)) => d = m \/ In(d, down)
          BY <1>0, <3>2, <3>4, InAppend DEF FlightGood
        <4> QED
          BY <1>0, <3>1, <4>1 DEF FlightGood
      <3> QED
        BY <3>3, <3>5
    <2>2. CASE Close
      <3>1. up' = <<>> /\ (down' = down \/ down' = <<>>)
        BY <2>2 DEF Close
      <3> QED
        BY <1>0, <3>1, InEmpty DEF FlightGood
    <2> QED
      BY <2>1, <2>2
  <1>4. FlightGood'
    BY <1>0, <1>1, <1>3 DEF FlightGood
  <1>5. \A d : InFlight(d)' => InFlight(d)
    BY <1>1, <1>3 DEF InFlight
  <1>6. CallsGood'
    BY <1>0, <1>1, <1>5 DEF CallsGood
  <1> QED
    BY <1>2, <1>4, <1>6

LEMMA NextList == ListInv /\ [Next]_vars => ListInv'
  <1> SUFFICES ASSUME ListInv, [Next]_vars PROVE CallsGood' /\ FlightGood' /\ ListGood'
    BY NextInv DEF ListInv
  <1>1. CASE UNCHANGED vars
    <2>1. UNCHANGED <<sendBuff, up, down, linkVars, hasReq, fault, pc>>
      BY <1>1 DEF vars, callVars, nodeVars, netVars
    <2>2. UNCHANGED <<sendBuff, up, down, inList, hasReq, pc>>
      BY <2>1 DEF linkVars
    <2> QED
      BY <2>1, <2>2, QuietCalls, QuietList DEF ListInv
  <1> QED
    BY <1>1, CallStepList, SockStepList, DaemonList DEF Next

LEMMA ListInvariance == Spec => []ListInv
  BY InitList, NextList, PTL DEF Spec

LEMMA LostWasLeft == Lost \subseteq LeftBehind
  BY DEF Lost, LeftBehind

LEMMA ListInvImplies == ListInv => ListIsWhole
  <1> SUFFICES ASSUME ListInv, LeftBehind = {}, ~fault
               PROVE  /\ Reach(head) = inList
                      /\ head = None <=> inList = {}
                      /\ \A n \in inList : /\ next[n] = None <=> n = tail
                                           /\ prev[n] = None <=> n = head
                                           /\ next[n] # None => prev[next[n]] = n
    BY DEF ListIsWhole
  <1>1. PICK q : Order(q)
    BY LostWasLeft DEF ListInv, ListGood
  <1> DEFINE L == Len(q)
  <1>2. /\ L \in Nat /\ (\A i \in 1 .. L : q[i] # None) /\ inList = {q[i] : i \in 1 .. L}
        /\ \A i, j \in 1 .. L : q[i] = q[j] => i = j
    BY <1>1, SockClientAssumption DEF Order, Once
  <1>3. /\ \A i \in 1 .. L : next[q[i]] = IF i = L THEN None ELSE q[i + 1]
        /\ \A i \in 1 .. L : prev[q[i]] = IF i = 1 THEN None ELSE q[i - 1]
    BY <1>1 DEF Order
  <1>4. head = (IF L = 0 THEN None ELSE q[1]) /\ tail = (IF L = 0 THEN None ELSE q[L])
    BY <1>1 DEF Order
  <1> HIDE DEF L
  <1>5. head = None <=> inList = {}
    <2>1. L # 0 => 1 \in 1 .. L
      BY <1>2
    <2>2. L = 0 => 1 .. L = {}
      BY <1>2
    <2> QED
      BY <1>2, <1>4, <2>1, <2>2
  <1>6. ASSUME NEW n \in inList
        PROVE  /\ next[n] = None <=> n = tail
               /\ prev[n] = None <=> n = head
               /\ next[n] # None => prev[next[n]] = n
    <2>1. PICK i \in 1 .. L : n = q[i]
      BY <1>2
    <2>2. /\ L # 0 /\ 1 \in 1 .. L /\ L \in 1 .. L
          /\ i # L => i + 1 \in 1 .. L /\ (i + 1) - 1 = i /\ i + 1 # 1
          /\ i # 1 => i - 1 \in 1 .. L
      BY <1>2, <2>1
    <2>3. head = q[1] /\ tail = q[L]
      BY <1>4, <2>2
    <2>4. next[n] = None <=> n = tail
      BY <1>2, <1>3, <2>1, <2>2, <2>3
    <2>5. prev[n] = None <=> n = head
      BY <1>2, <1>3, <2>1, <2>2, <2>3
    <2>6. next[n] # None => prev[next[n]] = n
      BY <1>2, <1>3, <2>1, <2>2
    <2> QED
      BY <2>4, <2>5, <2>6
  <1> QED
    BY <1>1, <1>5, <1>6, ReachHead

\* While no call returned with its node in the list, the list is whole (MoveFromList,
\* AddToWaitingListTail, MoveOutWaitingMsg, pwrbuffer.c): for any number of calls that join,
\* are answered and give up in any order, next leads from the head through exactly the nodes
\* that joined and were not moved out.
THEOREM ListCorrect == Spec => []ListIsWhole
  BY ListInvariance, ListInvImplies, PTL

LEMMA StepDrops ==
    ASSUME ListInv, RecvMsgFromSocket, found' = None, LeftBehind = {}, ~fault'
    PROVE  pc[Head(down)] \in {"sent", "woken", "took", "cleared", "done"}
  <1> DEFINE m == Head(down)
  <1>1. down # <<>> /\ down \in Seq(Call) /\ pc \in [Call -> CallPc]
    BY DEF ListInv, Inv, TypeOK, RecvMsgFromSocket
  <1>2. m \in Call /\ InFlight(m)
    BY <1>1, InTail, HeadTailProperties DEF InFlight
  <1>3. Matches(m) = {} /\ UNCHANGED fault
    <2>1. ~\E n \in Matches(m) : found' = n
      BY <1>2, SockClientAssumption DEF Matches
    <2> QED
      BY <2>1 DEF RecvMsgFromSocket, FindAndMoveWaitingMsg
  <1> HIDE DEF m
  <1>4. PICK q : Order(q)
    BY <1>3, LostWasLeft DEF ListInv, ListGood
  <1>5. m \notin inList \/ ~hasReq[m]
    BY <1>3, <1>4, ReachHead DEF Matches
  <1>6. pc[m] # "start" /\ pc[m] \notin Listed
    BY <1>2, <1>5 DEF ListInv, CallsGood
  <1> QED
    BY <1>1, <1>2, <1>6 DEF CallPc, Listed, m

\* An answer is dropped only if its call has not joined the list yet, or has given up, or if
\* nodes were left behind (ProcessRspMsg, sockclient.c): however requests, answers and calls
\* overtake each other.
THEOREM DropsCorrect == Spec => DroppedOnlyEarlyOrLate
  <1>1. ListInv /\ [Next]_vars =>
           [(RecvMsgFromSocket /\ found' = None /\ LeftBehind = {} /\ ~fault')
              => pc[Head(down)] \in {"sent", "woken", "took", "cleared", "done"}]_vars
    BY StepDrops
  <1> QED
    BY <1>1, ListInvariance, PTL DEF Spec, DroppedOnlyEarlyOrLate
=============================================================================
