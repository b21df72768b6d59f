---------------------------- MODULE LibraryProofs ----------------------------
(***************************************************************************)
(* Proofs about the life of the client library of module Library, for any  *)
(* number of app threads, socket threads and descriptors.                  *)
(***************************************************************************)
EXTENDS Library, WellFoundedInduction, TLAPS

(***************************************************************************)
(* The least element of a set of naturals.                                 *)
(***************************************************************************)
LEMMA MinExists ==
    ASSUME NEW S, S \subseteq Nat, S # {}
    PROVE  Min(S) \in S /\ \A y \in S : Min(S) <= y
  <1> DEFINE R == {ss \in Nat \X Nat : ss[1] < ss[2]}
  <1>1. IsWellFoundedOn(R, Nat)
    BY NatLessThanWellFounded DEF OpToRel
  <1> HIDE DEF R
  <1>2. PICK x \in S : \A y \in S : <<y, x>> \notin R
    BY <1>1, WFMin
  <1>3. \A y \in S : x <= y
    <2>1. \A a, b \in Nat : a < b => <<a, b>> \in R
      BY DEF R
    <2>2. ASSUME NEW y \in S, y < x PROVE FALSE
      <3>1. <<y, x>> \in R
        BY <2>1, <2>2
      <3> QED
        BY <1>2, <3>1
    <2> QED
      BY <2>2
  <1> QED
    BY <1>3 DEF Min

LEMMA NewConnectionTypes ==
    ASSUME TypeOK, CreateConnection
    PROVE  /\ fd' \in Fd /\ fd' \notin open /\ peer' = TRUE
           /\ open' = open \union {fd'} /\ open' \subseteq Fd
           /\ where' \in [App -> {"nowhere", "buffered", "sent"}]
  <1>1. Fd \ open \subseteq Nat /\ Fd \ open # {}
    BY LibraryAssumption DEF CreateConnection, Fd
  <1>2. Min(Fd \ open) \in Fd \ open
    BY <1>1, MinExists
  <1>3. fd' \in Fd \ open
    BY <1>2 DEF CreateConnection
  <1>4. peer' = TRUE /\ open' = open \union {fd'}
    BY DEF CreateConnection
  <1>5. open' \subseteq Fd
    BY <1>3, <1>4 DEF TypeOK
  <1>6. where' \in [App -> {"nowhere", "buffered", "sent"}]
    BY DEF CreateConnection, Forget, TypeOK
  <1> QED
    BY <1>3, <1>4, <1>5, <1>6

LEMMA InitTypes == Init => TypeOK
  <1> SUFFICES ASSUME Init PROVE TypeOK
    OBVIOUS
  <1>1. /\ pc \in [App -> {"out", "connect", "create", "mark", "stop", "join", "close", "reset",
                         "unmark", "send", "enlist", "wait", "return", "grant"}]
        /\ goal \in [App -> {"register", "unregister", "call", "auth"}]
        /\ joining \in [App -> Sock \union {None}]
        /\ sock \in [Sock -> {"none", "loop", "connecting", "io", "sending", "receiving", "writing"}]
        /\ where \in [App -> {"nowhere", "buffered", "sent"}]
        /\ req \in [App -> {"none", "live", "freed"}]
    BY DEF Init
  <1>2. answered \in [App -> BOOLEAN]
    BY DEF Init
  <1>3. peer \in BOOLEAN /\ keepRunning \in BOOLEAN /\ doubled \in BOOLEAN /\ overlapped \in BOOLEAN
        /\ unlisted \in BOOLEAN
    BY DEF Init
  <1> QED
    BY <1>1, <1>2, <1>3 DEF Init, TypeOK

LEMMA AppTypes ==
    ASSUME TypeOK, NEW a \in App, AppStep(a)
    PROVE  TypeOK'
  <1> USE DEF GoTo, Leave, history, callVars, threadInfo, sockets, Forget
  <1>1. CASE Connect(a)
    <2>1. CASE CreateConnection /\ GoTo(a, "create")
      BY <1>1, <2>1, NewConnectionTypes DEF Connect, TypeOK
    <2>2. CASE GoTo(a, "stop") /\ UNCHANGED <<sockets, where>>
      BY <1>1, <2>2 DEF Connect, TypeOK
    <2> QED
      BY <1>1, <2>1, <2>2 DEF Connect
  <1>2. CASE CreateThread(a)
    <2>1. CASE GoTo(a, "stop") /\ UNCHANGED <<sock, thread>>
      BY <1>2, <2>1 DEF CreateThread, TypeOK
    <2>2. ASSUME NEW s \in Sock, sock' = [sock EXCEPT ![s] = "loop"], thread' = s, GoTo(a, "mark")
          PROVE  TypeOK'
      <3>1. sock' \in [Sock -> {"none", "loop", "connecting", "io", "sending", "receiving", "writing"}]
        BY <2>2 DEF TypeOK
      <3> QED
        BY <1>2, <2>2, <3>1 DEF CreateThread, TypeOK
    <2> QED
      BY <1>2, <2>1, <2>2 DEF CreateThread
  <1>3. CASE MarkRegistered(a)
    BY <1>3 DEF MarkRegistered, TypeOK
  <1>4. CASE StopThread(a)
    BY <1>4 DEF StopThread, TypeOK
  <1>5. CASE Join(a)
    BY <1>5 DEF Join, TypeOK
  <1>6. CASE CloseSocket(a)
    BY <1>6 DEF CloseSocket, TypeOK
  <1>7. CASE ResetBuffers(a)
    BY <1>7 DEF ResetBuffers, TypeOK
  <1>8. CASE MarkUnregistered(a)
    BY <1>8 DEF MarkUnregistered, TypeOK
  <1>9. CASE SendClone(a)
    <2>1. CASE GoTo(a, "return") /\ UNCHANGED where
      BY <1>9, <2>1 DEF SendClone, TypeOK
    <2>2. CASE GoTo(a, "enlist") /\ where' = [where EXCEPT ![a] = "buffered"]
      BY <1>9, <2>2 DEF SendClone, TypeOK
    <2> QED
      BY <1>9, <2>1, <2>2 DEF SendClone
  <1>10. CASE Enlist(a)
    <2>1. CASE waiting' = waiting \union {a} /\ GoTo(a, "wait") /\ UNCHANGED <<req, unlisted>>
      BY <1>10, <2>1 DEF Enlist, TypeOK
    <2>2. CASE /\ req' = [req EXCEPT ![a] = "freed"] /\ unlisted' = TRUE
               /\ GoTo(a, "return") /\ UNCHANGED waiting
      BY <1>10, <2>2 DEF Enlist, TypeOK
    <2> QED
      BY <1>10, <2>1, <2>2 DEF Enlist
  <1>11. CASE EndWait(a)
    BY <1>11 DEF EndWait, TypeOK
  <1>12. CASE Return(a)
    BY <1>12 DEF Return, TypeOK
  <1>13. CASE Grant(a)
    BY <1>13 DEF Grant, TypeOK
  <1> QED
    BY <1>1, <1>2, <1>3, <1>4, <1>5, <1>6, <1>7, <1>8, <1>9, <1>10, <1>11, <1>12, <1>13 DEF AppStep

LEMMA NobodyTypes ==
    ASSUME TypeOK, NEW s \in Sock, WriteToNobody(s)
    PROVE  /\ sock' \in [Sock -> {"none", "loop", "connecting", "io", "sending", "receiving", "writing"}]
           /\ fault' \in {"none", "freed twice", "SIGPIPE", "freed garbage"}
  BY DEF TypeOK, WriteToNobody, MoveTo

LEMMA SockTypes ==
    ASSUME TypeOK, NEW s \in Sock, SockStep(s)
    PROVE  TypeOK'
  <1> USE DEF MoveTo, history, callVars, threadInfo, sockets, Forget
  <1>1. CASE Loop(s)
    BY <1>1 DEF Loop, TypeOK
  <1>2. CASE Reconnect(s)
    <2>1. CASE CreateConnection
      BY <1>2, <2>1, NewConnectionTypes DEF Reconnect, TypeOK
    <2>2. CASE UNCHANGED <<sockets, where>>
      BY <1>2, <2>2 DEF Reconnect, TypeOK
    <2> QED
      BY <1>2, <2>1, <2>2 DEF Reconnect
  <1>3. CASE SendMsgToSocket(s)
    <2>1. /\ sock' \in [Sock -> {"none", "loop", "connecting", "io", "sending", "receiving", "writing"}]
          /\ where' \in [App -> {"nowhere", "buffered", "sent"}]
          /\ fault' \in {"none", "freed twice", "SIGPIPE", "freed garbage"}
      <3>1. CASE WriteToNobody(s) /\ UNCHANGED where
        BY <3>1, NobodyTypes DEF TypeOK
      <3>2. CASE /\ where' = [a \in App |-> IF where[a] = "buffered" THEN "sent" ELSE where[a]]
                 /\ UNCHANGED sock \/ MoveTo(s, "sending")
                 /\ UNCHANGED fault
        <4>1. sock' \in [Sock -> {"none", "loop", "connecting", "io", "sending", "receiving", "writing"}]
          BY <3>2 DEF TypeOK
        <4> QED
          BY <3>2, <4>1 DEF TypeOK
      <3> QED
        BY <1>3, <3>1, <3>2 DEF SendMsgToSocket
    <2> QED
      BY <1>3, <2>1 DEF SendMsgToSocket, TypeOK
  <1>4. CASE RecvMsgFromSocket(s)
    <2>1. CASE UNCHANGED <<where, waiting, answered>>
      BY <1>4, <2>1 DEF RecvMsgFromSocket, TypeOK
    <2>2. ASSUME NEW a \in waiting,
                 where' = [where EXCEPT ![a] = "nowhere"],
                 waiting' = waiting \ {a},
                 answered' = [answered EXCEPT ![a] = TRUE]
          PROVE  TypeOK'
      <3>1. a \in App
        BY DEF TypeOK
      <3>2. /\ where' \in [App -> {"nowhere", "buffered", "sent"}]
            /\ waiting' \subseteq App
            /\ answered' \in [App -> BOOLEAN]
        BY <2>2, <3>1 DEF TypeOK
      <3> QED
        BY <1>4, <3>2 DEF RecvMsgFromSocket, TypeOK
    <2> QED
      BY <1>4, <2>1, <2>2 DEF RecvMsgFromSocket
  <1>5. CASE NoticeClosed(s)
    BY <1>5 DEF NoticeClosed, TypeOK
  <1>6. CASE GoOnSending(s)
    <2>1. CASE peer /\ MoveTo(s, "io") /\ UNCHANGED fault
      BY <1>6, <2>1 DEF GoOnSending, TypeOK
    <2>2. CASE WriteToNobody(s)
      BY <1>6, <2>2, NobodyTypes DEF GoOnSending, TypeOK
    <2> QED
      BY <1>6, <2>1, <2>2 DEF GoOnSending
  <1>7. CASE BeginToRecv(s)
    BY <1>7 DEF BeginToRecv, TypeOK
  <1> QED
    BY <1>1, <1>2, <1>3, <1>4, <1>5, <1>6, <1>7 DEF SockStep

LEMMA NextTypes == TypeOK /\ [Next]_vars => TypeOK'
  <1> SUFFICES ASSUME TypeOK, [Next]_vars PROVE TypeOK'
    OBVIOUS
  <1> USE DEF GoTo, Enter, history, callVars, threadInfo, sockets, Forget, LifeCycle
  <1>1. ASSUME NEW a \in App, PWR_Register(a) PROVE TypeOK'
    BY <1>1 DEF PWR_Register, TypeOK
  <1>2. ASSUME NEW a \in App, PWR_UnRegister(a) PROVE TypeOK'
    BY <1>2 DEF PWR_UnRegister, TypeOK
  <1>3. ASSUME NEW a \in App, BeginCall(a) PROVE TypeOK'
    <2>1. PICK g \in {"call", "auth"} : Enter(a, g)
      BY <1>3 DEF BeginCall
    <2>2. goal' \in [App -> {"register", "unregister", "call", "auth"}] /\ overlapped' \in BOOLEAN
      BY <2>1 DEF TypeOK
    <2> QED
      BY <1>3, <2>2 DEF BeginCall, TypeOK
  <1>4. CASE DaemonCloses
    BY <1>4 DEF DaemonCloses, TypeOK
  <1>5. CASE UNCHANGED vars
    BY <1>5 DEF vars, TypeOK
  <1> QED
    BY <1>1, <1>2, <1>3, <1>4, <1>5, AppTypes, SockTypes DEF Next

\* Nothing the library keeps leaves its type: the descriptor and the socket thread are ones
\* the process has, or none, for any number of each.
THEOREM TypeCorrect == Spec => []TypeOK
  BY InitTypes, NextTypes, PTL DEF Spec

(***************************************************************************)
(* Who is in the library.  Until a function ran beside Register or         *)
(* UnRegister, a thread in one of these two is alone.                      *)
(***************************************************************************)
LifeCyclePc == {"connect", "create", "mark", "stop", "join", "close", "reset", "unmark"}
CallPc == {"send", "enlist", "wait", "return", "grant"}

Alone ==
    \A a, b \in App :
        (pc[a] # "out" /\ goal[a] \in LifeCycle /\ pc[b] # "out") => a = b

GoalMatches ==
    \A a \in App :
        /\ pc[a] \in LifeCyclePc => goal[a] \in LifeCycle
        /\ pc[a] \in CallPc => goal[a] \in {"call", "auth"}
        /\ pc[a] = "unmark" => goal[a] = "unregister"
        /\ pc[a] \in {"connect", "create", "mark"} => goal[a] = "register"

WhoInv == TypeOK /\ GoalMatches /\ (~overlapped => Alone)

LEMMA EnterAlone ==
    ASSUME WhoInv, NEW a \in App, NEW g \in {"register", "unregister", "call", "auth"},
           NEW next \in LifeCyclePc \union CallPc,
           Enter(a, g), GoTo(a, next), ~overlapped'
    PROVE  /\ Alone'
           /\ \A b \in App : pc[b] # "out" => goal[b] \notin LifeCycle
           /\ g \in LifeCycle => \A b \in App : pc[b] = "out"
  <1> USE DEF Enter, GoTo, WhoInv, LifeCycle
  <1>1. ~overlapped /\ pc[a] = "out" /\ Changing = {} /\ (g \in LifeCycle => Inside = {})
    OBVIOUS
  <1>2. \A b \in App : pc[b] # "out" => goal[b] \notin LifeCycle
    BY <1>1 DEF Changing, Inside
  <1>3. g \in LifeCycle => \A b \in App : pc[b] = "out"
    BY <1>1 DEF Inside
  <1>4. /\ \A b \in App \ {a} : pc'[b] = pc[b] /\ goal'[b] = goal[b]
        /\ goal'[a] = g
    BY DEF TypeOK
  <1>5. Alone'
    BY <1>2, <1>3, <1>4 DEF Alone
  <1> QED
    BY <1>2, <1>3, <1>5

LEMMA Tables ==
    ASSUME TypeOK
    PROVE  /\ pc = [b \in App |-> pc[b]] /\ goal = [b \in App |-> goal[b]] /\ req = [b \in App |-> req[b]]
           /\ waiting \subseteq App
  <1>1. pc = [b \in App |-> pc[b]]
    BY DEF TypeOK
  <1>2. goal = [b \in App |-> goal[b]]
    BY DEF TypeOK
  <1>3. req = [b \in App |-> req[b]]
    BY DEF TypeOK
  <1> QED
    BY <1>1, <1>2, <1>3 DEF TypeOK

\* How a step moves the app thread that takes it; no other thread moves.
Moves(a) ==
    /\ pc[a] # "out"
    /\ overlapped' = overlapped
    /\ \A b \in App \ {a} : pc'[b] = pc[b] /\ goal'[b] = goal[b]
    /\ \/ pc'[a] = "out"
       \/ /\ goal'[a] = goal[a]
          /\ pc[a] \in LifeCyclePc => pc'[a] \in LifeCyclePc
          /\ pc[a] \in CallPc => pc'[a] \in CallPc
          /\ pc'[a] = "unmark" => goal[a] = "unregister"
          /\ pc'[a] \in {"connect", "create", "mark"} => pc[a] \in {"connect", "create"}

LEMMA LifeCycleMoves ==
    ASSUME TypeOK, NEW a \in App,
           \/ Connect(a) \/ CreateThread(a) \/ MarkRegistered(a) \/ StopThread(a) \/ Join(a)
           \/ CloseSocket(a) \/ ResetBuffers(a) \/ MarkUnregistered(a)
    PROVE  Moves(a)
  <1> USE DEF GoTo, Leave, history, LifeCyclePc, CallPc, Moves
  <1>0. pc = [b \in App |-> pc[b]] /\ goal = [b \in App |-> goal[b]]
    BY Tables
  <1>1. CASE Connect(a)
    BY <1>0, <1>1 DEF Connect
  <1>2. CASE CreateThread(a)
    <2>1. UNCHANGED <<goal, overlapped>> /\ pc[a] = "create"
      BY <1>2 DEF CreateThread
    <2>2. GoTo(a, "mark") \/ GoTo(a, "stop")
      BY <1>2 DEF CreateThread
    <2> QED
      BY <1>0, <2>1, <2>2
  <1>3. CASE MarkRegistered(a) \/ MarkUnregistered(a)
    BY <1>0, <1>3 DEF MarkRegistered, MarkUnregistered
  <1>4. CASE StopThread(a)
    BY <1>0, <1>4 DEF StopThread
  <1>5. CASE Join(a)
    BY <1>0, <1>5 DEF Join
  <1>6. CASE CloseSocket(a)
    BY <1>0, <1>6 DEF CloseSocket
  <1>7. CASE ResetBuffers(a)
    <2>1. pc[a] = "reset" /\ overlapped' = overlapped
      BY <1>7 DEF ResetBuffers
    <2>2. \/ goal[a] = "unregister" /\ GoTo(a, "unmark") /\ UNCHANGED goal
          \/ Leave(a)
      BY <1>7 DEF ResetBuffers
    <2> QED
      BY <1>0, <2>1, <2>2
  <1> QED
    BY <1>1, <1>2, <1>3, <1>4, <1>5, <1>6, <1>7

LEMMA CallMoves ==
    ASSUME TypeOK, NEW a \in App,
           SendClone(a) \/ Enlist(a) \/ EndWait(a) \/ Return(a) \/ Grant(a)
    PROVE  Moves(a)
  <1> USE DEF GoTo, Leave, history, LifeCyclePc, CallPc, Moves
  <1>0. pc = [b \in App |-> pc[b]] /\ goal = [b \in App |-> goal[b]]
    BY Tables
  <1>1. CASE SendClone(a)
    BY <1>0, <1>1 DEF SendClone
  <1>2. CASE Enlist(a) \/ EndWait(a)
    <2>1. pc[a] \in {"enlist", "wait"} /\ UNCHANGED <<goal, overlapped>>
      BY <1>2 DEF Enlist, EndWait
    <2>2. GoTo(a, "wait") \/ GoTo(a, "return")
      BY <1>2 DEF Enlist, EndWait
    <2> QED
      BY <1>0, <2>1, <2>2
  <1>3. CASE Return(a)
    <2>1. pc[a] = "return" /\ overlapped' = overlapped
      BY <1>3 DEF Return
    <2>2. Leave(a) \/ (GoTo(a, "grant") /\ UNCHANGED goal)
      BY <1>3 DEF Return
    <2> QED
      BY <1>0, <2>1, <2>2
  <1>4. CASE Grant(a)
    BY <1>0, <1>4 DEF Grant
  <1> QED
    BY <1>1, <1>2, <1>3, <1>4

LEMMA AppMoves ==
    ASSUME TypeOK, NEW a \in App, AppStep(a)
    PROVE  Moves(a)
  BY LifeCycleMoves, CallMoves DEF AppStep

\* No socket thread moves an app thread.
LEMMA SockMoves ==
    ASSUME NEW s \in Sock, SockStep(s)
    PROVE  UNCHANGED <<pc, goal, req, overlapped, unlisted>>
  <1> USE DEF history
  <1>1. CASE Loop(s) \/ GoOnSending(s) \/ BeginToRecv(s)
    BY <1>1 DEF Loop, GoOnSending, BeginToRecv, callVars
  <1>2. CASE Reconnect(s)
    BY <1>2 DEF Reconnect
  <1>3. CASE SendMsgToSocket(s)
    BY <1>3 DEF SendMsgToSocket
  <1>4. CASE RecvMsgFromSocket(s)
    BY <1>4 DEF RecvMsgFromSocket
  <1>5. CASE NoticeClosed(s)
    BY <1>5 DEF NoticeClosed
  <1> QED
    BY <1>1, <1>2, <1>3, <1>4, <1>5 DEF SockStep

LEMMA NextWho == WhoInv /\ [Next]_vars => WhoInv'
  <1> SUFFICES ASSUME WhoInv, [Next]_vars PROVE WhoInv'
    OBVIOUS
  <1>0. TypeOK'
    BY NextTypes DEF WhoInv
  <1> SUFFICES GoalMatches' /\ (~overlapped' => Alone')
    BY <1>0 DEF WhoInv
  <1> DEFINE Good == GoalMatches' /\ (~overlapped' => Alone')
  <1> USE DEF GoTo, history, callVars, threadInfo, sockets, LifeCycle, LifeCyclePc, CallPc, WhoInv
  <1>1. ASSUME NEW a \in App, PWR_Register(a) PROVE Good
    <2>1. ~overlapped' => Alone'
      BY <1>1, EnterAlone DEF PWR_Register
    <2> QED
      BY <1>1, <2>1 DEF PWR_Register, Enter, GoalMatches, TypeOK
  <1>2. ASSUME NEW a \in App, PWR_UnRegister(a) PROVE Good
    <2>1. ~overlapped' => Alone'
      BY <1>2, EnterAlone DEF PWR_UnRegister
    <2> QED
      BY <1>2, <2>1 DEF PWR_UnRegister, Enter, GoalMatches, TypeOK
  <1>3. ASSUME NEW a \in App, BeginCall(a) PROVE Good
    <2>1. PICK g \in {"call", "auth"} : Enter(a, g)
      BY <1>3 DEF BeginCall
    <2>2. ~overlapped' => Alone'
      BY <1>3, <2>1, EnterAlone DEF BeginCall
    <2> QED
      BY <1>3, <2>1, <2>2 DEF BeginCall, Enter, GoalMatches, TypeOK
  <1>4. ASSUME NEW a \in App, AppStep(a) PROVE Good
    <2>1. Moves(a)
      BY <1>4, AppMoves
    <2>2. pc[a] \in LifeCyclePc \union CallPc
      BY <2>1 DEF TypeOK, Moves
    <2>3. GoalMatches'
      BY <2>1, <2>2 DEF GoalMatches, Moves
    <2>4. ~overlapped' => Alone'
      BY <2>1 DEF Alone, Moves
    <2> QED
      BY <2>3, <2>4
  <1>5. ASSUME NEW s \in Sock, SockStep(s) PROVE Good
    BY <1>5, SockMoves DEF GoalMatches, Alone
  <1>6. CASE DaemonCloses \/ UNCHANGED vars
    BY <1>6 DEF DaemonCloses, vars, GoalMatches, Alone
  <1> QED
    BY <1>1, <1>2, <1>3, <1>4, <1>5, <1>6 DEF Next

(***************************************************************************)
(* The request of a call.                                                  *)
(***************************************************************************)
Requests ==
    /\ \A a \in waiting : pc[a] = "wait"
    /\ \A a \in App : pc[a] \in {"send", "enlist", "wait", "return"} => req[a] = "live"
    /\ fault # "freed twice"

FreedInv == WhoInv /\ (~overlapped /\ ~unlisted => Requests)

\* Threads that go on with requests as they are.
LEMMA RequestsStay ==
    ASSUME waiting \subseteq App, Requests, NEW a \in App, Moves(a),
           UNCHANGED <<req, fault>>, waiting' \subseteq waiting \union {a},
           a \in waiting' => pc'[a] = "wait",
           pc'[a] \in CallPc \ {"grant"} => pc[a] \in CallPc \ {"grant"}
    PROVE  Requests'
  <1>1. \A b \in waiting' : pc'[b] = "wait"
    BY DEF Requests, Moves
  <1>2. \A b \in App : pc'[b] \in CallPc \ {"grant"} => pc[b] \in CallPc \ {"grant"}
    BY DEF Moves
  <1> QED
    BY <1>1, <1>2 DEF Requests, CallPc

LEMMA LifeCycleRequests ==
    ASSUME WhoInv, Requests, ~overlapped, NEW a \in App, Moves(a),
           \/ Connect(a) \/ CreateThread(a) \/ MarkRegistered(a) \/ StopThread(a) \/ Join(a)
           \/ CloseSocket(a) \/ ResetBuffers(a) \/ MarkUnregistered(a)
    PROVE  Requests'
  <1>1. waiting \subseteq App /\ pc = [b \in App |-> pc[b]]
    BY Tables DEF WhoInv
  <1>2. pc[a] \in LifeCyclePc
    BY DEF Connect, CreateThread, MarkRegistered, StopThread, Join, CloseSocket, ResetBuffers,
           MarkUnregistered, LifeCyclePc
  <1>3. pc'[a] \in LifeCyclePc \union {"out"}
    BY <1>2 DEF Moves, LifeCyclePc
  <1>4. CASE ResetBuffers(a)
    <2>1. goal[a] \in LifeCycle
      BY <1>2 DEF WhoInv, GoalMatches
    <2>2. \A b \in App : pc[b] # "out" => b = a
      BY <1>2, <2>1 DEF WhoInv, Alone, LifeCyclePc
    <2>3. waiting = {}
      BY <1>1, <1>2, <2>2 DEF Requests, LifeCyclePc
    <2>4. waiting' = {} /\ fault' = fault
      BY <1>4, <2>3 DEF ResetBuffers
    <2>5. \A b \in App : pc'[b] \notin CallPc
      BY <1>3, <2>2 DEF Moves, LifeCyclePc, CallPc
    <2> QED
      BY <2>4, <2>5 DEF Requests, CallPc
  <1>5. CASE ~ResetBuffers(a)
    <2>1. UNCHANGED <<waiting, req, fault>>
      BY <1>5 DEF Connect, CreateThread, MarkRegistered, StopThread, Join, CloseSocket,
                  MarkUnregistered, callVars
    <2>2. a \notin waiting
      BY <1>2 DEF Requests, LifeCyclePc
    <2> QED
      BY <1>1, <1>3, <2>1, <2>2, RequestsStay DEF LifeCyclePc, CallPc
  <1> QED
    BY <1>4, <1>5

LEMMA CallRequests ==
    ASSUME TypeOK, Requests, NEW a \in App, Moves(a), ~unlisted',
           SendClone(a) \/ Enlist(a) \/ EndWait(a) \/ Return(a) \/ Grant(a)
    PROVE  Requests'
  <1>0. ~unlisted'
    OBVIOUS
  <1>1. waiting \subseteq App /\ pc = [b \in App |-> pc[b]] /\ req = [b \in App |-> req[b]]
    BY Tables
  <1>2. CASE SendClone(a)
    <2>1. /\ UNCHANGED <<waiting, req, fault>>
          /\ pc[a] = "send" /\ pc'[a] \in {"return", "enlist"}
      BY <1>1, <1>2 DEF SendClone, GoTo
    <2> QED
      BY <1>1, <2>1, RequestsStay DEF Requests, CallPc
  <1>3. CASE Enlist(a)
    <2>1. /\ UNCHANGED <<req, fault>> /\ waiting' = waiting \union {a}
          /\ pc[a] = "enlist" /\ pc'[a] = "wait"
      BY <1>1, <1>3, <1>0 DEF Enlist, GoTo
    <2> QED
      BY <1>1, <2>1, RequestsStay DEF CallPc
  <1>4. CASE EndWait(a)
    <2>1. /\ UNCHANGED <<req, fault>> /\ waiting' = waiting \ {a}
          /\ pc[a] = "wait" /\ pc'[a] = "return"
      BY <1>1, <1>4 DEF EndWait, GoTo
    <2> QED
      BY <1>1, <2>1, RequestsStay DEF CallPc
  <1>5. CASE Return(a)
    <2>1. pc[a] = "return" /\ req[a] = "live" /\ a \notin waiting
      BY <1>5 DEF Return, Requests
    <2>2. fault' = fault /\ waiting' = waiting /\ \A b \in App \ {a} : req'[b] = req[b]
      BY <1>1, <1>5, <2>1 DEF Return
    <2>3. pc'[a] \in {"out", "grant"}
      BY <1>1, <1>5 DEF Return, Leave, GoTo
    <2> QED
      BY <1>1, <2>1, <2>2, <2>3 DEF Requests, Moves
  <1>6. CASE Grant(a)
    <2>1. UNCHANGED <<waiting, req, fault>> /\ pc[a] = "grant" /\ pc'[a] = "out"
      BY <1>1, <1>6 DEF Grant, Leave, GoTo, callVars
    <2> QED
      BY <1>1, <2>1, RequestsStay DEF Requests, CallPc
  <1> QED
    BY <1>2, <1>3, <1>4, <1>5, <1>6

LEMMA EnterRequests ==
    ASSUME TypeOK, Requests, NEW a \in App, NEW g, Enter(a, g), waiting' \in {waiting, {}},
           NEW next, GoTo(a, next), next \in CallPc \ {"grant"} => req'[a] = "live",
           \A b \in App \ {a} : req'[b] = req[b], fault' = fault
    PROVE  Requests'
  <1>1. pc = [b \in App |-> pc[b]] /\ waiting \subseteq App
    BY Tables
  <1>2. pc[a] = "out" /\ pc' = [pc EXCEPT ![a] = next]
    BY DEF Enter, GoTo
  <1>3. a \notin waiting
    BY <1>2 DEF Requests
  <1> QED
    BY <1>1, <1>2, <1>3 DEF Requests, CallPc

LEMMA NextFreed == FreedInv /\ [Next]_vars => FreedInv'
  <1> SUFFICES ASSUME FreedInv, [Next]_vars, ~overlapped', ~unlisted' PROVE Requests'
    BY NextWho DEF FreedInv
  <1>0. WhoInv /\ TypeOK
    BY DEF FreedInv, WhoInv
  <1>1. ASSUME NEW a \in App, PWR_Register(a) PROVE Requests'
    <2>1. Enter(a, "register") /\ Requests
      BY <1>1 DEF PWR_Register, Enter, FreedInv
    <2> QED
      BY <1>0, <1>1, <2>1, EnterRequests DEF PWR_Register, CallPc
  <1>2. ASSUME NEW a \in App, PWR_UnRegister(a) PROVE Requests'
    <2>1. Enter(a, "unregister") /\ Requests
      BY <1>2 DEF PWR_UnRegister, Enter, FreedInv
    <2> QED
      BY <1>0, <1>2, <2>1, EnterRequests DEF PWR_UnRegister, callVars, CallPc
  <1>3. ASSUME NEW a \in App, BeginCall(a) PROVE Requests'
    <2>1. PICK g \in {"call", "auth"} : Enter(a, g)
      BY <1>3 DEF BeginCall
    <2>2. Requests
      BY <2>1 DEF Enter, FreedInv
    <2>3. /\ req'[a] = "live" /\ \A b \in App \ {a} : req'[b] = req[b]
          /\ UNCHANGED <<waiting, fault>> /\ GoTo(a, "send")
      BY <1>0, <1>3 DEF BeginCall, TypeOK
    <2> QED
      BY <1>0, <2>1, <2>2, <2>3, EnterRequests
  <1>4. ASSUME NEW a \in App, AppStep(a) PROVE Requests'
    <2>1. Moves(a)
      BY <1>0, <1>4, AppMoves
    <2>2. ~overlapped /\ Requests
      <3>1. ~unlisted
        BY <1>4 DEF AppStep, Connect, CreateThread, MarkRegistered, StopThread, Join, CloseSocket,
                    ResetBuffers, MarkUnregistered, SendClone, Enlist, EndWait, Return, Grant, history
      <3> QED
        BY <2>1, <3>1 DEF Moves, FreedInv
    <2> QED
      BY <1>0, <1>4, <2>1, <2>2, LifeCycleRequests, CallRequests DEF AppStep
  <1>5. ASSUME NEW s \in Sock, SockStep(s) PROVE Requests'
    <2>1. UNCHANGED <<pc, req, overlapped, unlisted>>
      BY <1>5, SockMoves
    <2>2. waiting' \subseteq waiting /\ fault' \in {fault, "SIGPIPE", "freed garbage"}
      <3>1. CASE Loop(s) \/ Reconnect(s) \/ SendMsgToSocket(s)
        BY <3>1 DEF Loop, Reconnect, SendMsgToSocket, WriteToNobody, callVars
      <3>2. CASE RecvMsgFromSocket(s) \/ NoticeClosed(s)
        BY <3>2 DEF RecvMsgFromSocket, NoticeClosed
      <3>3. CASE GoOnSending(s) \/ BeginToRecv(s)
        BY <3>3 DEF GoOnSending, BeginToRecv, WriteToNobody, callVars
      <3> QED
        BY <1>5, <3>1, <3>2, <3>3 DEF SockStep
    <2> QED
      BY <2>1, <2>2 DEF FreedInv, Requests
  <1>6. CASE DaemonCloses \/ UNCHANGED vars
    <2>1. UNCHANGED <<pc, waiting, req, overlapped, unlisted, fault>>
      BY <1>6 DEF DaemonCloses, vars, callVars, history
    <2> QED
      BY <2>1 DEF FreedInv, Requests
  <1> QED
    BY <1>1, <1>2, <1>3, <1>4, <1>5, <1>6 DEF Next

LEMMA InitFreed == Init => FreedInv
  <1> SUFFICES ASSUME Init PROVE FreedInv
    OBVIOUS
  <1>1. \A a \in App : pc[a] = "out"
    BY DEF Init
  <1>2. GoalMatches /\ Alone
    BY <1>1 DEF GoalMatches, Alone, LifeCyclePc, CallPc
  <1> QED
    BY <1>1, <1>2, InitTypes DEF Init, FreedInv, WhoInv, Requests

\* A request is never freed a second time, whatever the number of app threads and the order
\* of calls, answers, time-outs and reconnections, as long as Register and UnRegister run
\* beside no other function and every call that has sent its clone gets the memory of its
\* node (SendMsgSyn, SendReqAndWaitForRsp and FiniSockClient of sockclient.c).
THEOREM FreedOnce == Spec => []RequestFreedOnce
  <1>1. FreedInv => RequestFreedOnce
    BY DEF FreedInv, Requests, RequestFreedOnce
  <1> QED
    BY <1>1, InitFreed, NextFreed, PTL DEF Spec

(***************************************************************************)
(* Threads and connections.  Where Register or UnRegister stand, the       *)
(* socket thread and the descriptor are as far as they have got; between   *)
(* two of them both are there or neither.                                  *)
(***************************************************************************)
NoneRuns == \A s \in Sock : sock[s] = "none"
NothingOpen == fd = None /\ open \subseteq lost
Served == keepRunning /\ thread \in Sock /\ sock[thread] # "none"

Settled(a) ==
    /\ pc[a] = "connect" => NoneRuns /\ thread = None /\ NothingOpen /\ status = "unregistered"
    /\ pc[a] = "create" => NoneRuns /\ thread = None /\ status = "unregistered"
    /\ pc[a] = "mark" => Served /\ status = "unregistered"
    /\ pc[a] \in {"stop", "close"} /\ goal[a] = "register"
          => thread = None /\ status = "unregistered"
    /\ pc[a] = "join" => goal[a] = "unregister" /\ thread \in Sock /\ joining[a] = thread
    /\ pc[a] = "close" => NoneRuns
    /\ pc[a] \in {"reset", "unmark"} => NoneRuns /\ NothingOpen
    /\ pc[a] = "reset" /\ goal[a] = "register" => status = "unregistered"
    /\ pc[a] \in CallPc => status # "unregistered"

Between == IF status = "unregistered" THEN NoneRuns /\ NothingOpen ELSE Served

QuietState ==
    /\ \A s \in Sock : sock[s] # "none" => s = thread
    /\ \A s \in Sock : sock[s] = "connecting" => fd = None
    /\ open \subseteq lost \union {fd}
    /\ (\A a \in App : pc[a] # "out" => goal[a] \notin LifeCycle) => Between
    /\ \A a \in App : Settled(a)

QuietInv == WhoInv /\ (~overlapped /\ ~doubled => QuietState)

\* A function other than Register and UnRegister begins, runs and ends between two of them.
LEMMA CallsQuiet ==
    ASSUME WhoInv, ~overlapped, QuietState, NEW a \in App,
           pc[a] \in CallPc,
           SendClone(a) \/ Enlist(a) \/ EndWait(a) \/ Return(a) \/ Grant(a)
    PROVE  QuietState'
  <1> USE DEF GoTo, Leave, history, callVars, threadInfo, sockets, WhoInv
  <1>1. \A b \in App : pc[b] # "out" => goal[b] \notin LifeCycle
    BY DEF Alone, GoalMatches, LifeCycle, CallPc
  <1>2. status # "unregistered" /\ Served
    BY <1>1 DEF QuietState, Between, Settled
  <1>3. /\ UNCHANGED <<sockets, threadInfo, joining, sock, lost>>
        /\ status' # "unregistered"
    BY <1>2 DEF SendClone, Enlist, EndWait, Return, Grant
  <1>4. /\ pc'[a] \in CallPc \union {"out"}
        /\ \A b \in App \ {a} : pc'[b] = pc[b] /\ goal'[b] = goal[b]
    BY DEF SendClone, Enlist, EndWait, Return, Grant, CallPc, TypeOK
  <1>5. \A b \in App : pc[b] \notin LifeCyclePc
    BY <1>1 DEF GoalMatches, LifeCyclePc
  <1>6. \A b \in App : Settled(b)'
    BY <1>3, <1>4, <1>5 DEF Settled, LifeCyclePc, CallPc
  <1> QED
    BY <1>2, <1>3, <1>6 DEF QuietState, Between, Served

LEMMA LifeCycleQuiet ==
    ASSUME TypeOK, WhoInv, ~overlapped, QuietState, NEW a \in App,
           \/ Connect(a) \/ CreateThread(a) \/ MarkRegistered(a) \/ StopThread(a) \/ Join(a)
           \/ CloseSocket(a) \/ ResetBuffers(a) \/ MarkUnregistered(a)
    PROVE  QuietState'
  <1> USE DEF GoTo, Leave, history, callVars, threadInfo, sockets, LifeCycle
  <1>1. pc[a] \in LifeCyclePc /\ goal[a] \in LifeCycle
    BY DEF Connect, CreateThread, MarkRegistered, StopThread, Join, CloseSocket, ResetBuffers,
           MarkUnregistered, LifeCyclePc, WhoInv, GoalMatches
  <1>2. \A b \in App \ {a} : pc[b] = "out"
    BY <1>1 DEF WhoInv, Alone, LifeCyclePc
  <1>3. \A b \in App \ {a} : pc'[b] = "out"
    <2>1. \E next : pc' = [pc EXCEPT ![a] = next]
      BY DEF Connect, CreateThread, MarkRegistered, StopThread, Join, CloseSocket, ResetBuffers,
             MarkUnregistered
    <2> QED
      BY <1>2, <2>1 DEF TypeOK
  <1>4. \A b \in App \ {a} : Settled(b)'
    BY <1>3 DEF Settled, CallPc
  <1>5. Settled(a)
    BY DEF QuietState
  <1> SUFFICES /\ \A s \in Sock : sock'[s] # "none" => s = thread'
               /\ \A s \in Sock : sock'[s] = "connecting" => fd' = None
               /\ open' \subseteq lost' \union {fd'}
               /\ pc'[a] = "out" => Between'
               /\ pc'[a] # "out" => goal'[a] \in LifeCycle
               /\ Settled(a)'
    BY <1>4 DEF QuietState
  <1>6. CASE Connect(a)
    <2>1. /\ NoneRuns /\ NothingOpen /\ thread = None
          /\ status = "unregistered" /\ goal[a] = "register"
      BY <1>5, <1>6 DEF Settled, Connect, WhoInv, GoalMatches
    <2>2. UNCHANGED <<goal, status, thread, sock, lost>>
      BY <1>6 DEF Connect
    <2>3. pc'[a] \in {"create", "stop"}
      BY <1>6 DEF Connect, TypeOK
    <2>4. open' \subseteq lost' \union {fd'}
      BY <1>6, <2>1, NewConnectionTypes DEF Connect, NothingOpen
    <2> QED
      BY <2>1, <2>2, <2>3, <2>4 DEF Settled, NoneRuns, CallPc
  <1>7. CASE CreateThread(a)
    <2>1. NoneRuns /\ thread = None /\ status = "unregistered" /\ goal[a] = "register"
      BY <1>5, <1>7 DEF Settled, CreateThread, WhoInv, GoalMatches
    <2>2. UNCHANGED <<goal, status, fd, open, lost>> /\ keepRunning' = TRUE
      BY <1>7 DEF CreateThread
    <2>3. CASE GoTo(a, "stop") /\ UNCHANGED <<sock, thread>>
      <3>1. pc'[a] = "stop"
        BY <2>3 DEF TypeOK
      <3> QED
        BY <2>1, <2>2, <2>3, <3>1 DEF Settled, NoneRuns, CallPc, QuietState
    <2>4. ASSUME NEW s \in Sock \ Running,
                 sock' = [sock EXCEPT ![s] = "loop"], thread' = s, GoTo(a, "mark")
          PROVE  /\ \A t \in Sock : sock'[t] # "none" => t = thread'
                 /\ \A t \in Sock : sock'[t] # "connecting"
                 /\ Served' /\ pc'[a] = "mark"
      BY <2>1, <2>2, <2>4 DEF NoneRuns, Served, TypeOK
    <2>5. CASE \E s \in Sock \ Running :
                  sock' = [sock EXCEPT ![s] = "loop"] /\ thread' = s /\ GoTo(a, "mark")
      BY <2>1, <2>2, <2>4, <2>5 DEF Settled, CallPc, QuietState
    <2> QED
      BY <1>7, <2>3, <2>5 DEF CreateThread
  <1>8. CASE MarkRegistered(a)
    <2>1. Served /\ UNCHANGED <<sockets, threadInfo, sock, lost>> /\ status' = "registered"
      BY <1>5, <1>8 DEF MarkRegistered, Settled
    <2>2. pc'[a] = "out"
      BY <1>8 DEF MarkRegistered, TypeOK
    <2> QED
      BY <2>1, <2>2 DEF Between, Served, Settled, CallPc, QuietState
  <1>9. CASE StopThread(a)
    <2>1. /\ UNCHANGED <<goal, status, fd, open, lost, sock, thread>>
          /\ pc[a] = "stop" /\ joining'[a] = thread
          /\ pc'[a] = IF thread # None THEN "join" ELSE "close"
      BY <1>9 DEF StopThread, TypeOK
    <2>2. thread # None => thread \in Sock /\ goal[a] = "unregister"
      BY <1>1, <1>5, <2>1 DEF TypeOK, Settled
    <2>3. thread = None => NoneRuns
      BY LibraryAssumption DEF QuietState, NoneRuns, Sock
    <2> QED
      BY <1>1, <1>5, <2>1, <2>2, <2>3 DEF Settled, NoneRuns, CallPc, QuietState
  <1>10. CASE Join(a)
    <2>1. /\ UNCHANGED <<goal, status, fd, open, lost, sock>>
          /\ pc[a] = "join" /\ pc'[a] = "close" /\ thread' = None
          /\ sock[joining[a]] = "none"
      BY <1>10 DEF Join, TypeOK
    <2>2. NoneRuns /\ goal[a] = "unregister"
      BY <1>5, <2>1 DEF Settled, QuietState, NoneRuns
    <2> QED
      BY <2>1, <2>2 DEF Settled, NoneRuns, CallPc, QuietState
  <1>11. CASE CloseSocket(a)
    <2>1. /\ UNCHANGED <<goal, status, thread, sock>>
          /\ pc[a] = "close" /\ pc'[a] = "reset"
          /\ fd' = None /\ open' = open \ {fd} /\ lost' = lost \ {fd}
      BY <1>11 DEF CloseSocket, TypeOK
    <2>2. NoneRuns
      BY <1>5, <2>1 DEF Settled
    <2>3. open' \subseteq lost'
      BY <2>1 DEF QuietState
    <2> QED
      BY <1>1, <1>5, <2>1, <2>2, <2>3 DEF Settled, NoneRuns, NothingOpen, CallPc
  <1>12. CASE ResetBuffers(a)
    <2>1. /\ UNCHANGED <<status, fd, open, lost, thread, sock>>
          /\ pc[a] = "reset"
          /\ IF goal[a] = "unregister" THEN pc'[a] = "unmark" /\ goal' = goal ELSE pc'[a] = "out"
      BY <1>12 DEF ResetBuffers, TypeOK
    <2>2. NoneRuns /\ NothingOpen /\ (goal[a] = "register" => status = "unregistered")
      BY <1>5, <2>1 DEF Settled
    <2> QED
      BY <1>1, <2>1, <2>2 DEF Settled, Between, NoneRuns, NothingOpen, CallPc
  <1>13. CASE MarkUnregistered(a)
    <2>1. /\ UNCHANGED <<fd, open, lost, thread, sock>>
          /\ pc[a] = "unmark" /\ pc'[a] = "out" /\ status' = "unregistered"
      BY <1>13 DEF MarkUnregistered, TypeOK
    <2>2. NoneRuns /\ NothingOpen
      BY <1>5, <2>1 DEF Settled
    <2> QED
      BY <2>1, <2>2 DEF Settled, Between, NoneRuns, NothingOpen, CallPc
  <1> QED
    BY <1>6, <1>7, <1>8, <1>9, <1>10, <1>11, <1>12, <1>13

LEMMA SockQuiet ==
    ASSUME TypeOK, QuietState, NEW s \in Sock, SockStep(s)
    PROVE  QuietState'
  <1> USE DEF MoveTo, history, callVars, threadInfo, sockets
  <1>1. /\ UNCHANGED <<pc, goal, status, joining, keepRunning, thread>>
        /\ s = thread /\ sock[s] # "none"
    BY DEF SockStep, Loop, Reconnect, SendMsgToSocket, GoOnSending, BeginToRecv, RecvMsgFromSocket,
           NoticeClosed, QuietState
  <1>2. ~NoneRuns
    BY <1>1 DEF NoneRuns
  <1>3. thread # None
    BY <1>1, LibraryAssumption DEF Sock
  <1>4. /\ \A t \in Sock : sock'[t] # "none" => t = thread
        /\ keepRunning => sock'[s] # "none"
    <2>1. \A t \in Sock \ {s} : sock'[t] = sock[t]
      <3>1. CASE Loop(s) \/ Reconnect(s)
        BY <3>1 DEF Loop, Reconnect, TypeOK
      <3>2. CASE SendMsgToSocket(s) \/ GoOnSending(s) \/ BeginToRecv(s)
        BY <3>2 DEF SendMsgToSocket, GoOnSending, BeginToRecv, WriteToNobody, TypeOK
      <3>3. CASE RecvMsgFromSocket(s) \/ NoticeClosed(s)
        BY <3>3 DEF RecvMsgFromSocket, NoticeClosed, TypeOK
      <3> QED
        BY <3>1, <3>2, <3>3 DEF SockStep
    <2>2. keepRunning => sock'[s] # "none"
      <3>1. CASE Loop(s) \/ Reconnect(s)
        BY <3>1 DEF Loop, Reconnect, TypeOK
      <3>2. CASE SendMsgToSocket(s) \/ GoOnSending(s) \/ BeginToRecv(s)
        BY <3>2 DEF SendMsgToSocket, GoOnSending, BeginToRecv, WriteToNobody, TypeOK
      <3>3. CASE RecvMsgFromSocket(s) \/ NoticeClosed(s)
        BY <3>3 DEF RecvMsgFromSocket, NoticeClosed, TypeOK
      <3> QED
        BY <3>1, <3>2, <3>3 DEF SockStep
    <2> QED
      BY <1>1, <2>1, <2>2 DEF QuietState
  <1>5. (\A t \in Sock : sock'[t] = "connecting" => fd' = None) /\ open' \subseteq lost' \union {fd'}
    <2>1. CASE Loop(s)
      BY <2>1 DEF Loop, QuietState, TypeOK
    <2>2. CASE Reconnect(s)
      <3>1. fd = None /\ open \subseteq lost \union {fd} /\ lost' = lost
        BY <2>2 DEF Reconnect, QuietState
      <3>2. open' \subseteq lost' \union {fd'}
        <4>1. CASE CreateConnection
          <5>1. None \notin Fd
            BY LibraryAssumption DEF Fd
          <5>2. open \subseteq lost
            BY <3>1, <5>1 DEF TypeOK
          <5> QED
            BY <3>1, <4>1, <5>2, NewConnectionTypes
        <4>2. CASE UNCHANGED <<sockets, where>>
          BY <3>1, <4>2
        <4> QED
          BY <2>2, <4>1, <4>2 DEF Reconnect
      <3>3. \A t \in Sock : sock'[t] # "connecting"
        BY <1>1, <2>2 DEF Reconnect, QuietState, TypeOK
      <3> QED
        BY <3>2, <3>3
    <2>3. CASE SendMsgToSocket(s)
      BY <2>3 DEF SendMsgToSocket, WriteToNobody, QuietState, TypeOK
    <2>4. CASE RecvMsgFromSocket(s)
      BY <2>4 DEF RecvMsgFromSocket, QuietState, TypeOK
    <2>5. CASE NoticeClosed(s)
      BY <2>5 DEF NoticeClosed, QuietState, TypeOK
    <2>6. CASE GoOnSending(s) \/ BeginToRecv(s)
      BY <2>6 DEF GoOnSending, BeginToRecv, WriteToNobody, QuietState, TypeOK
    <2> QED
      BY <2>1, <2>2, <2>3, <2>4, <2>5, <2>6 DEF SockStep
  <1>6. Served => Served'
    BY <1>1, <1>4 DEF Served
  <1>7. Between => Between'
    BY <1>1, <1>2, <1>6 DEF Between
  <1>8. \A a \in App : Settled(a) => Settled(a)'
    BY <1>1, <1>2, <1>3, <1>6 DEF Settled
  <1> QED
    BY <1>1, <1>4, <1>5, <1>7, <1>8 DEF QuietState

LEMMA NextQuiet == QuietInv /\ [Next]_vars => QuietInv'
  <1> SUFFICES ASSUME QuietInv, [Next]_vars, ~overlapped', ~doubled' PROVE QuietState'
    BY NextWho DEF QuietInv
  <1> USE DEF GoTo, history, callVars, threadInfo, sockets, LifeCycle, QuietInv, WhoInv
  <1>1. ASSUME NEW a \in App, PWR_Register(a) PROVE QuietState'
    <2>1. ~overlapped /\ ~doubled /\ NoneRuns
      BY <1>1 DEF PWR_Register, Enter, Running, NoneRuns
    <2>2. \A b \in App : pc[b] = "out"
      BY <1>1, EnterAlone DEF PWR_Register, LifeCyclePc
    <2>3. Between
      BY <2>1, <2>2 DEF QuietState
    <2>4. status = "unregistered" /\ NothingOpen
      BY <2>1, <2>3 DEF Between, Served, NoneRuns
    <2>5. /\ pc'[a] = "connect" /\ goal'[a] = "register"
          /\ \A b \in App \ {a} : pc'[b] = "out"
      <3>1. TypeOK /\ pc' = [pc EXCEPT ![a] = "connect"] /\ goal' = [goal EXCEPT ![a] = "register"]
        BY <1>1 DEF PWR_Register, Enter
      <3> QED
        BY <2>2, <3>1, Tables
    <2>6. UNCHANGED <<status, sockets, sock, lost>> /\ thread' = None
      BY <1>1 DEF PWR_Register
    <2>7. \A b \in App : Settled(b)'
      BY <2>1, <2>4, <2>5, <2>6 DEF Settled, NoneRuns, NothingOpen, CallPc
    <2> QED
      BY <2>1, <2>4, <2>5, <2>6, <2>7 DEF QuietState, NoneRuns, NothingOpen
  <1>2. ASSUME NEW a \in App, PWR_UnRegister(a) PROVE QuietState'
    <2>1. ~overlapped /\ ~doubled
      BY <1>2 DEF PWR_UnRegister, Enter
    <2>2. \A b \in App : pc[b] = "out"
      BY <1>2, EnterAlone DEF PWR_UnRegister, LifeCyclePc
    <2>3. /\ pc'[a] = "stop" /\ goal'[a] = "unregister"
          /\ \A b \in App \ {a} : pc'[b] = "out"
      <3>1. TypeOK /\ pc' = [pc EXCEPT ![a] = "stop"] /\ goal' = [goal EXCEPT ![a] = "unregister"]
        BY <1>2 DEF PWR_UnRegister, Enter
      <3> QED
        BY <2>2, <3>1, Tables
    <2>4. UNCHANGED <<status, sockets, threadInfo, sock, lost>>
      BY <1>2 DEF PWR_UnRegister
    <2>5. \A b \in App : Settled(b)'
      BY <2>3 DEF Settled, CallPc
    <2> QED
      BY <2>1, <2>3, <2>4, <2>5 DEF QuietState
  <1>3. ASSUME NEW a \in App, BeginCall(a) PROVE QuietState'
    <2>1. PICK g \in {"call", "auth"} : Enter(a, g)
      BY <1>3 DEF BeginCall
    <2>2. ~overlapped /\ ~doubled
      BY <1>3, <2>1 DEF BeginCall, Enter
    <2>3. \A b \in App : pc[b] # "out" => goal[b] \notin LifeCycle
      BY <1>3, <2>1, EnterAlone DEF BeginCall, CallPc
    <2>4. /\ pc'[a] = "send"
          /\ \A b \in App \ {a} : pc'[b] = pc[b] /\ goal'[b] = goal[b]
      BY <1>3, <2>1 DEF BeginCall, Enter, TypeOK
    <2>5. UNCHANGED <<status, sockets, threadInfo, joining, sock, lost>> /\ status # "unregistered"
      BY <1>3 DEF BeginCall
    <2>6. \A b \in App : Settled(b)'
      BY <2>2, <2>4, <2>5 DEF Settled, QuietState, CallPc, NoneRuns, NothingOpen, Served
    <2>7. Between'
      BY <2>2, <2>3, <2>5 DEF QuietState, Between, Served
    <2> QED
      BY <2>2, <2>5, <2>6, <2>7 DEF QuietState
  <1>4. ASSUME NEW a \in App, AppStep(a) PROVE QuietState'
    <2>1. UNCHANGED <<overlapped, doubled>>
      BY <1>4 DEF AppStep, Connect, CreateThread, MarkRegistered, StopThread, Join, CloseSocket,
                  ResetBuffers, MarkUnregistered, SendClone, Enlist, EndWait, Return, Grant
    <2>2. CASE SendClone(a) \/ Enlist(a) \/ EndWait(a) \/ Return(a) \/ Grant(a)
      <3>1. pc[a] \in CallPc
        BY <2>2 DEF SendClone, Enlist, EndWait, Return, Grant, CallPc
      <3> QED
        BY <2>1, <2>2, <3>1, CallsQuiet DEF QuietInv
    <2>3. CASE \/ Connect(a) \/ CreateThread(a) \/ MarkRegistered(a) \/ StopThread(a) \/ Join(a)
               \/ CloseSocket(a) \/ ResetBuffers(a) \/ MarkUnregistered(a)
      BY <2>1, <2>3, LifeCycleQuiet
    <2> QED
      BY <1>4, <2>2, <2>3 DEF AppStep
  <1>5. ASSUME NEW s \in Sock, SockStep(s) PROVE QuietState'
    <2>1. UNCHANGED <<overlapped, doubled>>
      BY <1>5 DEF SockStep, Loop, Reconnect, SendMsgToSocket, GoOnSending, BeginToRecv,
                  RecvMsgFromSocket, NoticeClosed
    <2> QED
      BY <1>5, <2>1, SockQuiet
  <1>6. CASE DaemonCloses \/ UNCHANGED vars
    <2>1. /\ UNCHANGED <<pc, goal, status, fd, open, threadInfo, joining, sock, lost>>
          /\ ~overlapped /\ ~doubled
      BY <1>6 DEF DaemonCloses, vars
    <2>2. \A a \in App : Settled(a)'
      BY <2>1 DEF QuietState, Settled, NoneRuns, NothingOpen, Served
    <2> QED
      BY <2>1, <2>2 DEF QuietState, Between, NoneRuns, NothingOpen, Served
  <1> QED
    BY <1>1, <1>2, <1>3, <1>4, <1>5, <1>6 DEF Next

LEMMA InitQuiet == Init => QuietInv
  <1> SUFFICES ASSUME Init PROVE QuietInv
    OBVIOUS
  <1>1. \A a \in App : pc[a] = "out"
    BY DEF Init
  <1>2. \A a \in App : Settled(a)
    BY <1>1 DEF Settled, CallPc
  <1>3. QuietState
    BY <1>2 DEF Init, QuietState, Between, NoneRuns, NothingOpen
  <1> QED
    BY <1>3, InitFreed DEF FreedInv, QuietInv

\* Between two functions of an app that takes them one after the other, a registered library
\* has the one socket thread that PWR_UnRegister can join, and one that is not registered
\* has neither thread nor connection, for any number of threads and descriptors and after
\* any sequence of lost connections and reconnections.
THEOREM QuietCorrect == Spec => []QuietAfterUnRegister
  <1>1. QuietInv => QuietAfterUnRegister
    <2> SUFFICES ASSUME QuietInv, ~doubled, ~overlapped, Changing = {}
                 PROVE  /\ status # "unregistered" => keepRunning /\ Running = {thread}
                        /\ status = "unregistered" =>
                              Running = {} /\ fd = None /\ open \subseteq lost
      BY DEF QuietAfterUnRegister
    <2>1. QuietState
      BY DEF QuietInv
    <2>2. Between
      BY <2>1 DEF QuietState, Changing, Inside
    <2> QED
      BY <2>1, <2>2 DEF QuietState, Between, Served, NoneRuns, NothingOpen, Running
  <1> QED
    BY <1>1, InitQuiet, NextQuiet, PTL DEF Spec
=============================================================================
