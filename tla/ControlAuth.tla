---------------------------- MODULE ControlAuth ----------------------------
(***************************************************************************)
(* The control authority: the daemon grants the right to change settings   *)
(* to one app at a time (pwrapis/src/comservice.c), and each app keeps in  *)
(* g_status whether it has it (pwrapic/src/powerapi.c).  The module        *)
(* composes the apps, their connections and the daemon's list of clients   *)
(* (server.c, pwrclient.c), its socket thread and its service thread.      *)
(*                                                                         *)
(* g_authed and g_authOwner are used by both threads of the daemon without *)
(* a lock: the service thread handles requests, the socket thread releases *)
(* the authority of a client that went away.  Every read and write of them *)
(* is a step, and the two writes of a change happen in either order, since *)
(* the compiler may swap plain stores.                                     *)
(***************************************************************************)
EXTENDS Naturals, Sequences, FiniteSets

CONSTANTS
    Client,         \* processes that use the library; a client is its sysId
    NoClient,       \* owner 0: nobody
    INVALID_INDEX,  \* the sysId of an empty slot
    MAX_CLIENT_NUM, \* slots of the daemon: 3 in the code
    MaxConn,        \* bound: connections the clients make, all together
    MaxCalls,       \* bound: calls a client makes
    MayTimeOut      \* calls may end before their answer comes

ASSUME ControlAuthAssumption ==
    /\ NoClient \notin Client
    /\ INVALID_INDEX \notin Client \union {NoClient}
    /\ MAX_CLIENT_NUM \in Nat \ {0}
    /\ MaxConn \in Nat \ {0}
    /\ MaxCalls \in Nat
    /\ MayTimeOut \in BOOLEAN

VARIABLES
    status,         \* g_status of each client
    call, callNo,   \* the API call it is in, and the seqId of its last call
    online, conns,  \* its socket is valid; connections made so far
    up, down,       \* requests in each connection, answers on the way to each client
    backlog,        \* connections not yet accepted
    slot,           \* g_pwrClients
    recvBuff, sendBuff,
    authed, owner,  \* g_authed, g_authOwner
    thread,         \* where the two threads are in DoAuthRequest and DoAuthRelease
    upset           \* history: clients whose grant something may have undone

clientVars == <<status, call, callNo, online, conns>>
netVars == <<up, down, backlog>>
authVars == <<authed, owner>>
vars == <<clientVars, netVars, slot, recvBuff, sendBuff, authVars, thread, upset>>

Slot == 1 .. MAX_CLIENT_NUM
Connection == Client \X (1 .. MaxConn)
NoConn == <<INVALID_INDEX, 0>>
SysIds == Client \union {NoClient, INVALID_INDEX}
Thread == {"service", "socket"}

Idle == [at |-> "idle", op |-> "none", client |-> NoClient, no |-> 0, todo |-> {}, ok |-> FALSE]

\* sysId of a slot, and whether the client's end of its connection is open.
SysId(i) == slot[i][1]
Open(k) == online[k[1]] /\ conns[k[1]] = k[2]
Current(c) == <<c, conns[c]>>

Init ==
    /\ status = [c \in Client |-> "UNREGISTERED"]
    /\ call = [c \in Client |-> "none"]
    /\ callNo = [c \in Client |-> 0]
    /\ online = [c \in Client |-> FALSE]
    /\ conns = [c \in Client |-> 0]
    /\ up = [k \in Connection |-> <<>>]
    /\ down = [c \in Client |-> <<>>]
    /\ backlog = <<>>
    /\ slot = [i \in Slot |-> NoConn]
    /\ recvBuff = <<>>
    /\ sendBuff = <<>>
    /\ authed = FALSE
    /\ owner = NoClient
    /\ thread = [t \in Thread |-> Idle]
    /\ upset = {}

(***************************************************************************)
(* Clients.                                                                *)
(***************************************************************************)
\* Connections made so far.
Made == {k \in Connection : k[2] <= conns[k[1]]}

\* CreateConnection: a new socket bound to the client's own address.
Connect(c) ==
    /\ ~online[c]
    /\ Cardinality(Made) < MaxConn
    /\ conns' = [conns EXCEPT ![c] = @ + 1]
    /\ online' = [online EXCEPT ![c] = TRUE]
    /\ backlog' = Append(backlog, <<c, conns[c] + 1>>)
    /\ down' = [down EXCEPT ![c] = <<>>]

PWR_Register(c) ==
    /\ status[c] = "UNREGISTERED"
    /\ Connect(c)
    /\ status' = [status EXCEPT ![c] = "REGISTERED"]
    /\ UNCHANGED <<call, callNo, up, slot, recvBuff, sendBuff, authVars, thread, upset>>

\* The clients a change of the daemon's mind matters to: they have the authority, or have
\* asked for it.
Believers == {c \in Client : status[c] = "AUTHED" \/ call[c] = "request"}

\* PWR_UnRegister, or the process ends, in the middle of a call too.  The daemon is not told.
PWR_UnRegister(c) ==
    /\ status[c] # "UNREGISTERED"
    /\ status' = [status EXCEPT ![c] = "UNREGISTERED"]
    /\ online' = [online EXCEPT ![c] = FALSE]
    /\ call' = [call EXCEPT ![c] = "none"]
    /\ down' = [down EXCEPT ![c] = <<>>]
    /\ upset' = upset \ {c}
    /\ UNCHANGED <<callNo, conns, up, backlog, slot, recvBuff, sendBuff, authVars, thread>>

\* The socket thread of the client meets the end of the stream, and connects again after
\* RECONNECTE_INTERVAL.  g_status stays as it is.
NoticeClosed(c) ==
    /\ online[c]
    /\ down[c] = <<>>
    /\ \A i \in Slot : slot[i] # Current(c)
    /\ \A j \in 1 .. Len(backlog) : backlog[j] # Current(c)
    /\ online' = [online EXCEPT ![c] = FALSE]
    /\ UNCHANGED <<status, call, callNo, conns, netVars, slot, recvBuff, sendBuff, authVars,
                   thread, upset>>

Reconnect(c) ==
    /\ status[c] # "UNREGISTERED"
    /\ Connect(c)
    /\ UNCHANGED <<status, call, callNo, up, slot, recvBuff, sendBuff, authVars, thread, upset>>

\* A request goes into the connection.
Send(c, op) ==
    /\ call[c] = "none"
    /\ online[c]
    /\ callNo[c] < MaxCalls
    /\ call' = [call EXCEPT ![c] = op]
    /\ callNo' = [callNo EXCEPT ![c] = @ + 1]
    /\ up' = [up EXCEPT ![Current(c)] = Append(@, [no |-> callNo[c] + 1, op |-> op])]
    /\ UNCHANGED <<status, online, conns, down, backlog, slot, recvBuff, sendBuff, authVars, thread>>

PWR_RequestControlAuth(c) ==
    /\ status[c] # "UNREGISTERED"
    /\ Send(c, "request")
    /\ upset' = IF status[c] = "REGISTERED" THEN upset \ {c} ELSE upset

PWR_ReleaseControlAuth(c) ==
    /\ status[c] = "AUTHED"
    /\ Send(c, "release")
    /\ UNCHANGED upset

\* g_status after a call has ended: a request that succeeded gives the authority, a
\* release that succeeded takes it away, any other end leaves it as it was.
StatusAfter(c, ok) ==
    CASE ok /\ call[c] = "request" -> "AUTHED"
      [] ok /\ call[c] = "release" -> "REGISTERED"
      [] OTHER -> status[c]

\* No answer within two seconds.
CallTimesOut(c) ==
    /\ MayTimeOut
    /\ call[c] # "none"
    /\ status' = [status EXCEPT ![c] = StatusAfter(c, FALSE)]
    /\ call' = [call EXCEPT ![c] = "none"]
    /\ upset' = IF call[c] = "release" THEN upset \union {c} ELSE upset
    /\ UNCHANGED <<callNo, online, conns, netVars, slot, recvBuff, sendBuff, authVars, thread>>

\* An answer arrives: it ends the call with its seqId, or finds nobody and is dropped.
ReceiveAnswer(c) ==
    /\ online[c]
    /\ down[c] # <<>>
    /\ down' = [down EXCEPT ![c] = Tail(@)]
    /\ IF call[c] # "none" /\ Head(down[c]).no = callNo[c]
       THEN /\ status' = [status EXCEPT ![c] = StatusAfter(c, Head(down[c]).ok)]
            /\ call' = [call EXCEPT ![c] = "none"]
       ELSE UNCHANGED <<status, call>>
    /\ UNCHANGED <<callNo, online, conns, up, backlog, slot, recvBuff, sendBuff, authVars, thread,
                   upset>>

ClientStep(c) ==
    \/ PWR_Register(c)
    \/ PWR_UnRegister(c)
    \/ NoticeClosed(c)
    \/ Reconnect(c)
    \/ PWR_RequestControlAuth(c)
    \/ PWR_ReleaseControlAuth(c)
    \/ CallTimesOut(c)
    \/ ReceiveAnswer(c)

(***************************************************************************)
(* DoAuthRequest and DoAuthRelease, in either thread.                      *)
(***************************************************************************)
At(t, where) == thread[t].at = where
Goto(t, where) == thread' = [thread EXCEPT ![t].at = where]
Finish(t, ok) == thread' = [thread EXCEPT ![t].at = "done", ![t].ok = ok]
Change(t) == thread' = [thread EXCEPT ![t].at = "write", ![t].todo = {"authed", "owner"}]

daemonRest == <<clientVars, netVars, slot, recvBuff, sendBuff>>

ReadAuthed_Unchecked(t) ==
    /\ At(t, "readAuthed")
    /\ IF thread[t].op = "release" THEN Goto(t, IF authed THEN "readOwner" ELSE "readAgain")
       ELSE Change(t)
    /\ UNCHANGED <<daemonRest, authVars, upset>>

\* if (g_authed) of DoAuthRequest; the left side of && in DoAuthRelease.
ReadAuthed(t) ==
    /\ At(t, "readAuthed")
    /\ IF authed THEN Goto(t, "readOwner")
       ELSE IF thread[t].op = "request" THEN Change(t) ELSE Goto(t, "readAgain")
    /\ UNCHANGED <<daemonRest, authVars, upset>>

\* The comparison of g_authOwner with the client.
ReadOwner(t) ==
    /\ At(t, "readOwner")
    /\ LET mine == owner = thread[t].client
       IN  IF thread[t].op = "request" THEN Finish(t, mine)
           ELSE IF mine THEN Change(t) ELSE Goto(t, "readAgain")
    /\ UNCHANGED <<daemonRest, authVars, upset>>

\* The second if of DoAuthRelease reads g_authed again.
ReadAuthedAgain(t) ==
    /\ At(t, "readAgain")
    /\ IF authed THEN Finish(t, FALSE)
       ELSE thread' = [thread EXCEPT ![t].at = "write", ![t].todo = {"owner"}]
    /\ UNCHANGED <<daemonRest, authVars, upset>>

\* One of the writes that remain.  What the socket thread writes may undo any grant.
Write(t) ==
    /\ At(t, "write")
    /\ \E v \in thread[t].todo :
          LET left == thread[t].todo \ {v}
              grant == thread[t].op = "request"
          IN  /\ authed' = IF v = "authed" THEN grant ELSE authed
              /\ owner' = IF v = "owner" THEN IF grant THEN thread[t].client ELSE NoClient ELSE owner
              /\ IF left = {} THEN thread' = [thread EXCEPT ![t].at = "done", ![t].todo = {}, ![t].ok = TRUE]
                 ELSE thread' = [thread EXCEPT ![t].todo = left]
    /\ upset' = IF t = "socket" THEN upset \union Believers ELSE upset
    /\ UNCHANGED daemonRest

AuthStep(t) ==
    \/ ReadAuthed(t)
    \/ ReadOwner(t)
    \/ ReadAuthedAgain(t)
    \/ Write(t)

(***************************************************************************)
(* The service thread.                                                     *)
(***************************************************************************)
ProcessReqMsg ==
    /\ At("service", "idle")
    /\ recvBuff # <<>>
    /\ LET req == Head(recvBuff)
       IN  thread' = [thread EXCEPT !["service"] =
                        [Idle EXCEPT !.at = "readAuthed", !.op = req.op, !.client = req.client, !.no = req.no]]
    /\ recvBuff' = Tail(recvBuff)
    /\ UNCHANGED <<clientVars, netVars, slot, sendBuff, authVars, upset>>

SendRspToClient ==
    /\ At("service", "done")
    /\ LET s == thread["service"]
       IN  sendBuff' = Append(sendBuff, [client |-> s.client, no |-> s.no, ok |-> s.ok])
    /\ thread' = [thread EXCEPT !["service"] = Idle]
    /\ UNCHANGED <<clientVars, netVars, slot, recvBuff, authVars, upset>>

(***************************************************************************)
(* The socket thread.                                                      *)
(***************************************************************************)
SlotsOf(c) == {i \in Slot : SysId(i) = c}
FreeSlots == {i \in Slot : slot[i] = NoConn}
First(S) == CHOOSE i \in S : \A j \in S : i <= j

AcceptConnection_NewSlot ==
    /\ At("socket", "idle")
    /\ backlog # <<>>
    /\ backlog' = Tail(backlog)
    /\ IF FreeSlots # {} THEN slot' = [slot EXCEPT ![First(FreeSlots)] = Head(backlog)]
       ELSE UNCHANGED slot
    /\ UNCHANGED <<clientVars, up, down, recvBuff, sendBuff, authVars, thread, upset>>

\* AddToClientList: a known client gets its new fd in its old slot, another one the
\* first free slot; with no slot left the connection is closed.
AcceptConnection ==
    /\ At("socket", "idle")
    /\ backlog # <<>>
    /\ backlog' = Tail(backlog)
    /\ LET k == Head(backlog)
       IN  IF SlotsOf(k[1]) # {} THEN slot' = [slot EXCEPT ![First(SlotsOf(k[1]))] = k]
           ELSE IF FreeSlots # {} THEN slot' = [slot EXCEPT ![First(FreeSlots)] = k]
           ELSE UNCHANGED slot
    /\ UNCHANGED <<clientVars, up, down, recvBuff, sendBuff, authVars, thread, upset>>

ProcessRecvMsgFromClient_FirstSlot(i) ==
    /\ At("socket", "idle")
    /\ slot[i] # NoConn
    /\ up[slot[i]] # <<>>
    /\ LET req == Head(up[slot[i]])
       IN  recvBuff' = Append(recvBuff, [client |-> SysId(1), no |-> req.no, op |-> req.op])
    /\ up' = [up EXCEPT ![slot[i]] = Tail(@)]
    /\ UNCHANGED <<clientVars, down, backlog, slot, sendBuff, authVars, thread, upset>>

ProcessRecvMsgFromClient(i) ==
    /\ At("socket", "idle")
    /\ slot[i] # NoConn
    /\ up[slot[i]] # <<>>
    /\ LET req == Head(up[slot[i]])
       IN  recvBuff' = Append(recvBuff, [client |-> SysId(i), no |-> req.no, op |-> req.op])
    /\ up' = [up EXCEPT ![slot[i]] = Tail(@)]
    /\ UNCHANGED <<clientVars, down, backlog, slot, sendBuff, authVars, thread, upset>>

\* ReadMsg meets the end of the stream of slot i.  CleanClientResource is given
\* g_pwrClients, the first slot, and i: CleanControlAuth is for the client of the first.
ReadEndOfStream(i) ==
    /\ At("socket", "idle")
    /\ slot[i] # NoConn
    /\ ~Open(slot[i])
    /\ up[slot[i]] = <<>>
    /\ thread' = [thread EXCEPT !["socket"] =
                    [Idle EXCEPT !.at = "readAuthed", !.op = "release", !.client = SysId(1), !.no = i]]
    /\ UNCHANGED <<clientVars, netVars, slot, recvBuff, sendBuff, authVars, upset>>

DeleteFromClientList ==
    /\ At("socket", "done")
    /\ slot' = [slot EXCEPT ![thread["socket"].no] = NoConn]
    /\ thread' = [thread EXCEPT !["socket"] = Idle]
    /\ UNCHANGED <<clientVars, netVars, recvBuff, sendBuff, authVars, upset>>

\* The daemon dies and systemd starts it again (Restart=always): everything it knew is gone.
Restart ==
    /\ slot' = [i \in Slot |-> NoConn]
    /\ recvBuff' = <<>> /\ sendBuff' = <<>>
    /\ authed' = FALSE /\ owner' = NoClient
    /\ thread' = [t \in Thread |-> Idle]
    /\ backlog' = <<>>
    /\ up' = [k \in Connection |-> <<>>]
    /\ upset' = upset \union Believers
    /\ UNCHANGED <<clientVars, down>>

\* ProcessSendMsgToClient: an answer for a client that has no slot is dropped; writing to
\* a connection whose client has gone raises SIGPIPE, which nothing handles.
ProcessSendMsgToClient ==
    /\ At("socket", "idle")
    /\ sendBuff # <<>>
    /\ LET rsp == Head(sendBuff)
           dst == SlotsOf(rsp.client)
       IN  \/ /\ dst = {}
              /\ sendBuff' = Tail(sendBuff)
              /\ UNCHANGED <<clientVars, netVars, slot, recvBuff, authVars, thread, upset>>
           \/ /\ dst # {} /\ Open(slot[First(dst)])
              /\ sendBuff' = Tail(sendBuff)
              /\ down' = [down EXCEPT ![rsp.client] = Append(@, [no |-> rsp.no, ok |-> rsp.ok])]
              /\ UNCHANGED <<clientVars, up, backlog, slot, recvBuff, authVars, thread, upset>>
           \/ /\ dst # {} /\ ~Open(slot[First(dst)])
              /\ Restart

DaemonStep ==
    \/ \E t \in Thread : AuthStep(t)
    \/ ProcessReqMsg
    \/ SendRspToClient
    \/ AcceptConnection
    \/ \E i \in Slot : ProcessRecvMsgFromClient(i) \/ ReadEndOfStream(i)
    \/ DeleteFromClientList
    \/ ProcessSendMsgToClient

Next ==
    \/ \E c \in Client : ClientStep(c)
    \/ DaemonStep

Spec == Init /\ [][Next]_vars

(***************************************************************************)
(* Properties.                                                             *)
(***************************************************************************)
Op == {"none", "request", "release"}

TypeOK ==
    /\ status \in [Client -> {"UNREGISTERED", "REGISTERED", "AUTHED"}]
    /\ call \in [Client -> Op]
    /\ callNo \in [Client -> 0 .. MaxCalls]
    /\ online \in [Client -> BOOLEAN]
    /\ conns \in [Client -> 0 .. MaxConn]
    /\ DOMAIN up = Connection /\ DOMAIN down = Client
    /\ \A j \in 1 .. Len(backlog) : backlog[j] \in Connection
    /\ slot \in [Slot -> Connection \union {NoConn}]
    /\ \A j \in 1 .. Len(recvBuff) : recvBuff[j].client \in Client /\ recvBuff[j].op \in Op
    /\ \A j \in 1 .. Len(sendBuff) : sendBuff[j].client \in Client /\ sendBuff[j].ok \in BOOLEAN
    /\ authed \in BOOLEAN
    /\ owner \in SysIds
    /\ \A t \in Thread : thread[t].client \in SysIds /\ thread[t].op \in Op
    /\ upset \subseteq Client

\* A client that believes it has control has it: the daemon is authed with it as owner.
\* The only exceptions are a client in the middle of its release and one that is upset:
\* its release timed out, the daemon restarted, or the socket thread cleaned up after a
\* client since it asked.
ControlIsHeld ==
    \A c \in Client :
        (status[c] = "AUTHED" /\ call[c] # "release" /\ c \notin upset) => (authed /\ owner = c)

\* A client has at most one slot, through any order of reconnecting, accepting, noticing
\* the old end of stream and cleaning up: an answer can only go to its newest connection
\* the daemon knows of.
OneSlotPerClient == \A c \in Client : Cardinality(SlotsOf(c)) <= 1
=============================================================================
