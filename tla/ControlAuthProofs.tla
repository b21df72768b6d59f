------------------------- MODULE ControlAuthProofs -------------------------
(***************************************************************************)
(* Proofs about the control authority, for any number of apps, slots,      *)
(* connections and calls.  The argument that an app which believes to have *)
(* control has it goes through the numbers of its calls: requests of an    *)
(* app reach the service thread in the order of their numbers, through     *)
(* however many connections, so that no old release is behind a request    *)
(* that was granted.                                                       *)
(***************************************************************************)
EXTENDS ControlAuth, FiniteSetTheorems, TLAPS

(***************************************************************************)
(* Sequences and their elements.                                           *)
(***************************************************************************)
Elems(q) == {q[j] : j \in 1 .. Len(q)}

LEMMA EmptyElems == Elems(<<>>) = {}
  BY DEF Elems

LEMMA AppendElems ==
    ASSUME NEW S, NEW q \in Seq(S), NEW e \in S
    PROVE  /\ Append(q, e) \in Seq(S)
           /\ Elems(Append(q, e)) = Elems(q) \union {e}
  <1>1. /\ Append(q, e) \in Seq(S) /\ Len(Append(q, e)) = Len(q) + 1 /\ Len(q) \in Nat
        /\ \A j \in 1 .. Len(q) : Append(q, e)[j] = q[j]
        /\ Append(q, e)[Len(q) + 1] = e
    OBVIOUS
  <1> QED
    BY <1>1 DEF Elems

LEMMA TailElems ==
    ASSUME NEW S, NEW q \in Seq(S), q # <<>>
    PROVE  /\ Head(q) \in S /\ Head(q) \in Elems(q)
           /\ Tail(q) \in Seq(S) /\ Elems(Tail(q)) \subseteq Elems(q)
           /\ \A x \in Elems(Tail(q)) : \E j \in 1 .. Len(q) : 1 < j /\ x = q[j]
           /\ \A j \in 1 .. Len(Tail(q)) : j + 1 \in 1 .. Len(q) /\ Tail(q)[j] = q[j + 1]
  <1>1. /\ Len(q) \in Nat /\ Len(q) > 0 /\ Head(q) = q[1] /\ 1 \in 1 .. Len(q) /\ q[1] \in S
        /\ Tail(q) \in Seq(S) /\ Len(Tail(q)) = Len(q) - 1
        /\ \A j \in 1 .. Len(Tail(q)) : j + 1 \in 1 .. Len(q) /\ Tail(q)[j] = q[j + 1]
    OBVIOUS
  <1>2. \A x \in Elems(Tail(q)) : \E j \in 1 .. Len(q) : 1 < j /\ x = q[j]
    BY <1>1 DEF Elems
  <1> QED
    BY <1>1, <1>2 DEF Elems

LEMMA ElemsIn ==
    ASSUME NEW S, NEW q \in Seq(S)
    PROVE  Elems(q) \subseteq S
  BY DEF Elems

\* The least slot of a set of slots.
LEMMA FirstSlot ==
    ASSUME NEW S, S \subseteq Slot, S # {}
    PROVE  First(S) \in S
  <1> DEFINE R == {p \in Nat \X Nat : p[1] < p[2]}
  <1>1. IsWellFoundedOn(R, Nat)
    BY NatLessThanWellFounded DEF OpToRel
  <1> HIDE DEF R
  <1>2. S \subseteq Nat
    BY ControlAuthAssumption DEF Slot
  <1>3. PICK x \in S : \A y \in S : <<y, x>> \notin R
    BY <1>1, <1>2, WFMin
  <1>4. \A a, b \in Nat : a < b => <<a, b>> \in R
    BY DEF R
  <1>5. \A y \in S : ~(y < x)
    BY <1>2, <1>3, <1>4
  <1>6. \A y \in S : x <= y
    BY <1>2, <1>5
  <1> QED
    BY <1>6 DEF First

(***************************************************************************)
(* The inductive invariant: types.                                         *)
(***************************************************************************)
Req == [client : Client, no : Nat, op : {"request", "release"}]
Msg == [no : Nat, op : {"request", "release"}]
Rsp == [client : Client, no : Nat, ok : BOOLEAN]
Ans == [no : Nat, ok : BOOLEAN]
ThreadType ==
    [at : {"idle", "readAuthed", "readOwner", "readAgain", "write", "done"}, op : Op,
     client : SysIds, no : Nat, todo : SUBSET {"authed", "owner"}, ok : BOOLEAN]

ClientTypes ==
    /\ status \in [Client -> {"UNREGISTERED", "REGISTERED", "AUTHED"}]
    /\ call \in [Client -> Op]
    /\ callNo \in [Client -> 0 .. MaxCalls]
    /\ upset \subseteq Client

ConnTypes ==
    /\ online \in [Client -> BOOLEAN]
    /\ conns \in [Client -> 0 .. MaxConn]
    /\ IsFiniteSet(Made)

NetTypes ==
    /\ up \in [Connection -> Seq(Msg)]
    /\ down \in [Client -> Seq(Ans)]
    /\ backlog \in Seq(Connection)
    /\ slot \in [Slot -> Connection \union {NoConn}]
    /\ recvBuff \in Seq(Req)
    /\ sendBuff \in Seq(Rsp)

DaemonTypes ==
    /\ authed \in BOOLEAN
    /\ owner \in SysIds
    /\ thread \in [Thread -> ThreadType]

StateTypes == ClientTypes /\ ConnTypes /\ NetTypes /\ DaemonTypes

(***************************************************************************)
(* Connections: one slot of an app, and newer connections are behind older *)
(* ones.                                                                   *)
(***************************************************************************)
\* Connections the daemon will still read from.
Live(k) == (\E i \in Slot : slot[i] = k) \/ k \in Elems(backlog)

ConnGood ==
    /\ \A i, j \in Slot : (SysId(i) = SysId(j) /\ SysId(i) # INVALID_INDEX) => i = j
    /\ \A i \in Slot : \A b \in Elems(backlog) : SysId(i) = b[1] => slot[i][2] < b[2]
    /\ \A i, j \in 1 .. Len(backlog) :
          (i < j /\ backlog[i][1] = backlog[j][1]) => backlog[i][2] < backlog[j][2]
    /\ \A k \in Connection : Live(k) => k[2] <= conns[k[1]]
    /\ \A k \in Connection : k[2] > conns[k[1]] => up[k] = <<>>

(***************************************************************************)
(* Requests: their numbers grow from the service thread to the app.        *)
(***************************************************************************)
\* What is known of a request of app c: if it is that of its present call it asks for that.
Known(c, no, op) ==
    /\ no <= callNo[c]
    /\ (no = callNo[c] /\ call[c] # "none") => op = call[c]

UpGood ==
    /\ \A k \in Connection : \A m \in Elems(up[k]) : Known(k[1], m.no, m.op)
    /\ \A k \in Connection : \A i, j \in 1 .. Len(up[k]) : i < j => up[k][i].no < up[k][j].no
    /\ \A k, l \in Connection : (k[1] = l[1] /\ k[2] < l[2]) =>
          \A m \in Elems(up[k]), n \in Elems(up[l]) : m.no < n.no

RecvGood ==
    /\ \A r \in Elems(recvBuff) : Known(r.client, r.no, r.op)
    /\ \A i, j \in 1 .. Len(recvBuff) :
          (i < j /\ recvBuff[i].client = recvBuff[j].client) => recvBuff[i].no < recvBuff[j].no
    /\ \A r \in Elems(recvBuff), k \in Connection :
          (k[1] = r.client /\ Live(k)) => \A m \in Elems(up[k]) : r.no < m.no

\* The requests of app c that the service thread may still get.
Pending(c) ==
    {[no |-> r.no, op |-> r.op] : r \in {q \in Elems(recvBuff) : q.client = c}}
      \union UNION {Elems(up[k]) : k \in {l \in Connection : l[1] = c /\ Live(l)}}

Service == thread["service"]

ServiceGood ==
    Service.at # "idle" =>
        /\ Service.client \in Client /\ Service.op \in {"request", "release"}
        /\ Service.at = "readAgain" => Service.op # "request"
        /\ Known(Service.client, Service.no, Service.op)
        /\ \A p \in Pending(Service.client) : Service.no < p.no

\* The answers that are on the way to app c.
Answers(c) ==
    {[no |-> a.no, ok |-> a.ok] : a \in {b \in Elems(sendBuff) : b.client = c}} \union Elems(down[c])

AnswersGood == \A c \in Client : \A a \in Answers(c) : a.no <= callNo[c]

(***************************************************************************)
(* The authority.  An app that is not upset keeps what it was granted, and *)
(* while its release is under way the daemon will find it the owner.       *)
(***************************************************************************)
Serves(c) == Service.at # "idle" /\ Service.client = c
Serving(c) == Serves(c) /\ Service.no = callNo[c]

Kept(c) ==
    /\ authed /\ owner = c
    /\ Service.at # "write"
    /\ ~(Serves(c) /\ Service.op = "release")

Firm(c) == Kept(c) /\ \A p \in Pending(c) : p.op # "release"

Granted(c) ==
    \/ \E a \in Answers(c) : a.no = callNo[c] /\ a.ok
    \/ Serving(c) /\ Service.at = "done" /\ Service.ok

Holds(c) ==
    (c \notin upset /\ status[c] = "AUTHED" /\ call[c] # "release") => Firm(c)

Asks(c) ==
    (c \notin upset /\ call[c] = "request") =>
        /\ Granted(c) => Firm(c)
        /\ Serving(c) /\ Service.at = "readOwner" => authed
        /\ Serving(c) /\ Service.at = "write" =>
              /\ "authed" \in Service.todo \/ authed
              /\ "owner" \in Service.todo \/ owner = c

Releases(c) ==
    (c \notin upset /\ status[c] = "AUTHED" /\ call[c] = "release") =>
        /\ \A a \in Answers(c) : a.no = callNo[c] => a.ok
        /\ Serving(c) =>
              /\ Service.at # "readAgain"
              /\ Service.at = "done" => Service.ok
              /\ Service.at \in {"readAuthed", "readOwner"} => authed /\ owner = c
        /\ (\E p \in Pending(c) : p.no = callNo[c]) => Kept(c)
        /\ \A p \in Pending(c) : p.op = "release" => p.no = callNo[c]

Claims(c) == Holds(c) /\ Asks(c) /\ Releases(c)

Flow == UpGood /\ RecvGood /\ ServiceGood /\ AnswersGood
Inv == StateTypes /\ ConnGood /\ Flow /\ \A c \in Client : Claims(c)

LEMMA ConnectionFacts ==
    /\ \A k \in Connection : k[1] \in Client /\ k[2] \in Nat /\ k[1] # INVALID_INDEX /\ k # NoConn
    /\ NoConn \notin Connection
    /\ NoConn[1] = INVALID_INDEX /\ NoConn[2] = 0
  BY ControlAuthAssumption DEF Connection, NoConn

LEMMA PendingFacts ==
    ASSUME NEW c, NEW p
    PROVE  p \in Pending(c) <=>
             \/ \E r \in Elems(recvBuff) : r.client = c /\ p = [no |-> r.no, op |-> r.op]
             \/ \E k \in Connection : k[1] = c /\ Live(k) /\ p \in Elems(up[k])
  BY DEF Pending

LEMMA AnswersFacts ==
    ASSUME NEW c, NEW p
    PROVE  p \in Answers(c) <=>
             \/ \E a \in Elems(sendBuff) : a.client = c /\ p = [no |-> a.no, ok |-> a.ok]
             \/ p \in Elems(down[c])
  BY DEF Answers

(***************************************************************************)
(* Requests while calls begin and end and connections change.              *)
(***************************************************************************)
\* A call that ends, or a new one with a number of its own.
CallMoves(c) ==
    \/ callNo'[c] = callNo[c] /\ call'[c] \in {call[c], "none"}
    \/ callNo'[c] = callNo[c] + 1

LEMMA KnownStays ==
    ASSUME StateTypes, StateTypes', NEW c \in Client, CallMoves(c),
           NEW no \in Nat, NEW op, Known(c, no, op)
    PROVE  Known(c, no, op)'
  <1>1. callNo[c] \in Nat /\ callNo'[c] \in Nat
    BY ControlAuthAssumption DEF StateTypes, ClientTypes
  <1>2. CASE callNo'[c] = callNo[c] /\ call'[c] \in {call[c], "none"}
    BY <1>2 DEF Known
  <1>3. CASE callNo'[c] = callNo[c] + 1
    <2>1. no <= callNo[c]
      BY DEF Known
    <2>2. no <= callNo'[c] /\ no # callNo'[c]
      BY <1>1, <1>3, <2>1
    <2> QED
      BY <2>2 DEF Known
  <1> QED
    BY <1>2, <1>3 DEF CallMoves

LEMMA FlowTypes ==
    ASSUME StateTypes
    PROVE  /\ \A k \in Connection : Elems(up[k]) \subseteq Msg
           /\ Elems(recvBuff) \subseteq Req
           /\ Elems(sendBuff) \subseteq Rsp
           /\ \A c \in Client : Elems(down[c]) \subseteq Ans
           /\ \A c : Pending(c) \subseteq Msg
           /\ \A c \in Client : Answers(c) \subseteq Ans
  <1>1. \A k \in Connection : Elems(up[k]) \subseteq Msg
    BY ElemsIn DEF StateTypes, NetTypes
  <1>2. Elems(recvBuff) \subseteq Req
    BY ElemsIn DEF StateTypes, NetTypes
  <1>3. Elems(sendBuff) \subseteq Rsp
    BY ElemsIn DEF StateTypes, NetTypes
  <1>4. \A c \in Client : Elems(down[c]) \subseteq Ans
    BY ElemsIn DEF StateTypes, NetTypes
  <1>5. \A c : Pending(c) \subseteq Msg
    <2> SUFFICES ASSUME NEW c, NEW p \in Pending(c) PROVE p \in Msg
      OBVIOUS
    <2>1. ASSUME NEW r \in Elems(recvBuff), p = [no |-> r.no, op |-> r.op] PROVE p \in Msg
      BY <1>2, <2>1 DEF Req, Msg
    <2> QED
      BY <1>1, <2>1, PendingFacts
  <1>6. \A c \in Client : Answers(c) \subseteq Ans
    <2> SUFFICES ASSUME NEW c \in Client, NEW p \in Answers(c) PROVE p \in Ans
      OBVIOUS
    <2>1. ASSUME NEW a \in Elems(sendBuff), p = [no |-> a.no, ok |-> a.ok] PROVE p \in Ans
      BY <1>3, <2>1 DEF Rsp, Ans
    <2> QED
      BY <1>4, <2>1, AnswersFacts
  <1> QED
    BY <1>1, <1>2, <1>3, <1>4, <1>5, <1>6

\* No request moves, and no connection that holds one comes back to life.
LEMMA FlowStays ==
    ASSUME StateTypes, StateTypes', UpGood, RecvGood, UNCHANGED <<up, recvBuff>>,
           \A c \in Client : CallMoves(c),
           \A k \in Connection : Live(k)' => Live(k) \/ up[k] = <<>>
    PROVE  UpGood' /\ RecvGood' /\ \A c : Pending(c)' \subseteq Pending(c)
  <1>1. UpGood'
    <2>1. ASSUME NEW k \in Connection, NEW m \in Elems(up[k]) PROVE Known(k[1], m.no, m.op)'
      BY FlowTypes, ConnectionFacts, KnownStays DEF UpGood, Msg
    <2> QED
      BY <2>1 DEF UpGood
  <1>2. RecvGood'
    <2>1. ASSUME NEW r \in Elems(recvBuff) PROVE Known(r.client, r.no, r.op)'
      BY FlowTypes, KnownStays DEF RecvGood, Req
    <2>2. ASSUME NEW r \in Elems(recvBuff), NEW k \in Connection, k[1] = r.client, Live(k)',
                 NEW m \in Elems(up[k])
          PROVE  r.no < m.no
      BY <2>2, EmptyElems DEF RecvGood
    <2> QED
      BY <2>1, <2>2 DEF RecvGood
  <1>3. ASSUME NEW c, NEW p \in Pending(c)' PROVE p \in Pending(c)
    <2>1. \/ \E r \in Elems(recvBuff) : r.client = c /\ p = [no |-> r.no, op |-> r.op]
          \/ \E k \in Connection : k[1] = c /\ Live(k)' /\ p \in Elems(up[k])
      BY <1>3 DEF Pending
    <2> QED
      BY <2>1, PendingFacts, EmptyElems
  <1> QED
    BY <1>1, <1>2, <1>3

\* The service thread keeps its request or is through with it, and no request is added.
LEMMA ServiceStays ==
    ASSUME StateTypes, StateTypes', ServiceGood,
           \A c \in Client : CallMoves(c),
           \A c : Pending(c)' \subseteq Pending(c),
           \/ Service' = Service
           \/ Service'.at = "idle"
           \/ /\ Service.at # "idle" /\ Service'.client = Service.client
              /\ Service'.no = Service.no /\ Service'.op = Service.op
              /\ Service'.at = "readAgain" => Service.op # "request"
    PROVE  ServiceGood'
  <1> SUFFICES ASSUME Service'.at # "idle" PROVE ServiceGood'
    BY DEF ServiceGood
  <1>1. Service.at # "idle" /\ Service.no \in Nat
    BY DEF StateTypes, DaemonTypes, Thread, ThreadType, Service
  <1>2. Known(Service.client, Service.no, Service.op)'
    BY <1>1, KnownStays DEF ServiceGood
  <1> QED
    BY <1>1, <1>2 DEF ServiceGood, Known

LEMMA AnswersStay ==
    ASSUME StateTypes, StateTypes', AnswersGood,
           \A c \in Client : CallMoves(c),
           \A c \in Client : Answers(c)' \subseteq Answers(c)
    PROVE  AnswersGood'
  <1> SUFFICES ASSUME NEW c \in Client, NEW a \in Answers(c)' PROVE a.no <= callNo'[c]
    BY DEF AnswersGood
  <1>1. a \in Answers(c) /\ a.no \in Nat
    BY FlowTypes DEF Ans
  <1>2. a.no <= callNo[c] /\ callNo[c] \in Nat /\ callNo'[c] \in Nat
    BY <1>1, ControlAuthAssumption DEF AnswersGood, StateTypes, ClientTypes
  <1>3. callNo'[c] = callNo[c] \/ callNo'[c] = callNo[c] + 1
    BY DEF CallMoves
  <1> QED
    BY <1>1, <1>2, <1>3

LEMMA PendingSame ==
    ASSUME UNCHANGED <<up, recvBuff, slot, backlog>>
    PROVE  (\A k : Live(k)' <=> Live(k)) /\ \A c : Pending(c)' = Pending(c)
  <1>1. \A k : Live(k)' <=> Live(k)
    BY DEF Live
  <1> QED
    BY <1>1 DEF Pending

(***************************************************************************)
(* The claims of an app.                                                   *)
(***************************************************************************)
\* An app that has no control and asks for none, or is upset, claims nothing.
LEMMA NoClaims ==
    ASSUME NEW c, c \in upset' \/ (status'[c] # "AUTHED" /\ call'[c] # "request")
    PROVE  Claims(c)'
  BY DEF Claims, Holds, Asks, Releases

\* The daemon stands still; the app stays as it is, or its call ends.
LEMMA ClaimsEase ==
    ASSUME StateTypes, NEW c \in Client, Claims(c),
           authed' = authed, owner' = owner, Service' = Service, callNo'[c] = callNo[c],
           Pending(c)' \subseteq Pending(c), Answers(c)' \subseteq Answers(c),
           c \in upset => c \in upset',
           \/ call'[c] = call[c] /\ (status'[c] = status[c] \/ status'[c] # "AUTHED")
           \/ call[c] # "release" /\ call'[c] = "none" /\ status'[c] = status[c]
           \/ call[c] = "request" /\ call'[c] = "none" /\ Granted(c)
    PROVE  Claims(c)'
  <1> SUFFICES ASSUME c \notin upset' PROVE Claims(c)'
    BY DEF Claims, Holds, Asks, Releases
  <1>0. c \notin upset
    OBVIOUS
  <1>1. (Kept(c)' <=> Kept(c)) /\ (Serving(c)' <=> Serving(c)) /\ (Firm(c) => Firm(c)')
    BY DEF Kept, Serving, Serves, Firm
  <1>2. Granted(c)' => Granted(c)
    BY <1>1 DEF Granted
  <1>3. CASE call'[c] = call[c] /\ (status'[c] = status[c] \/ status'[c] # "AUTHED")
    <2>1. Holds(c)'
      BY <1>0, <1>1, <1>3 DEF Claims, Holds
    <2>2. Asks(c)'
      BY <1>0, <1>1, <1>2, <1>3 DEF Claims, Asks
    <2>3. Releases(c)'
      BY <1>0, <1>1, <1>3 DEF Claims, Releases
    <2> QED
      BY <2>1, <2>2, <2>3 DEF Claims
  <1>4. CASE call[c] # "release" /\ call'[c] = "none" /\ status'[c] = status[c]
    <2>1. Holds(c)'
      BY <1>0, <1>1, <1>4 DEF Claims, Holds
    <2> QED
      BY <1>4, <2>1 DEF Claims, Asks, Releases
  <1>5. CASE call[c] = "request" /\ call'[c] = "none" /\ Granted(c)
    <2>1. Firm(c)'
      BY <1>0, <1>1, <1>5 DEF Claims, Asks
    <2> QED
      BY <1>5, <2>1 DEF Claims, Holds, Asks, Releases
  <1> QED
    BY <1>3, <1>4, <1>5

(***************************************************************************)
(* Connections that are made.                                              *)
(***************************************************************************)
LEMMA MadeBound ==
    ASSUME ConnTypes, NEW c \in Client, Cardinality(Made) < MaxConn
    PROVE  conns[c] + 1 \in 1 .. MaxConn
  <1> DEFINE n == conns[c]
             D == {<<c, i>> : i \in 1 .. n}
             f == [i \in 1 .. n |-> <<c, i>>]
  <1>1. n \in Nat /\ n <= MaxConn /\ MaxConn \in Nat
    BY ControlAuthAssumption DEF ConnTypes
  <1>2. D \in SUBSET Made
    BY <1>1 DEF Made, Connection
  <1>3. ExistsBijection(1 .. n, D)
    <2>1. f \in [1 .. n -> D] /\ (\A i, j \in 1 .. n : f[i] = f[j] => i = j)
          /\ \A d \in D : \E i \in 1 .. n : f[i] = d
      OBVIOUS
    <2>2. f \in Bijection(1 .. n, D)
      BY <2>1 DEF Bijection, Injection, Surjection, IsInjective
    <2> QED
      BY <2>2 DEF ExistsBijection
  <1> HIDE DEF n, D
  <1>4. IsFiniteSet(1 .. n) /\ Cardinality(1 .. n) = n
    <2>1. 1 \in Int /\ n \in Int
      BY <1>1
    <2>2. IsFiniteSet(1 .. n) /\ Cardinality(1 .. n) = IF 1 > n THEN 0 ELSE n - 1 + 1
      BY <2>1, FS_Interval, Zenon
    <2> QED
      BY <1>1, <2>2
  <1>5. Cardinality(D) = n
    BY <1>3, <1>4, FS_Bijection
  <1>6. Cardinality(D) <= Cardinality(Made) /\ Cardinality(Made) \in Nat
    BY <1>2, FS_Subset, FS_CardinalityType DEF ConnTypes
  <1>7. n + 1 \in 1 .. MaxConn
    BY <1>1, <1>5, <1>6
  <1> QED
    BY <1>7 DEF n

LEMMA ConnectTypes ==
    ASSUME StateTypes, NEW c \in Client, Connect(c)
    PROVE  /\ <<c, conns[c] + 1>> \in Connection
           /\ ConnTypes' /\ backlog' \in Seq(Connection) /\ down' \in [Client -> Seq(Ans)]
           /\ Elems(backlog') = Elems(backlog) \union {<<c, conns[c] + 1>>}
  <1> DEFINE k == <<c, conns[c] + 1>>
  <1>1. conns[c] + 1 \in 1 .. MaxConn
    BY MadeBound DEF Connect, StateTypes
  <1>2. k \in Connection
    BY <1>1 DEF Connection
  <1>3. online' \in [Client -> BOOLEAN] /\ conns' \in [Client -> 0 .. MaxConn]
    BY <1>1, ControlAuthAssumption DEF Connect, StateTypes, ConnTypes
  <1>4. \A l \in Connection : l[2] <= conns'[l[1]] => l = k \/ l[2] <= conns[l[1]]
    <2>1. ASSUME NEW l \in Connection, l[2] <= conns'[l[1]], ~(l[2] <= conns[l[1]]) PROVE l = k
      <3>1. l[1] \in Client /\ l[2] \in Nat /\ l = <<l[1], l[2]>>
        BY ControlAuthAssumption DEF Connection
      <3>2. l[1] = c
        BY <2>1, <3>1 DEF Connect, StateTypes, ConnTypes
      <3>3. conns'[c] = conns[c] + 1 /\ conns[c] \in Nat
        BY DEF Connect, StateTypes, ConnTypes
      <3>4. l[2] = conns[c] + 1
        BY <2>1, <3>1, <3>2, <3>3
      <3> QED
        BY <3>1, <3>2, <3>4
    <2> QED
      BY <2>1
  <1>5. Made' \in SUBSET (Made \union {k})
    BY <1>4 DEF Made
  <1>6. IsFiniteSet(Made \union {k})
    BY FS_AddElement DEF StateTypes, ConnTypes
  <1>7. IsFiniteSet(Made')
    BY <1>5, <1>6, FS_Subset
  <1>8. backlog' = Append(backlog, k) /\ backlog \in Seq(Connection)
    BY DEF Connect, StateTypes, NetTypes
  <1> HIDE DEF k
  <1>9. backlog' \in Seq(Connection) /\ Elems(backlog') = Elems(backlog) \union {k}
    BY <1>2, <1>8, AppendElems
  <1>10. down' \in [Client -> Seq(Ans)]
    BY DEF Connect, StateTypes, NetTypes
  <1> QED
    BY <1>2, <1>3, <1>7, <1>9, <1>10 DEF ConnTypes, k

LEMMA ConnectGood ==
    ASSUME StateTypes, ConnGood, NEW c \in Client, Connect(c), UNCHANGED <<up, slot>>
    PROVE  /\ ConnGood'
           /\ \A l \in Connection : Live(l)' => Live(l) \/ up[l] = <<>>
  <1> DEFINE k == <<c, conns[c] + 1>>
  <1>1. /\ k \in Connection /\ Elems(backlog') = Elems(backlog) \union {k}
        /\ k[1] = c /\ k[2] = conns[c] + 1
        /\ backlog' = Append(backlog, k) /\ backlog \in Seq(Connection)
    BY ConnectTypes DEF Connect, StateTypes, NetTypes
  <1>2. /\ \A d \in Client : conns[d] \in Nat /\ conns'[d] \in Nat /\ conns[d] <= conns'[d]
        /\ conns'[c] = k[2]
    BY <1>1, ControlAuthAssumption DEF Connect, StateTypes, ConnTypes
  <1> HIDE DEF k
  <1>3. \A l \in Connection : Live(l)' => Live(l) \/ l = k
    BY <1>1 DEF Live
  <1>4. up[k] = <<>>
    BY <1>1, <1>2 DEF ConnGood
  <1>5. ASSUME NEW l \in Connection, Live(l), l[1] = c PROVE l[2] < k[2]
    BY <1>1, <1>2, <1>5, ConnectionFacts DEF ConnGood
  <1>6. ASSUME NEW i \in Slot, NEW b \in Elems(backlog'), SysId(i) = b[1]
        PROVE  slot[i][2] < b[2]
    <2>1. CASE b \in Elems(backlog)
      BY <1>6, <2>1 DEF ConnGood
    <2>2. CASE b = k
      <3>1. slot[i] \in Connection
        BY <1>1, <1>6, <2>2, ConnectionFacts, ControlAuthAssumption DEF SysId, StateTypes, NetTypes
      <3> QED
        BY <1>1, <1>5, <1>6, <2>2, <3>1 DEF Live, SysId
    <2> QED
      BY <1>1, <2>1, <2>2
  <1>7. ASSUME NEW i \in 1 .. Len(backlog'), NEW j \in 1 .. Len(backlog'), i < j,
               backlog'[i][1] = backlog'[j][1]
        PROVE  backlog'[i][2] < backlog'[j][2]
    <2>1. /\ Len(backlog') = Len(backlog) + 1 /\ Len(backlog) \in Nat
          /\ \A a \in 1 .. Len(backlog) : backlog'[a] = backlog[a]
          /\ backlog'[Len(backlog) + 1] = k
      BY <1>1
    <2>2. i \in 1 .. Len(backlog)
      BY <1>7, <2>1
    <2>3. CASE j \in 1 .. Len(backlog)
      BY <1>7, <2>1, <2>2, <2>3 DEF ConnGood
    <2>4. CASE j = Len(backlog) + 1
      <3>1. backlog[i] \in Connection /\ Live(backlog[i]) /\ backlog[i][1] = c
        BY <1>1, <1>7, <2>1, <2>2, <2>4 DEF Live, Elems
      <3> QED
        BY <1>5, <2>1, <2>2, <2>4, <3>1
    <2> QED
      BY <1>7, <2>1, <2>3, <2>4
  <1>8. \A l \in Connection : Live(l)' => l[2] <= conns'[l[1]]
    <2>1. ASSUME NEW l \in Connection, Live(l) PROVE l[2] <= conns'[l[1]]
      BY <1>2, <2>1, ConnectionFacts DEF ConnGood
    <2>2. k[2] <= conns'[k[1]]
      BY <1>1, <1>2
    <2> QED
      BY <1>3, <2>1, <2>2
  <1>9. \A l \in Connection : l[2] > conns'[l[1]] => up[l] = <<>>
    BY <1>2, ConnectionFacts DEF ConnGood
  <1>10. \A i, j \in Slot : (SysId(i)' = SysId(j)' /\ SysId(i)' # INVALID_INDEX) => i = j
    BY DEF ConnGood, SysId
  <1>11. ConnGood'
    BY <1>6, <1>7, <1>8, <1>9, <1>10 DEF ConnGood, SysId
  <1> QED
    BY <1>3, <1>4, <1>11

(***************************************************************************)
(* Steps in which no request moves and the service thread stands still.    *)
(***************************************************************************)
Eases(c) ==
    \/ c \in upset' \/ (status'[c] # "AUTHED" /\ call'[c] # "request")
    \/ /\ UNCHANGED <<authed, owner>>
       /\ c \in upset => c \in upset'
       /\ \/ call'[c] = call[c] /\ (status'[c] = status[c] \/ status'[c] # "AUTHED")
          \/ call[c] # "release" /\ call'[c] = "none" /\ status'[c] = status[c]
          \/ call[c] = "request" /\ call'[c] = "none" /\ Granted(c)

LEMMA QuietStep ==
    ASSUME Inv, StateTypes', ConnGood',
           UNCHANGED <<callNo, up, recvBuff>>, Service' = Service,
           \A c \in Client : call'[c] \in {call[c], "none"},
           \A k \in Connection : Live(k)' => Live(k) \/ up[k] = <<>>,
           \A c \in Client : Answers(c)' \subseteq Answers(c),
           \A c \in Client : Eases(c)
    PROVE  Inv'
  <1>1. \A c \in Client : CallMoves(c)
    BY DEF CallMoves
  <1>2. UpGood' /\ RecvGood' /\ \A c : Pending(c)' \subseteq Pending(c)
    BY <1>1, FlowStays DEF Inv, Flow
  <1>3. ServiceGood'
    BY <1>1, <1>2, ServiceStays DEF Inv, Flow
  <1>4. AnswersGood'
    BY <1>1, AnswersStay DEF Inv, Flow
  <1>5. ASSUME NEW c \in Client PROVE Claims(c)'
    <2>1. Pending(c)' \subseteq Pending(c) /\ Answers(c)' \subseteq Answers(c)
      BY <1>2
    <2>2. Claims(c) /\ StateTypes
      BY DEF Inv
    <2>3. CASE c \in upset' \/ (status'[c] # "AUTHED" /\ call'[c] # "request")
      BY <2>3, NoClaims
    <2>4. CASE ~(c \in upset' \/ (status'[c] # "AUTHED" /\ call'[c] # "request"))
      BY <2>1, <2>2, <2>4, ClaimsEase DEF Eases
    <2> QED
      BY <2>3, <2>4
  <1> QED
    BY <1>2, <1>3, <1>4, <1>5 DEF Inv, Flow

LEMMA SameNet ==
    ASSUME ConnGood, UNCHANGED <<up, recvBuff, slot, backlog, conns>>
    PROVE  ConnGood' /\ \A k : Live(k)' => Live(k)
  <1>1. \A k : Live(k)' <=> Live(k)
    BY PendingSame
  <1>2. \A i \in Slot : SysId(i)' = SysId(i)
    BY DEF SysId
  <1> QED
    BY <1>1, <1>2 DEF ConnGood

LEMMA FewerAnswers ==
    ASSUME sendBuff' = sendBuff, NEW c \in Client, Elems(down'[c]) \subseteq Elems(down[c])
    PROVE  Answers(c)' \subseteq Answers(c)
  BY DEF Answers

\* A connection begins, with no answer in it yet.
LEMMA NewDown ==
    ASSUME StateTypes, NEW c \in Client, down' = [down EXCEPT ![c] = <<>>], NEW d \in Client
    PROVE  Elems(down'[d]) \subseteq Elems(down[d])
  <1>1. down'[d] = <<>> \/ down'[d] = down[d]
    BY DEF StateTypes, NetTypes
  <1> QED
    BY <1>1, EmptyElems

LEMMA ConnectInv ==
    ASSUME Inv, NEW c \in Client, PWR_Register(c) \/ Reconnect(c)
    PROVE  Inv'
  <1>1. /\ Connect(c)
        /\ UNCHANGED <<call, callNo, up, slot, recvBuff, sendBuff, authed, owner, thread, upset>>
    BY DEF PWR_Register, Reconnect, authVars
  <1>2. \/ status' = status
        \/ status' = [status EXCEPT ![c] = "REGISTERED"]
    BY DEF PWR_Register, Reconnect
  <1>3. StateTypes'
    <2>1. ClientTypes' /\ DaemonTypes'
      BY <1>1, <1>2 DEF Inv, StateTypes, ClientTypes, DaemonTypes
    <2>2. ConnTypes' /\ NetTypes'
      BY <1>1, ConnectTypes DEF Inv, StateTypes, NetTypes
    <2> QED
      BY <2>1, <2>2 DEF StateTypes
  <1>4. ConnGood' /\ \A l \in Connection : Live(l)' => Live(l) \/ up[l] = <<>>
    BY <1>1, ConnectGood DEF Inv
  <1>5. \A d \in Client : Answers(d)' \subseteq Answers(d)
    BY <1>1, NewDown, FewerAnswers DEF Connect, Inv
  <1>6. ASSUME NEW d \in Client PROVE Eases(d)
    <2>1. status'[d] = status[d] \/ (status'[d] = "REGISTERED" /\ d = c)
      BY <1>2 DEF Inv, StateTypes, ClientTypes
    <2> QED
      BY <1>1, <2>1 DEF Eases
  <1>7. Service' = Service
    BY <1>1 DEF Service
  <1> QED
    BY <1>1, <1>3, <1>4, <1>5, <1>6, <1>7, QuietStep

LEMMA UnRegisterInv ==
    ASSUME Inv, NEW c \in Client, PWR_UnRegister(c)
    PROVE  Inv'
  <1>1. /\ status' = [status EXCEPT ![c] = "UNREGISTERED"]
        /\ call' = [call EXCEPT ![c] = "none"]
        /\ online' = [online EXCEPT ![c] = FALSE]
        /\ down' = [down EXCEPT ![c] = <<>>]
        /\ upset' = upset \ {c}
        /\ UNCHANGED <<callNo, conns, up, backlog, slot, recvBuff, sendBuff, authed, owner, thread>>
    BY DEF PWR_UnRegister, authVars
  <1>2. StateTypes'
    <2>1. ClientTypes' /\ DaemonTypes'
      BY <1>1 DEF Inv, StateTypes, ClientTypes, DaemonTypes, Op
    <2>2. ConnTypes' /\ NetTypes'
      BY <1>1 DEF Inv, StateTypes, ConnTypes, NetTypes, Made
    <2> QED
      BY <2>1, <2>2 DEF StateTypes
  <1>3. ConnGood' /\ \A k : Live(k)' => Live(k)
    BY <1>1, SameNet DEF Inv
  <1>4. \A d \in Client : Answers(d)' \subseteq Answers(d)
    BY <1>1, NewDown, FewerAnswers DEF Inv
  <1>5. ASSUME NEW d \in Client PROVE Eases(d) /\ call'[d] \in {call[d], "none"}
    <2>1. CASE d = c
      <3>1. status'[d] = "UNREGISTERED" /\ call'[d] = "none"
        BY <1>1, <2>1 DEF Inv, StateTypes, ClientTypes
      <3> QED
        BY <3>1 DEF Eases
    <2>2. CASE d # c
      <3>1. status'[d] = status[d] /\ call'[d] = call[d] /\ (d \in upset => d \in upset')
        BY <1>1, <2>2 DEF Inv, StateTypes, ClientTypes
      <3> QED
        BY <1>1, <3>1 DEF Eases
    <2> QED
      BY <2>1, <2>2
  <1>6. Service' = Service
    BY <1>1 DEF Service
  <1> QED
    BY <1>1, <1>2, <1>3, <1>4, <1>5, <1>6, QuietStep

LEMMA NoticeClosedInv ==
    ASSUME Inv, NEW c \in Client, NoticeClosed(c)
    PROVE  Inv'
  <1>1. /\ online' = [online EXCEPT ![c] = FALSE]
        /\ UNCHANGED <<status, call, callNo, conns, up, down, backlog, slot, recvBuff, sendBuff,
                       authed, owner, thread, upset>>
    BY DEF NoticeClosed, authVars, netVars
  <1>2. StateTypes'
    <2>1. ClientTypes' /\ DaemonTypes' /\ NetTypes'
      BY <1>1 DEF Inv, StateTypes, ClientTypes, DaemonTypes, NetTypes
    <2>2. ConnTypes'
      BY <1>1 DEF Inv, StateTypes, ConnTypes, Made
    <2> QED
      BY <2>1, <2>2 DEF StateTypes
  <1>3. ConnGood' /\ \A k : Live(k)' => Live(k)
    BY <1>1, SameNet DEF Inv
  <1>4. \A d \in Client : Answers(d)' \subseteq Answers(d)
    BY <1>1, FewerAnswers
  <1>5. Service' = Service /\ \A d \in Client : Eases(d)
    BY <1>1 DEF Service, Eases
  <1> QED
    BY <1>1, <1>2, <1>3, <1>4, <1>5, QuietStep

LEMMA CallTimesOutInv ==
    ASSUME Inv, NEW c \in Client, CallTimesOut(c)
    PROVE  Inv'
  <1>1. /\ status' = [status EXCEPT ![c] = status[c]]
        /\ call' = [call EXCEPT ![c] = "none"]
        /\ upset' = IF call[c] = "release" THEN upset \union {c} ELSE upset
        /\ UNCHANGED <<callNo, online, conns, up, down, backlog, slot, recvBuff, sendBuff, authed,
                       owner, thread>>
    BY DEF CallTimesOut, StatusAfter, authVars, netVars
  <1>2. StateTypes'
    <2>1. ClientTypes' /\ DaemonTypes' /\ NetTypes'
      BY <1>1 DEF Inv, StateTypes, ClientTypes, DaemonTypes, NetTypes, Op
    <2>2. ConnTypes'
      BY <1>1 DEF Inv, StateTypes, ConnTypes, Made
    <2> QED
      BY <2>1, <2>2 DEF StateTypes
  <1>3. ConnGood' /\ \A k : Live(k)' => Live(k)
    BY <1>1, SameNet DEF Inv
  <1>4. \A d \in Client : Answers(d)' \subseteq Answers(d)
    BY <1>1, FewerAnswers
  <1>5. ASSUME NEW d \in Client PROVE Eases(d) /\ call'[d] \in {call[d], "none"}
    <2>1. status'[d] = status[d] /\ (d \in upset => d \in upset')
      BY <1>1 DEF Inv, StateTypes, ClientTypes
    <2>2. IF d = c THEN call'[d] = "none" /\ (call[d] = "release" => d \in upset')
          ELSE call'[d] = call[d]
      BY <1>1 DEF Inv, StateTypes, ClientTypes
    <2> QED
      BY <1>1, <2>1, <2>2 DEF Eases
  <1>6. Service' = Service
    BY <1>1 DEF Service
  <1> QED
    BY <1>1, <1>2, <1>3, <1>4, <1>5, <1>6, QuietStep

\* A grant that arrives is one the daemon stands by; a release of an app that has control
\* is never refused.
LEMMA ReceiveAnswerInv ==
    ASSUME Inv, NEW c \in Client, ReceiveAnswer(c)
    PROVE  Inv'
  <1> DEFINE a == Head(down[c])
  <1>1. /\ down[c] # <<>> /\ down[c] \in Seq(Ans) /\ down' = [down EXCEPT ![c] = Tail(down[c])]
        /\ UNCHANGED <<callNo, online, conns, up, backlog, slot, recvBuff, sendBuff, authed,
                       owner, thread, upset>>
    BY DEF ReceiveAnswer, authVars, Inv, StateTypes, NetTypes
  <1>2. a \in Ans /\ a \in Elems(down[c]) /\ Tail(down[c]) \in Seq(Ans)
        /\ Elems(Tail(down[c])) \subseteq Elems(down[c])
    BY <1>1, TailElems
  <1>3. a \in Answers(c)
    BY <1>2, AnswersFacts
  <1>4. \/ UNCHANGED <<status, call>>
        \/ /\ call[c] # "none" /\ a.no = callNo[c]
           /\ status' = [status EXCEPT ![c] = StatusAfter(c, a.ok)]
           /\ call' = [call EXCEPT ![c] = "none"]
    BY DEF ReceiveAnswer
  <1> HIDE DEF a
  <1>5. StatusAfter(c, a.ok) \in {"UNREGISTERED", "REGISTERED", "AUTHED"}
    BY DEF StatusAfter, Inv, StateTypes, ClientTypes
  <1>6. StateTypes'
    <2>1. ClientTypes'
      BY <1>1, <1>4, <1>5 DEF Inv, StateTypes, ClientTypes, Op
    <2>2. NetTypes' /\ DaemonTypes'
      BY <1>1, <1>2 DEF Inv, StateTypes, NetTypes, DaemonTypes
    <2>3. ConnTypes'
      BY <1>1 DEF Inv, StateTypes, ConnTypes, Made
    <2> QED
      BY <2>1, <2>2, <2>3 DEF StateTypes
  <1>7. ConnGood' /\ \A k : Live(k)' => Live(k)
    BY <1>1, SameNet DEF Inv
  <1>8. ASSUME NEW d \in Client PROVE Answers(d)' \subseteq Answers(d)
    <2>1. down'[d] = IF d = c THEN Tail(down[c]) ELSE down[d]
      BY <1>1 DEF Inv, StateTypes, NetTypes
    <2>2. Elems(down'[d]) \subseteq Elems(down[d])
      BY <1>2, <2>1
    <2> QED
      BY <1>1, <2>2, FewerAnswers
  <1>9. ASSUME NEW d \in Client PROVE Eases(d) /\ call'[d] \in {call[d], "none"}
    <2>1. CASE status'[d] = status[d] /\ call'[d] = call[d]
      BY <1>1, <2>1 DEF Eases
    <2>2. CASE /\ d = c /\ call[c] # "none" /\ a.no = callNo[c]
               /\ status'[d] = StatusAfter(c, a.ok) /\ call'[d] = "none"
      <3>1. CASE a.ok /\ call[c] = "request"
        <4>1. Granted(c)
          BY <1>3, <2>2, <3>1 DEF Granted
        <4> QED
          BY <1>1, <2>2, <3>1, <4>1 DEF Eases
      <3>2. CASE a.ok /\ call[c] = "release"
        BY <2>2, <3>2 DEF StatusAfter, Eases
      <3>3. CASE ~a.ok /\ call[c] = "release"
        <4>1. status'[d] = status[c]
          BY <2>2, <3>3 DEF StatusAfter
        <4>2. c \notin upset => status[c] # "AUTHED"
          BY <1>3, <2>2, <3>3 DEF Inv, Claims, Releases
        <4> QED
          BY <1>1, <2>2, <4>1, <4>2 DEF Eases
      <3>4. CASE ~a.ok /\ call[c] = "request"
        <4>1. status'[d] = status[c]
          BY <2>2, <3>4 DEF StatusAfter
        <4> QED
          BY <1>1, <2>2, <3>4, <4>1 DEF Eases
      <3>5. call[c] \in {"request", "release"} /\ a.ok \in BOOLEAN
        BY <1>2, <2>2 DEF Ans, Inv, StateTypes, ClientTypes, Op
      <3> QED
        BY <2>2, <3>1, <3>2, <3>3, <3>4, <3>5
    <2>3. d # c => status'[d] = status[d] /\ call'[d] = call[d]
      BY <1>4 DEF Inv, StateTypes, ClientTypes
    <2>4. d = c => \/ status'[d] = status[d] /\ call'[d] = call[d]
                   \/ /\ call[c] # "none" /\ a.no = callNo[c]
                      /\ status'[d] = StatusAfter(c, a.ok) /\ call'[d] = "none"
      BY <1>4 DEF Inv, StateTypes, ClientTypes
    <2> QED
      BY <2>1, <2>2, <2>3, <2>4
  <1>10. Service' = Service
    BY <1>1 DEF Service
  <1> QED
    BY <1>1, <1>6, <1>7, <1>8, <1>9, <1>10, QuietStep

(***************************************************************************)
(* A call begins.                                                          *)
(***************************************************************************)
Begins(c, op) ==
    /\ Send(c, op)
    /\ \/ op = "request" /\ upset' = IF status[c] = "REGISTERED" THEN upset \ {c} ELSE upset
       \/ op = "release" /\ status[c] = "AUTHED" /\ upset' = upset

New(c, op) == [no |-> callNo[c] + 1, op |-> op]

LEMMA BeginsFacts ==
    ASSUME StateTypes, NEW c \in Client, NEW op \in {"request", "release"}, Begins(c, op)
    PROVE  /\ StateTypes' /\ CallMoves(c) /\ New(c, op) \in Msg
           /\ callNo[c] \in Nat /\ callNo'[c] = callNo[c] + 1
           /\ call[c] = "none" /\ call'[c] = op /\ status' = status
           /\ \A d \in Client \ {c} : callNo'[d] = callNo[d] /\ call'[d] = call[d] /\ CallMoves(d)
                                      /\ (d \in upset => d \in upset')
           /\ UNCHANGED <<online, conns, down, backlog, slot, recvBuff, sendBuff, authed, owner,
                          thread>>
           /\ \A k \in Connection :
                 \/ up'[k] = up[k]
                 \/ k = Current(c) /\ up'[k] = Append(up[k], New(c, op))
  <1>1. /\ callNo[c] \in Nat /\ callNo[c] < MaxCalls /\ MaxCalls \in Nat
        /\ callNo' = [callNo EXCEPT ![c] = @ + 1] /\ call' = [call EXCEPT ![c] = op]
        /\ call[c] = "none"
        /\ up' = [up EXCEPT ![Current(c)] = Append(@, New(c, op))]
        /\ UNCHANGED <<status, online, conns, down, backlog, slot, recvBuff, sendBuff, authed, owner,
                       thread>>
    BY ControlAuthAssumption DEF Begins, Send, New, authVars, StateTypes, ClientTypes
  <1>2. New(c, op) \in Msg
    BY <1>1 DEF New, Msg
  <1>3. \A k \in Connection : Append(up[k], New(c, op)) \in Seq(Msg)
    BY <1>2, AppendElems DEF StateTypes, NetTypes
  <1>4. up' \in [Connection -> Seq(Msg)]
    BY <1>1, <1>3 DEF StateTypes, NetTypes
  <1>5. upset' \subseteq upset /\ \A d \in Client \ {c} : d \in upset => d \in upset'
    BY DEF Begins
  <1>6. ClientTypes'
    <2>1. callNo[c] + 1 \in 0 .. MaxCalls
      BY <1>1
    <2>2. callNo' \in [Client -> 0 .. MaxCalls] /\ call' \in [Client -> Op]
      BY <1>1, <2>1 DEF StateTypes, ClientTypes, Op
    <2> QED
      BY <1>1, <1>5, <2>2 DEF StateTypes, ClientTypes
  <1>7. ConnTypes' /\ NetTypes' /\ DaemonTypes'
    BY <1>1, <1>4 DEF StateTypes, ConnTypes, NetTypes, DaemonTypes, Made
  <1>8. /\ callNo'[c] = callNo[c] + 1 /\ call'[c] = op
        /\ \A d \in Client \ {c} : callNo'[d] = callNo[d] /\ call'[d] = call[d]
    BY <1>1 DEF StateTypes, ClientTypes
  <1>9. \A k \in Connection :
            \/ up'[k] = up[k]
            \/ k = Current(c) /\ up'[k] = Append(up[k], New(c, op))
    BY <1>1 DEF StateTypes, NetTypes
  <1>10. \A d \in Client : CallMoves(d)
    BY <1>8 DEF CallMoves
  <1>11. StateTypes'
    BY <1>6, <1>7 DEF StateTypes
  <1> QED
    BY <1>1, <1>2, <1>5, <1>8, <1>9, <1>10, <1>11

LEMMA BeginsFlow ==
    ASSUME Inv, NEW c \in Client, NEW op \in {"request", "release"}, Begins(c, op)
    PROVE  /\ ConnGood' /\ Flow'
           /\ \A d \in Client : Answers(d)' = Answers(d)
           /\ \A d \in Client \ {c} : Pending(d)' \subseteq Pending(d)
           /\ Pending(c)' \subseteq Pending(c) \union {New(c, op)}
  <1> DEFINE n == New(c, op)
             cur == Current(c)
  <1>1. /\ StateTypes /\ StateTypes' /\ ConnGood /\ n \in Msg
        /\ callNo[c] \in Nat /\ callNo'[c] = callNo[c] + 1 /\ call'[c] = op
        /\ \A d \in Client : CallMoves(d)
        /\ UNCHANGED <<conns, down, backlog, slot, recvBuff, sendBuff, thread>>
        /\ n.no = callNo[c] + 1 /\ n.op = op
        /\ cur[1] = c /\ cur[2] = conns[c]
    BY BeginsFacts DEF Inv, New, Current
  <1>2. \A k \in Connection : up'[k] = up[k] \/ (k = cur /\ up'[k] = Append(up[k], n))
    BY <1>1, BeginsFacts
  <1> HIDE DEF n, cur
  <1>3. \A k \in Connection : up[k] \in Seq(Msg) /\ up'[k] \in Seq(Msg)
    BY <1>1 DEF StateTypes, NetTypes
  <1>4. ASSUME NEW k \in Connection, NEW m \in Elems(up'[k])
        PROVE  m \in Elems(up[k]) \/ (m = n /\ k = cur)
    <2>1. up[k] \in Seq(Msg)
      BY <1>3
    <2>2. Elems(Append(up[k], n)) = Elems(up[k]) \union {n}
      BY <1>1, <2>1, AppendElems
    <2> QED
      BY <1>2, <1>4, <2>2
  <1>5. ASSUME NEW k \in Connection, k[1] = c, NEW m \in Elems(up[k])
        PROVE  m.no < n.no /\ m.no \in Nat
    BY <1>1, <1>5, FlowTypes DEF Inv, Flow, UpGood, Known, Msg
  <1>6. \A k : Live(k)' <=> Live(k)
    BY <1>1 DEF Live
  <1>7. ConnGood'
    <2>1. \A k \in Connection : k[2] > conns[k[1]] => up'[k] = <<>>
      <3>1. ASSUME NEW k \in Connection, k[2] > conns[k[1]] PROVE k # cur
        <4>1. conns[k[1]] \in Nat /\ k[2] \in Nat
          BY ConnectionFacts, <1>1, ControlAuthAssumption DEF StateTypes, ConnTypes
        <4> QED
          BY <1>1, <3>1, <4>1
      <3> QED
        BY <1>1, <1>2, <3>1 DEF ConnGood
    <2>2. \A i \in Slot : SysId(i)' = SysId(i)
      BY <1>1 DEF SysId
    <2> QED
      BY <1>1, <1>6, <2>1, <2>2 DEF ConnGood
  <1>8. UpGood'
    <2>1. ASSUME NEW k \in Connection, NEW m \in Elems(up'[k]) PROVE Known(k[1], m.no, m.op)'
      <3>1. CASE m \in Elems(up[k])
        <4>1. m.no \in Nat /\ k[1] \in Client /\ Known(k[1], m.no, m.op)
          BY <1>1, <3>1, FlowTypes, ConnectionFacts DEF Msg, Inv, Flow, UpGood
        <4> QED
          BY <1>1, <4>1, KnownStays
      <3>2. CASE m = n /\ k = cur
        BY <1>1, <3>2 DEF Known
      <3> QED
        BY <1>4, <2>1, <3>1, <3>2
    <2>2. ASSUME NEW k \in Connection, NEW i \in 1 .. Len(up'[k]), NEW j \in 1 .. Len(up'[k]), i < j
          PROVE  up'[k][i].no < up'[k][j].no
      <3>1. CASE up'[k] = up[k]
        BY <2>2, <3>1 DEF Inv, Flow, UpGood
      <3>2. CASE k = cur /\ up'[k] = Append(up[k], n)
        <4>1. /\ Len(up'[k]) = Len(up[k]) + 1 /\ Len(up[k]) \in Nat
              /\ \A a \in 1 .. Len(up[k]) : up'[k][a] = up[k][a]
              /\ up'[k][Len(up[k]) + 1] = n
          BY <1>1, <1>3, <3>2
        <4>2. i \in 1 .. Len(up[k])
          BY <2>2, <4>1
        <4>3. CASE j \in 1 .. Len(up[k])
          BY <2>2, <4>1, <4>2, <4>3 DEF Inv, Flow, UpGood
        <4>4. CASE j = Len(up[k]) + 1
          <5>1. up[k][i] \in Elems(up[k])
            BY <4>2 DEF Elems
          <5> QED
            BY <1>1, <1>5, <3>2, <4>1, <4>2, <4>4, <5>1
        <4> QED
          BY <2>2, <4>1, <4>3, <4>4
      <3> QED
        BY <1>2, <3>1, <3>2
    <2>3. ASSUME NEW k \in Connection, NEW l \in Connection, k[1] = l[1], k[2] < l[2],
                 NEW m \in Elems(up'[k]), NEW q \in Elems(up'[l])
          PROVE  m.no < q.no
      <3>1. CASE m \in Elems(up[k]) /\ q \in Elems(up[l])
        BY <2>3, <3>1 DEF Inv, Flow, UpGood
      <3>2. CASE m \in Elems(up[k]) /\ q = n /\ l = cur
        BY <1>1, <1>5, <2>3, <3>2
      <3>3. CASE m = n /\ k = cur
        <4>1. conns[c] \in Nat /\ l[2] \in Nat /\ l[1] = c /\ l[2] > conns[l[1]]
          BY <1>1, <2>3, <3>3, ConnectionFacts, ControlAuthAssumption DEF StateTypes, ConnTypes
        <4>2. Elems(up'[l]) = {}
          BY <1>7, <1>1, <4>1, EmptyElems DEF ConnGood
        <4> QED
          BY <2>3, <4>2
      <3> QED
        BY <1>4, <2>3, <3>1, <3>2, <3>3
    <2> QED
      BY <2>1, <2>2, <2>3 DEF UpGood
  <1>9. RecvGood'
    <2>1. ASSUME NEW r \in Elems(recvBuff)
          PROVE  r.client \in Client /\ r.no \in Nat /\ Known(r.client, r.no, r.op)
      BY <1>1, FlowTypes DEF Inv, Flow, RecvGood, Req
    <2>2. ASSUME NEW r \in Elems(recvBuff) PROVE Known(r.client, r.no, r.op)'
      BY <1>1, <2>1, KnownStays
    <2>3. ASSUME NEW r \in Elems(recvBuff), NEW k \in Connection, k[1] = r.client, Live(k),
                 NEW m \in Elems(up'[k])
          PROVE  r.no < m.no
      <3>1. CASE m \in Elems(up[k])
        BY <2>3, <3>1 DEF Inv, Flow, RecvGood
      <3>2. CASE m = n /\ k = cur
        BY <1>1, <2>1, <2>3, <3>2 DEF Known
      <3> QED
        BY <1>4, <2>3, <3>1, <3>2
    <2>4. \A i, j \in 1 .. Len(recvBuff) :
             (i < j /\ recvBuff[i].client = recvBuff[j].client) => recvBuff[i].no < recvBuff[j].no
      BY DEF Inv, Flow, RecvGood
    <2> QED
      BY <1>1, <1>6, <2>2, <2>3, <2>4 DEF RecvGood
  <1>10. ASSUME NEW d \in Client, NEW p \in Pending(d)'
         PROVE  p \in Pending(d) \/ (d = c /\ p = n)
    <2>1. \/ \E r \in Elems(recvBuff) : r.client = d /\ p = [no |-> r.no, op |-> r.op]
          \/ \E k \in Connection : k[1] = d /\ Live(k) /\ p \in Elems(up'[k])
      BY <1>1, <1>6, <1>10 DEF Pending
    <2> QED
      BY <1>1, <1>4, <2>1, PendingFacts
  <1>11. Service' = Service /\ \A d \in Client : Answers(d)' = Answers(d)
    BY <1>1 DEF Service, Answers
  <1>12. ServiceGood'
    <2> SUFFICES ASSUME Service.at # "idle" PROVE ServiceGood'
      BY <1>11 DEF ServiceGood
    <2>1. /\ Service.no \in Nat /\ Service.client \in Client
          /\ Known(Service.client, Service.no, Service.op)
      BY <1>1 DEF Inv, Flow, ServiceGood, StateTypes, DaemonTypes, Thread, ThreadType, Service
    <2>2. Known(Service.client, Service.no, Service.op)'
      BY <1>1, <1>11, <2>1, KnownStays
    <2>3. ASSUME NEW p \in Pending(Service.client)' PROVE Service.no < p.no
      <3>1. CASE p \in Pending(Service.client)
        BY <1>1, <3>1 DEF Inv, Flow, ServiceGood
      <3>2. CASE Service.client = c /\ p = n
        <4>1. Service.no <= callNo[c]
          BY <2>1, <3>2 DEF Known
        <4> QED
          BY <1>1, <2>1, <3>2, <4>1
      <3> QED
        BY <1>10, <1>11, <2>1, <2>3, <3>1, <3>2
    <2> QED
      BY <1>11, <2>1, <2>2, <2>3 DEF ServiceGood, Inv, Flow
  <1>13. AnswersGood'
    BY <1>1, <1>11, AnswersStay DEF Inv, Flow
  <1> QED
    BY <1>7, <1>8, <1>9, <1>10, <1>11, <1>12, <1>13 DEF Flow, n

LEMMA BeginsInv ==
    ASSUME Inv, NEW c \in Client, NEW op \in {"request", "release"}, Begins(c, op)
    PROVE  Inv'
  <1>1. /\ StateTypes /\ StateTypes' /\ callNo[c] \in Nat /\ callNo'[c] = callNo[c] + 1
        /\ call[c] = "none" /\ call'[c] = op /\ status' = status
        /\ UNCHANGED <<authed, owner, thread>>
        /\ New(c, op).no = callNo[c] + 1 /\ New(c, op).op = op
    BY BeginsFacts DEF Inv, New
  <1>2. /\ ConnGood' /\ Flow'
        /\ \A d \in Client : Answers(d)' = Answers(d)
        /\ \A d \in Client \ {c} : Pending(d)' \subseteq Pending(d)
        /\ Pending(c)' \subseteq Pending(c) \union {New(c, op)}
    BY BeginsFlow
  <1>3. Service' = Service
    BY <1>1 DEF Service
  <1>4. ASSUME NEW d \in Client \ {c} PROVE Claims(d)'
    <2>1. callNo'[d] = callNo[d] /\ call'[d] = call[d] /\ (d \in upset => d \in upset')
      BY BeginsFacts DEF Inv
    <2>2. d \in Client /\ Claims(d)
      BY DEF Inv
    <2> QED
      BY <1>1, <1>2, <1>3, <2>1, <2>2, ClaimsEase
  <1>5. \A a \in Answers(c)' : a.no # callNo'[c]
    <2>1. ASSUME NEW a \in Answers(c) PROVE a.no # callNo'[c]
      BY <1>1, FlowTypes DEF Inv, Flow, AnswersGood, Ans
    <2> QED
      BY <1>2, <2>1
  <1>6. ~Serving(c)'
    <2> SUFFICES ASSUME Serves(c) PROVE Service.no # callNo'[c]
      BY <1>3 DEF Serving, Serves
    <2>1. Service.no \in Nat /\ Service.no <= callNo[c]
      BY <1>1 DEF Inv, Flow, ServiceGood, Known, Serves, StateTypes, DaemonTypes, Thread,
                  ThreadType, Service
    <2> QED
      BY <1>1, <2>1
  <1>7. Kept(c)' <=> Kept(c)
    BY <1>1, <1>3 DEF Kept, Serves
  <1>8. (c \notin upset' /\ status[c] = "AUTHED") => Firm(c)
    <2> SUFFICES ASSUME c \notin upset', status[c] = "AUTHED" PROVE Firm(c)
      OBVIOUS
    <2>1. c \notin upset
      BY DEF Begins
    <2> QED
      BY <1>1, <2>1 DEF Inv, Claims, Holds
  <1>9. CASE op = "request"
    <2>1. Firm(c) => Firm(c)'
      BY <1>1, <1>2, <1>7, <1>9 DEF Firm
    <2>2. Holds(c)'
      BY <1>1, <1>8, <2>1 DEF Holds
    <2>3. Asks(c)' /\ Releases(c)'
      BY <1>1, <1>5, <1>6, <1>9 DEF Asks, Releases, Granted
    <2> QED
      BY <1>2, <1>4, <2>2, <2>3, <1>1 DEF Inv, Claims
  <1>10. CASE op = "release"
    <2>1. Holds(c)' /\ Asks(c)'
      BY <1>1, <1>10 DEF Holds, Asks
    <2>2. Releases(c)'
      BY <1>1, <1>2, <1>5, <1>6, <1>7, <1>8, <1>10 DEF Releases, Firm
    <2> QED
      BY <1>2, <1>4, <2>1, <2>2, <1>1 DEF Inv, Claims
  <1> QED
    BY <1>9, <1>10

(***************************************************************************)
(* The daemon's list of clients.                                           *)
(***************************************************************************)
LEMMA SocketTypes ==
    ASSUME DaemonTypes, UNCHANGED <<authed, owner>>, NEW r \in ThreadType,
           thread' = [thread EXCEPT !["socket"] = r]
    PROVE  DaemonTypes' /\ Service' = Service
  BY DEF DaemonTypes, Thread, Service

LEMMA IdleType == Idle \in ThreadType
  BY DEF SysIds, Idle, ThreadType, Op

\* The rest of the backlog, behind a connection that was accepted or closed.
LEMMA RestOfBacklog ==
    ASSUME StateTypes, ConnGood, backlog # <<>>, backlog' = Tail(backlog)
    PROVE  /\ Head(backlog) \in Connection /\ Head(backlog) \in Elems(backlog)
           /\ backlog' \in Seq(Connection) /\ Elems(backlog') \subseteq Elems(backlog)
           /\ \A b \in Elems(backlog') : Head(backlog)[1] = b[1] => Head(backlog)[2] < b[2]
           /\ \A i, j \in 1 .. Len(backlog') :
                 (i < j /\ backlog'[i][1] = backlog'[j][1]) => backlog'[i][2] < backlog'[j][2]
  <1>1. backlog \in Seq(Connection)
    BY DEF StateTypes, NetTypes
  <1>2. /\ Head(backlog) \in Connection /\ Head(backlog) \in Elems(backlog)
        /\ backlog' \in Seq(Connection) /\ Elems(backlog') \subseteq Elems(backlog)
        /\ \A b \in Elems(backlog') : \E j \in 1 .. Len(backlog) : 1 < j /\ b = backlog[j]
        /\ \A j \in 1 .. Len(backlog') : j + 1 \in 1 .. Len(backlog) /\ backlog'[j] = backlog[j + 1]
    BY <1>1, TailElems
  <1>3. Head(backlog) = backlog[1] /\ 1 \in 1 .. Len(backlog)
    BY <1>1
  <1>4. ASSUME NEW b \in Elems(backlog'), Head(backlog)[1] = b[1] PROVE Head(backlog)[2] < b[2]
    BY <1>2, <1>3, <1>4 DEF ConnGood
  <1>5. ASSUME NEW i \in 1 .. Len(backlog'), NEW j \in 1 .. Len(backlog'), i < j,
               backlog'[i][1] = backlog'[j][1]
        PROVE  backlog'[i][2] < backlog'[j][2]
    <2>1. /\ i + 1 \in 1 .. Len(backlog) /\ backlog'[i] = backlog[i + 1]
          /\ j + 1 \in 1 .. Len(backlog) /\ backlog'[j] = backlog[j + 1]
          /\ i + 1 < j + 1
      BY <1>2, <1>5
    <2> QED
      BY <1>5, <2>1 DEF ConnGood
  <1> QED
    BY <1>2, <1>4, <1>5

LEMMA AcceptInv ==
    ASSUME Inv, AcceptConnection
    PROVE  Inv'
  <1> DEFINE k == Head(backlog)
  <1>1. /\ backlog # <<>> /\ backlog' = Tail(backlog)
        /\ UNCHANGED <<status, call, callNo, online, conns, up, down, recvBuff, sendBuff, authed,
                       owner, thread, upset>>
    BY DEF AcceptConnection, clientVars, authVars
  <1>2. /\ k \in Connection /\ k \in Elems(backlog)
        /\ backlog' \in Seq(Connection) /\ Elems(backlog') \subseteq Elems(backlog)
        /\ \A b \in Elems(backlog') : k[1] = b[1] => k[2] < b[2]
        /\ \A i, j \in 1 .. Len(backlog') :
              (i < j /\ backlog'[i][1] = backlog'[j][1]) => backlog'[i][2] < backlog'[j][2]
    BY <1>1, RestOfBacklog DEF Inv
  <1>3. \/ slot' = slot
        \/ \E i \in Slot : /\ slot' = [slot EXCEPT ![i] = k]
                           /\ \A j \in Slot \ {i} : SysId(j) # k[1]
    <2>1. CASE SlotsOf(k[1]) # {} /\ slot' = [slot EXCEPT ![First(SlotsOf(k[1]))] = k]
      <3> DEFINE i == First(SlotsOf(k[1]))
      <3>1. i \in Slot /\ SysId(i) = k[1]
        BY <2>1, FirstSlot DEF SlotsOf
      <3>2. \A j \in Slot \ {i} : SysId(j) # k[1]
        BY <1>2, <3>1, ConnectionFacts DEF Inv, ConnGood
      <3> QED
        BY <2>1, <3>1, <3>2
    <2>2. CASE SlotsOf(k[1]) = {} /\ FreeSlots # {} /\ slot' = [slot EXCEPT ![First(FreeSlots)] = k]
      <3>1. First(FreeSlots) \in Slot
        BY <2>2, FirstSlot DEF FreeSlots
      <3>2. \A j \in Slot : SysId(j) # k[1]
        BY <2>2 DEF SlotsOf
      <3> QED
        BY <2>2, <3>1, <3>2
    <2> QED
      BY <2>1, <2>2 DEF AcceptConnection
  <1> HIDE DEF k
  <1>4. StateTypes'
    <2>1. slot' \in [Slot -> Connection \union {NoConn}]
      BY <1>2, <1>3 DEF Inv, StateTypes, NetTypes
    <2>2. NetTypes' /\ ClientTypes' /\ DaemonTypes'
      BY <1>1, <1>2, <2>1 DEF Inv, StateTypes, NetTypes, ClientTypes, DaemonTypes
    <2>3. ConnTypes'
      BY <1>1 DEF Inv, StateTypes, ConnTypes, Made
    <2> QED
      BY <2>2, <2>3 DEF StateTypes
  <1>5. \A l : Live(l)' => Live(l)
    <2>1. \A i \in Slot : slot'[i] = slot[i] \/ slot'[i] = k
      BY <1>3 DEF Inv, StateTypes, NetTypes
    <2> QED
      BY <1>2, <2>1 DEF Live
  <1>6. ConnGood'
    <2>1. CASE slot' = slot
      <3>1. \A i \in Slot : SysId(i)' = SysId(i)
        BY <2>1 DEF SysId
      <3> QED
        BY <1>1, <1>2, <1>5, <2>1, <3>1 DEF Inv, ConnGood
    <2>2. ASSUME NEW i \in Slot, slot' = [slot EXCEPT ![i] = k],
                 \A j \in Slot \ {i} : SysId(j) # k[1]
          PROVE  ConnGood'
      <3>1. slot'[i] = k /\ SysId(i)' = k[1]
            /\ \A j \in Slot \ {i} : slot'[j] = slot[j] /\ SysId(j)' = SysId(j)
        BY <2>2 DEF Inv, StateTypes, NetTypes, SysId
      <3>2. \A j, l \in Slot : (SysId(j)' = SysId(l)' /\ SysId(j)' # INVALID_INDEX) => j = l
        BY <2>2, <3>1 DEF Inv, ConnGood
      <3>3. \A j \in Slot : \A b \in Elems(backlog') : SysId(j)' = b[1] => slot'[j][2] < b[2]
        BY <1>2, <3>1 DEF Inv, ConnGood
      <3> QED
        BY <1>1, <1>2, <1>5, <3>2, <3>3 DEF Inv, ConnGood
    <2> QED
      BY <1>3, <2>1, <2>2
  <1>7. Service' = Service /\ \A d \in Client : Eases(d)
    BY <1>1 DEF Service, Eases
  <1>8. \A d \in Client : Answers(d)' \subseteq Answers(d)
    BY <1>1, FewerAnswers
  <1> QED
    BY <1>1, <1>4, <1>5, <1>6, <1>7, <1>8, QuietStep

LEMMA EndOfStreamInv ==
    ASSUME Inv, NEW i \in Slot, ReadEndOfStream(i)
    PROVE  Inv'
  <1> DEFINE r == [Idle EXCEPT !.at = "readAuthed", !.op = "release", !.client = SysId(1), !.no = i]
  <1>1. /\ thread' = [thread EXCEPT !["socket"] = r]
        /\ UNCHANGED <<status, call, callNo, online, conns, up, down, backlog, slot, recvBuff,
                       sendBuff, authed, owner, upset>>
    BY DEF ReadEndOfStream, clientVars, netVars, authVars
  <1>2. r \in ThreadType
    <2>1. 1 \in Slot /\ i \in Nat
      BY ControlAuthAssumption DEF Slot
    <2>2. SysId(1) \in SysIds
      BY <2>1, ConnectionFacts DEF SysIds, SysId, Inv, StateTypes, NetTypes
    <2> QED
      BY <2>1, <2>2, IdleType DEF ThreadType, Op
  <1> HIDE DEF r
  <1>3. DaemonTypes' /\ Service' = Service
    BY <1>1, <1>2, SocketTypes DEF Inv, StateTypes
  <1>4. StateTypes'
    BY <1>1, <1>3 DEF Inv, StateTypes, ClientTypes, ConnTypes, NetTypes, Made
  <1>5. ConnGood' /\ \A k : Live(k)' => Live(k)
    BY <1>1, SameNet DEF Inv
  <1>6. \A d \in Client : Answers(d)' \subseteq Answers(d) /\ Eases(d)
    BY <1>1, FewerAnswers DEF Eases
  <1> QED
    BY <1>1, <1>3, <1>4, <1>5, <1>6, QuietStep

LEMMA DeleteFromListInv ==
    ASSUME Inv, DeleteFromClientList
    PROVE  Inv'
  <1>1. /\ thread' = [thread EXCEPT !["socket"] = Idle]
        /\ slot' = [slot EXCEPT ![thread["socket"].no] = NoConn]
        /\ UNCHANGED <<status, call, callNo, online, conns, up, down, backlog, recvBuff,
                       sendBuff, authed, owner, upset>>
    BY DEF DeleteFromClientList, clientVars, netVars, authVars
  <1>2. /\ slot' \in [Slot -> Connection \union {NoConn}]
        /\ \A i \in Slot : slot'[i] = slot[i] \/ slot'[i] = NoConn
    BY <1>1 DEF Inv, StateTypes, NetTypes
  <1>3. DaemonTypes' /\ Service' = Service
    BY <1>1, IdleType, SocketTypes DEF Inv, StateTypes
  <1>4. StateTypes'
    BY <1>1, <1>2, <1>3 DEF Inv, StateTypes, ClientTypes, ConnTypes, NetTypes, Made
  <1>5. \A k \in Connection : Live(k)' => Live(k)
    BY <1>1, <1>2, ConnectionFacts DEF Live
  <1>6. ConnGood'
    <2>1. \A i \in Slot : \/ slot'[i] = slot[i] /\ SysId(i)' = SysId(i)
                          \/ SysId(i)' = INVALID_INDEX
      BY <1>2, ConnectionFacts DEF SysId
    <2>2. \A b \in Elems(backlog) : b[1] # INVALID_INDEX
      BY ElemsIn, ConnectionFacts DEF Inv, StateTypes, NetTypes
    <2> QED
      BY <1>1, <1>5, <2>1, <2>2 DEF Inv, ConnGood
  <1>7. \A d \in Client : Answers(d)' \subseteq Answers(d) /\ Eases(d)
    BY <1>1, FewerAnswers DEF Eases
  <1> QED
    BY <1>1, <1>3, <1>4, <1>5, <1>6, <1>7, QuietStep

\* The daemon that starts again knows of nothing that was asked, and whoever has control or
\* asks for it is upset.
LEMMA RestartInv ==
    ASSUME Inv, Restart
    PROVE  Inv'
  <1>1. /\ slot' = [i \in Slot |-> NoConn] /\ recvBuff' = <<>> /\ sendBuff' = <<>>
        /\ authed' = FALSE /\ owner' = NoClient /\ thread' = [t \in Thread |-> Idle]
        /\ backlog' = <<>> /\ up' = [k \in Connection |-> <<>>]
        /\ upset' = upset \union Believers
        /\ UNCHANGED <<status, call, callNo, online, conns, down>>
    BY DEF Restart, clientVars
  <1>2. StateTypes'
    <2>1. ClientTypes' /\ ConnTypes'
      BY <1>1 DEF Inv, StateTypes, ClientTypes, ConnTypes, Believers, Made
    <2>2. NetTypes'
      BY <1>1 DEF Inv, StateTypes, NetTypes
    <2>3. DaemonTypes'
      BY <1>1, IdleType DEF SysIds, DaemonTypes
    <2> QED
      BY <2>1, <2>2, <2>3 DEF StateTypes
  <1>3. \A k \in Connection : ~Live(k)' /\ Elems(up'[k]) = {} /\ up'[k] = <<>>
    BY <1>1, EmptyElems, ConnectionFacts DEF Live
  <1>4. Elems(recvBuff') = {} /\ Elems(sendBuff') = {} /\ Elems(backlog') = {}
    BY <1>1, EmptyElems
  <1>5. ConnGood'
    <2>1. \A i \in Slot : SysId(i)' = INVALID_INDEX
      BY <1>1, ConnectionFacts DEF SysId
    <2> QED
      BY <1>1, <1>3, <1>4, <2>1 DEF ConnGood
  <1>6. UpGood' /\ RecvGood'
    BY <1>1, <1>3, <1>4 DEF UpGood, RecvGood
  <1>7. ServiceGood'
    BY <1>1 DEF ServiceGood, Service, Thread, Idle
  <1>8. AnswersGood'
    <2>1. \A d \in Client : Answers(d)' \subseteq Answers(d)
      BY <1>1, <1>4 DEF Answers
    <2> QED
      BY <1>1, <1>2, <2>1, AnswersStay DEF Inv, Flow, CallMoves
  <1>9. ASSUME NEW c \in Client PROVE Claims(c)'
    <2>1. c \in upset' \/ (status'[c] # "AUTHED" /\ call'[c] # "request")
      BY <1>1 DEF Believers
    <2> QED
      BY <2>1, NoClaims
  <1> QED
    BY <1>2, <1>5, <1>6, <1>7, <1>8, <1>9 DEF Inv, Flow

LEMMA SendAnswerInv ==
    ASSUME Inv, ProcessSendMsgToClient
    PROVE  Inv'
  <1> DEFINE a == Head(sendBuff)
             ans == [no |-> a.no, ok |-> a.ok]
  <1>1. CASE Restart
    BY <1>1, RestartInv
  <1>2. CASE ~Restart
    <2>1. /\ sendBuff # <<>> /\ sendBuff' = Tail(sendBuff)
          /\ down' = down \/ down' = [down EXCEPT ![a.client] = Append(@, ans)]
          /\ UNCHANGED <<status, call, callNo, online, conns, up, backlog, slot, recvBuff, authed,
                         owner, thread, upset>>
      BY <1>2 DEF ProcessSendMsgToClient, clientVars, netVars, authVars
    <2>2. sendBuff \in Seq(Rsp)
      BY DEF Inv, StateTypes, NetTypes
    <2>3. /\ a \in Rsp /\ a \in Elems(sendBuff) /\ sendBuff' \in Seq(Rsp)
          /\ Elems(sendBuff') \subseteq Elems(sendBuff)
      BY <2>1, <2>2, TailElems
    <2> HIDE DEF a
    <2>4. a.client \in Client /\ ans \in Ans
      BY <2>3 DEF Rsp, Ans
    <2>5. ans \in Answers(a.client)
      BY <2>3, <2>4, AnswersFacts
    <2> HIDE DEF ans
    <2>6. \A d \in Client : down[d] \in Seq(Ans)
      BY DEF Inv, StateTypes, NetTypes
    <2>7. ASSUME NEW d \in Client
          PROVE  /\ down'[d] \in Seq(Ans)
                 /\ \A x \in Elems(down'[d]) : x \in Elems(down[d]) \/ (d = a.client /\ x = ans)
      <3>1. down'[d] = down[d] \/ (d = a.client /\ down'[d] = Append(down[d], ans))
        BY <2>1, <2>4 DEF Inv, StateTypes, NetTypes
      <3>2. /\ Append(down[d], ans) \in Seq(Ans)
            /\ Elems(Append(down[d], ans)) = Elems(down[d]) \union {ans}
        BY <2>4, <2>6, AppendElems
      <3> QED
        BY <2>6, <3>1, <3>2
    <2>8. down' \in [Client -> Seq(Ans)]
      <3>1. down' = [d \in Client |-> down'[d]]
        BY <2>1 DEF Inv, StateTypes, NetTypes
      <3> QED
        BY <2>7, <3>1
    <2>9. StateTypes'
      BY <2>1, <2>3, <2>8 DEF Inv, StateTypes, ClientTypes, ConnTypes, NetTypes, DaemonTypes, Made
    <2>10. ConnGood' /\ \A k : Live(k)' => Live(k)
      BY <2>1, SameNet DEF Inv
    <2>11. ASSUME NEW d \in Client, NEW x \in Answers(d)' PROVE x \in Answers(d)
      <3>1. \/ \E b \in Elems(sendBuff') : b.client = d /\ x = [no |-> b.no, ok |-> b.ok]
            \/ x \in Elems(down'[d])
        BY <2>11 DEF Answers
      <3> QED
        BY <2>3, <2>5, <2>7, <3>1, AnswersFacts
    <2>12. Service' = Service /\ \A d \in Client : Eases(d)
      BY <2>1 DEF Service, Eases
    <2> QED
      BY <2>1, <2>9, <2>10, <2>11, <2>12, QuietStep
  <1> QED
    BY <1>1, <1>2

(***************************************************************************)
(* The socket thread in DoAuthRelease: its reads change nothing, and what  *)
(* it writes upsets all whom it may matter to.                             *)
(***************************************************************************)
LEMMA AuthStepTypes ==
    ASSUME StateTypes, NEW t \in Thread, AuthStep(t)
    PROVE  /\ StateTypes'
           /\ \E r \in ThreadType : /\ thread' = [thread EXCEPT ![t] = r]
                                    /\ r.client = thread[t].client /\ r.no = thread[t].no
                                    /\ r.op = thread[t].op /\ r.at # "idle" /\ thread[t].at # "idle"
           /\ UNCHANGED <<status, call, callNo, online, conns, up, down, backlog, slot, recvBuff,
                          sendBuff>>
  <1>1. thread[t] \in ThreadType
    BY DEF StateTypes, DaemonTypes
  <1>2. UNCHANGED <<status, call, callNo, online, conns, up, down, backlog, slot, recvBuff, sendBuff>>
    BY DEF AuthStep, ReadAuthed, ReadOwner, ReadAuthedAgain, Write, daemonRest, clientVars, netVars
  <1>3. thread[t].at # "idle"
    BY DEF AuthStep, ReadAuthed, ReadOwner, ReadAuthedAgain, Write, At
  <1>4. \E r \in ThreadType : /\ thread' = [thread EXCEPT ![t] = r]
                              /\ r.client = thread[t].client /\ r.no = thread[t].no
                              /\ r.op = thread[t].op /\ r.at # "idle"
    <2>1. ASSUME NEW where \in {"readAuthed", "readOwner", "readAgain"}, Goto(t, where)
          PROVE  \E r \in ThreadType : /\ thread' = [thread EXCEPT ![t] = r]
                                       /\ r.client = thread[t].client /\ r.no = thread[t].no
                                       /\ r.op = thread[t].op /\ r.at # "idle"
      <3> DEFINE r == [thread[t] EXCEPT !.at = where]
      <3>1. thread' = [thread EXCEPT ![t] = r]
        BY <2>1 DEF Goto, StateTypes, DaemonTypes
      <3>2. r \in ThreadType /\ r.client = thread[t].client /\ r.no = thread[t].no
            /\ r.op = thread[t].op /\ r.at # "idle"
        BY <1>1, <2>1 DEF ThreadType
      <3> QED
        BY <3>1, <3>2
    <2>2. ASSUME NEW todo \in SUBSET {"authed", "owner"},
                 thread' = [thread EXCEPT ![t].at = "write", ![t].todo = todo]
          PROVE  \E r \in ThreadType : /\ thread' = [thread EXCEPT ![t] = r]
                                       /\ r.client = thread[t].client /\ r.no = thread[t].no
                                       /\ r.op = thread[t].op /\ r.at # "idle"
      <3> DEFINE r == [thread[t] EXCEPT !.at = "write", !.todo = todo]
      <3>1. thread' = [thread EXCEPT ![t] = r]
        BY <2>2 DEF StateTypes, DaemonTypes
      <3>2. r \in ThreadType /\ r.client = thread[t].client /\ r.no = thread[t].no
            /\ r.op = thread[t].op /\ r.at # "idle"
        BY <1>1, <2>2 DEF ThreadType
      <3> QED
        BY <3>1, <3>2
    <2>3. ASSUME NEW ok \in BOOLEAN, Finish(t, ok)
          PROVE  \E r \in ThreadType : /\ thread' = [thread EXCEPT ![t] = r]
                                       /\ r.client = thread[t].client /\ r.no = thread[t].no
                                       /\ r.op = thread[t].op /\ r.at # "idle"
      <3> DEFINE r == [thread[t] EXCEPT !.at = "done", !.ok = ok]
      <3>1. thread' = [thread EXCEPT ![t] = r]
        BY <2>3 DEF Finish, StateTypes, DaemonTypes
      <3>2. r \in ThreadType /\ r.client = thread[t].client /\ r.no = thread[t].no
            /\ r.op = thread[t].op /\ r.at # "idle"
        BY <1>1, <2>3 DEF ThreadType
      <3> QED
        BY <3>1, <3>2
    <2>4. CASE Write(t)
      <3>1. PICK v \in thread[t].todo :
                IF thread[t].todo \ {v} = {}
                THEN thread' = [thread EXCEPT ![t].at = "done", ![t].todo = {}, ![t].ok = TRUE]
                ELSE thread' = [thread EXCEPT ![t].todo = thread[t].todo \ {v}]
        BY <2>4 DEF Write
      <3> DEFINE rest == thread[t].todo \ {v}
                 r == IF rest = {}
                      THEN [thread[t] EXCEPT !.at = "done", !.todo = {}, !.ok = TRUE]
                      ELSE [thread[t] EXCEPT !.todo = rest]
      <3>2. thread' = [thread EXCEPT ![t] = r]
        BY <3>1 DEF StateTypes, DaemonTypes
      <3>3. r \in ThreadType /\ r.client = thread[t].client /\ r.no = thread[t].no
            /\ r.op = thread[t].op /\ r.at # "idle"
        BY <1>1, <1>3 DEF ThreadType
      <3> QED
        BY <3>2, <3>3
    <2>5. CASE ReadAuthed(t)
      BY <2>1, <2>2, <2>5 DEF ReadAuthed, Change
    <2>6. CASE ReadOwner(t)
      BY <2>1, <2>2, <2>3, <2>6 DEF ReadOwner, Change
    <2>7. CASE ReadAuthedAgain(t)
      <3>1. CASE Finish(t, FALSE)
        BY <2>3, <3>1
      <3>2. CASE thread' = [thread EXCEPT ![t].at = "write", ![t].todo = {"owner"}]
        BY <2>2, <3>2
      <3> QED
        BY <2>7, <3>1, <3>2 DEF ReadAuthedAgain
    <2> QED
      BY <2>4, <2>5, <2>6, <2>7 DEF AuthStep
  <1>5. thread' \in [Thread -> ThreadType]
    BY <1>4 DEF StateTypes, DaemonTypes
  <1>6. authed' \in BOOLEAN /\ owner' \in SysIds /\ upset' \subseteq Client
    <2>1. CASE Write(t)
      BY <1>1, <2>1 DEF SysIds, Write, StateTypes, DaemonTypes, ClientTypes, ThreadType, Believers
    <2>2. CASE ~Write(t)
      BY <2>2 DEF AuthStep, ReadAuthed, ReadOwner, ReadAuthedAgain, authVars, StateTypes,
                  DaemonTypes, ClientTypes
    <2> QED
      BY <2>1, <2>2
  <1>7. StateTypes'
    BY <1>2, <1>5, <1>6 DEF StateTypes, ClientTypes, ConnTypes, NetTypes, DaemonTypes, Made
  <1> QED
    BY <1>2, <1>3, <1>4, <1>7

LEMMA SocketAuthInv ==
    ASSUME Inv, AuthStep("socket")
    PROVE  Inv'
  <1>1. "socket" \in Thread
    BY DEF Thread
  <1>2. /\ StateTypes'
        /\ UNCHANGED <<status, call, callNo, conns, up, down, backlog, slot, recvBuff, sendBuff>>
        /\ \E r : thread' = [thread EXCEPT !["socket"] = r]
    BY <1>1, AuthStepTypes DEF Inv
  <1>3. Service' = Service
    BY <1>2 DEF Service, Inv, StateTypes, DaemonTypes, Thread
  <1>4. ConnGood' /\ \A k : Live(k)' => Live(k)
    BY <1>2, SameNet DEF Inv
  <1>5. \A d \in Client : Answers(d)' \subseteq Answers(d)
    BY <1>2, FewerAnswers
  <1>6. ASSUME NEW d \in Client PROVE Eases(d)
    <2>1. CASE Write("socket")
      <3>1. d \in upset' \/ (status'[d] # "AUTHED" /\ call'[d] # "request")
        BY <1>2, <2>1 DEF Write, Believers
      <3> QED
        BY <3>1 DEF Eases
    <2>2. CASE ~Write("socket")
      <3>1. UNCHANGED <<authed, owner, upset>>
        BY <2>2 DEF AuthStep, ReadAuthed, ReadOwner, ReadAuthedAgain, authVars
      <3> QED
        BY <1>2, <3>1 DEF Eases
    <2> QED
      BY <2>1, <2>2
  <1> QED
    BY <1>2, <1>3, <1>4, <1>5, <1>6, QuietStep

(***************************************************************************)
(* Requests on their way.                                                  *)
(***************************************************************************)
LEMMA RecvMsgInv ==
    ASSUME Inv, NEW i \in Slot, ProcessRecvMsgFromClient(i)
    PROVE  Inv'
  <1> DEFINE k == slot[i]
             req == Head(up[k])
             c == SysId(i)
             e == [client |-> c, no |-> req.no, op |-> req.op]
  <1>1. /\ slot[i] # NoConn /\ up[k] # <<>>
        /\ recvBuff' = Append(recvBuff, e) /\ up' = [up EXCEPT ![k] = Tail(up[k])]
        /\ UNCHANGED <<status, call, callNo, online, conns, down, backlog, slot, sendBuff, authed,
                       owner, thread, upset>>
    BY DEF ProcessRecvMsgFromClient, clientVars, authVars, Inv, StateTypes, NetTypes
  <1>2. k \in Connection /\ k[1] = c /\ c \in Client /\ c # INVALID_INDEX /\ Live(k)
    BY <1>1, ConnectionFacts DEF Inv, StateTypes, NetTypes, SysId, Live
  <1>3. \A l \in Connection : up[l] \in Seq(Msg)
    BY DEF Inv, StateTypes, NetTypes
  <1> HIDE DEF c, k
  <1>4. /\ req \in Msg /\ req \in Elems(up[k])
        /\ Tail(up[k]) \in Seq(Msg) /\ Elems(Tail(up[k])) \subseteq Elems(up[k])
        /\ \A x \in Elems(Tail(up[k])) : \E j \in 1 .. Len(up[k]) : 1 < j /\ x = up[k][j]
        /\ \A j \in 1 .. Len(Tail(up[k])) : j + 1 \in 1 .. Len(up[k])
                                           /\ Tail(up[k])[j] = up[k][j + 1]
    BY <1>1, <1>2, <1>3, TailElems
  <1>5. req = up[k][1] /\ 1 \in 1 .. Len(up[k])
    BY <1>1, <1>2, <1>3
  <1> HIDE DEF req
  <1>6. e \in Req /\ e.client = c /\ e.no = req.no /\ e.op = req.op /\ req.no \in Nat
        /\ req = [no |-> e.no, op |-> e.op]
    BY <1>2, <1>4 DEF Req, Msg
  <1> HIDE DEF e
  <1>7. recvBuff \in Seq(Req)
    BY DEF Inv, StateTypes, NetTypes
  <1>8. recvBuff' \in Seq(Req) /\ Elems(recvBuff') = Elems(recvBuff) \union {e}
    BY <1>1, <1>6, <1>7, AppendElems
  <1>9. /\ up'[k] = Tail(up[k]) /\ \A l \in Connection \ {k} : up'[l] = up[l]
        /\ up' \in [Connection -> Seq(Msg)]
    BY <1>1, <1>2, <1>4 DEF Inv, StateTypes, NetTypes
  <1>10. \A l \in Connection : Elems(up'[l]) \subseteq Elems(up[l])
    BY <1>4, <1>9
  <1>11. StateTypes'
    BY <1>1, <1>8, <1>9 DEF Inv, StateTypes, ClientTypes, ConnTypes, NetTypes, DaemonTypes, Made
  <1>12. \A l : Live(l)' <=> Live(l)
    BY <1>1 DEF Live
  <1>13. ConnGood'
    <2>1. \A l \in Connection : l[2] > conns[l[1]] => up'[l] = <<>>
      BY <1>1, <1>9 DEF Inv, ConnGood
    <2>2. \A j \in Slot : SysId(j)' = SysId(j)
      BY <1>1 DEF SysId
    <2> QED
      BY <1>1, <1>12, <2>1, <2>2 DEF Inv, ConnGood
  <1>14. \A d, no, op : Known(d, no, op)' <=> Known(d, no, op)
    BY <1>1 DEF Known
  <1>15. UpGood'
    <2>1. ASSUME NEW l \in Connection, NEW a \in 1 .. Len(up'[l]), NEW b \in 1 .. Len(up'[l]), a < b
          PROVE  up'[l][a].no < up'[l][b].no
      <3>1. CASE l = k
        <4>1. /\ a + 1 \in 1 .. Len(up[k]) /\ up'[l][a] = up[k][a + 1]
              /\ b + 1 \in 1 .. Len(up[k]) /\ up'[l][b] = up[k][b + 1]
              /\ a + 1 < b + 1
          <5>1. up'[l] = Tail(up[k]) /\ a \in 1 .. Len(Tail(up[k])) /\ b \in 1 .. Len(Tail(up[k]))
            BY <1>9, <2>1, <3>1
          <5>2. /\ a + 1 \in 1 .. Len(up[k]) /\ Tail(up[k])[a] = up[k][a + 1]
                /\ b + 1 \in 1 .. Len(up[k]) /\ Tail(up[k])[b] = up[k][b + 1]
            BY <1>4, <5>1
          <5>3. a \in Nat /\ b \in Nat
            OBVIOUS
          <5>4. a + 1 < b + 1
            BY <2>1, <5>3
          <5> QED
            BY <5>1, <5>2, <5>4
        <4> QED
          BY <1>2, <4>1 DEF Inv, Flow, UpGood
      <3>2. CASE l # k
        BY <1>9, <2>1, <3>2 DEF Inv, Flow, UpGood
      <3> QED
        BY <3>1, <3>2
    <2>2. \A l \in Connection : \A m \in Elems(up'[l]) : Known(l[1], m.no, m.op)'
      BY <1>10, <1>14 DEF Inv, Flow, UpGood
    <2>3. \A l, j \in Connection : (l[1] = j[1] /\ l[2] < j[2]) =>
              \A m \in Elems(up'[l]), n \in Elems(up'[j]) : m.no < n.no
      BY <1>10 DEF Inv, Flow, UpGood
    <2> QED
      BY <2>1, <2>2, <2>3 DEF UpGood
  <1>16. RecvGood'
    <2>1. \A r \in Elems(recvBuff') : Known(r.client, r.no, r.op)'
      <3>1. Known(c, req.no, req.op)
        BY <1>2, <1>4 DEF Inv, Flow, UpGood
      <3> QED
        BY <1>6, <1>8, <1>14, <3>1 DEF Inv, Flow, RecvGood
    <2>2. ASSUME NEW r \in Elems(recvBuff), r.client = c PROVE r.no < e.no
      BY <1>2, <1>4, <1>6, <2>2 DEF Inv, Flow, RecvGood
    <2>3. ASSUME NEW a \in 1 .. Len(recvBuff'), NEW b \in 1 .. Len(recvBuff'), a < b,
                 recvBuff'[a].client = recvBuff'[b].client
          PROVE  recvBuff'[a].no < recvBuff'[b].no
      <3>1. /\ Len(recvBuff') = Len(recvBuff) + 1 /\ Len(recvBuff) \in Nat
            /\ \A j \in 1 .. Len(recvBuff) : recvBuff'[j] = recvBuff[j]
            /\ recvBuff'[Len(recvBuff) + 1] = e
        BY <1>1, <1>6, <1>7
      <3>2. a \in 1 .. Len(recvBuff) /\ recvBuff[a] \in Elems(recvBuff)
        BY <2>3, <3>1 DEF Elems
      <3>3. CASE b \in 1 .. Len(recvBuff)
        BY <2>3, <3>1, <3>2, <3>3 DEF Inv, Flow, RecvGood
      <3>4. CASE b = Len(recvBuff) + 1
        BY <1>6, <2>2, <2>3, <3>1, <3>2, <3>4
      <3> QED
        BY <2>3, <3>1, <3>3, <3>4
    <2>4. ASSUME NEW l \in Connection, l[1] = c, Live(l), NEW m \in Elems(up'[l])
          PROVE  e.no < m.no
      <3>1. CASE l = k
        <4>1. PICK j \in 1 .. Len(up[k]) : 1 < j /\ m = up[k][j]
          BY <1>4, <1>9, <2>4, <3>1
        <4> QED
          BY <1>2, <1>5, <1>6, <4>1 DEF Inv, Flow, UpGood
      <3>2. CASE l # k
        <4>1. l \in Elems(backlog)
          <5>1. ASSUME NEW j \in Slot, slot[j] = l PROVE j = i
            BY <1>2, <2>4, <5>1 DEF SysId, c, Inv, ConnGood
          <5> QED
            BY <2>4, <3>2, <5>1 DEF Live, k
        <4>2. k[2] < l[2]
          BY <2>4, <4>1 DEF Inv, ConnGood, c, k
        <4> QED
          BY <1>2, <1>4, <1>6, <1>10, <2>4, <4>2 DEF Inv, Flow, UpGood
      <3> QED
        BY <3>1, <3>2
    <2>5. ASSUME NEW r \in Elems(recvBuff'), NEW l \in Connection, l[1] = r.client, Live(l),
                 NEW m \in Elems(up'[l])
          PROVE  r.no < m.no
      <3>1. CASE r = e
        BY <1>6, <2>4, <2>5, <3>1
      <3>2. CASE r \in Elems(recvBuff)
        BY <1>10, <2>5, <3>2 DEF Inv, Flow, RecvGood
      <3> QED
        BY <1>8, <2>5, <3>1, <3>2
    <2> QED
      BY <1>12, <2>1, <2>3, <2>5 DEF RecvGood
  <1>17. ASSUME NEW d, NEW p \in Pending(d)' PROVE p \in Pending(d)
    <2>1. \/ \E r \in Elems(recvBuff') : r.client = d /\ p = [no |-> r.no, op |-> r.op]
          \/ \E l \in Connection : l[1] = d /\ Live(l)' /\ p \in Elems(up'[l])
      BY <1>17 DEF Pending
    <2>2. CASE d = c /\ p = req
      BY <1>2, <1>4, <2>2, PendingFacts
    <2>3. CASE \E r \in Elems(recvBuff) : r.client = d /\ p = [no |-> r.no, op |-> r.op]
      BY <2>3, PendingFacts
    <2>4. CASE \E l \in Connection : l[1] = d /\ Live(l) /\ p \in Elems(up[l])
      BY <2>4, PendingFacts
    <2> QED
      BY <1>6, <1>8, <1>10, <1>12, <2>1, <2>2, <2>3, <2>4
  <1>18. Service' = Service /\ \A d \in Client : Answers(d)' = Answers(d) /\ CallMoves(d)
    BY <1>1 DEF Service, Answers, CallMoves
  <1>19. ServiceGood'
    BY <1>11, <1>17, <1>18, ServiceStays DEF Inv, Flow
  <1>20. AnswersGood'
    BY <1>11, <1>18, AnswersStay DEF Inv, Flow
  <1>21. ASSUME NEW d \in Client PROVE Claims(d)'
    <2>1. Pending(d)' \subseteq Pending(d) /\ Answers(d)' \subseteq Answers(d) /\ Claims(d)
          /\ StateTypes
      BY <1>17, <1>18 DEF Inv
    <2> QED
      BY <1>1, <1>18, <2>1, ClaimsEase
  <1> QED
    BY <1>11, <1>13, <1>15, <1>16, <1>19, <1>20, <1>21 DEF Inv, Flow

LEMMA ReqMsgInv ==
    ASSUME Inv, ProcessReqMsg
    PROVE  Inv'
  <1> DEFINE req == Head(recvBuff)
             p0 == [no |-> req.no, op |-> req.op]
  <1>1. /\ Service.at = "idle" /\ recvBuff # <<>> /\ recvBuff' = Tail(recvBuff)
        /\ thread' = [thread EXCEPT !["service"] =
              [Idle EXCEPT !.at = "readAuthed", !.op = req.op, !.client = req.client, !.no = req.no]]
        /\ UNCHANGED <<status, call, callNo, online, conns, up, down, backlog, slot, sendBuff, authed,
                       owner, upset>>
    BY DEF ProcessReqMsg, clientVars, netVars, authVars, At, Service
  <1>2. recvBuff \in Seq(Req)
    BY DEF Inv, StateTypes, NetTypes
  <1>3. /\ req \in Req /\ req \in Elems(recvBuff)
        /\ recvBuff' \in Seq(Req) /\ Elems(recvBuff') \subseteq Elems(recvBuff)
        /\ \A x \in Elems(recvBuff') : \E j \in 1 .. Len(recvBuff) : 1 < j /\ x = recvBuff[j]
        /\ \A j \in 1 .. Len(recvBuff') : j + 1 \in 1 .. Len(recvBuff)
                                         /\ recvBuff'[j] = recvBuff[j + 1]
    BY <1>1, <1>2, TailElems
  <1>4. req = recvBuff[1] /\ 1 \in 1 .. Len(recvBuff)
    BY <1>1, <1>2
  <1> HIDE DEF req
  <1>5. /\ req.client \in Client /\ req.no \in Nat /\ req.op \in {"request", "release"}
        /\ p0.no = req.no /\ p0.op = req.op
    BY <1>3 DEF Req
  <1>6. p0 \in Pending(req.client)
    BY <1>3, PendingFacts
  <1> HIDE DEF p0
  <1> DEFINE r == [Idle EXCEPT !.at = "readAuthed", !.op = req.op, !.client = req.client, !.no = req.no]
  <1>7. r \in ThreadType /\ r.at = "readAuthed" /\ r.client = req.client /\ r.no = req.no
        /\ r.op = req.op
    BY <1>5, IdleType DEF SysIds, ThreadType, Op
  <1>8. thread' = [thread EXCEPT !["service"] = r]
    BY <1>1
  <1> HIDE DEF r
  <1>9. /\ thread' \in [Thread -> ThreadType]
        /\ Service'.at = "readAuthed" /\ Service'.client = req.client /\ Service'.no = req.no
        /\ Service'.op = req.op
    BY <1>7, <1>8 DEF Inv, StateTypes, DaemonTypes, Thread, Service
  <1>10. StateTypes'
    BY <1>1, <1>3, <1>9 DEF Inv, StateTypes, ClientTypes, ConnTypes, NetTypes, DaemonTypes, Made
  <1>11. \A l : Live(l)' <=> Live(l)
    BY <1>1 DEF Live
  <1>12. ConnGood'
    <2>1. \A j \in Slot : SysId(j)' = SysId(j)
      BY <1>1 DEF SysId
    <2> QED
      BY <1>1, <1>11, <2>1 DEF Inv, ConnGood
  <1>13. \A d, no, op : Known(d, no, op)' <=> Known(d, no, op)
    BY <1>1 DEF Known
  <1>14. UpGood'
    BY <1>1, <1>13 DEF Inv, Flow, UpGood
  <1>15. RecvGood'
    <2>1. ASSUME NEW a \in 1 .. Len(recvBuff'), NEW b \in 1 .. Len(recvBuff'), a < b,
                 recvBuff'[a].client = recvBuff'[b].client
          PROVE  recvBuff'[a].no < recvBuff'[b].no
      <3>1. /\ a + 1 \in 1 .. Len(recvBuff) /\ recvBuff'[a] = recvBuff[a + 1]
            /\ b + 1 \in 1 .. Len(recvBuff) /\ recvBuff'[b] = recvBuff[b + 1]
        BY <1>3
      <3>2. a + 1 < b + 1
        BY <2>1
      <3> QED
        BY <2>1, <3>1, <3>2 DEF Inv, Flow, RecvGood
    <2>2. \A q \in Elems(recvBuff') : Known(q.client, q.no, q.op)'
      BY <1>3, <1>13 DEF Inv, Flow, RecvGood
    <2>3. \A q \in Elems(recvBuff'), k \in Connection :
             (k[1] = q.client /\ Live(k)') => \A m \in Elems(up'[k]) : q.no < m.no
      BY <1>1, <1>3, <1>11 DEF Inv, Flow, RecvGood
    <2> QED
      BY <2>1, <2>2, <2>3 DEF RecvGood
  <1>16. ASSUME NEW d, NEW p \in Pending(d)'
         PROVE  p \in Pending(d) /\ (d = req.client => req.no < p.no)
    <2>1. \/ \E q \in Elems(recvBuff') : q.client = d /\ p = [no |-> q.no, op |-> q.op]
          \/ \E k \in Connection : k[1] = d /\ Live(k) /\ p \in Elems(up[k])
      BY <1>1, <1>11, <1>16 DEF Pending
    <2>2. ASSUME NEW q \in Elems(recvBuff'), q.client = d, p = [no |-> q.no, op |-> q.op]
          PROVE  p \in Pending(d) /\ (d = req.client => req.no < p.no)
      <3>1. PICK j \in 1 .. Len(recvBuff) : 1 < j /\ q = recvBuff[j]
        BY <1>3, <2>2
      <3>2. d = req.client => req.no < q.no
        BY <1>4, <2>2, <3>1 DEF Inv, Flow, RecvGood
      <3> QED
        BY <1>3, <2>2, <3>2, PendingFacts
    <2>3. ASSUME NEW k \in Connection, k[1] = d, Live(k), p \in Elems(up[k])
          PROVE  p \in Pending(d) /\ (d = req.client => req.no < p.no)
      <3>1. d = req.client => req.no < p.no
        BY <1>3, <2>3 DEF Inv, Flow, RecvGood
      <3> QED
        BY <2>3, <3>1, PendingFacts
    <2> QED
      BY <2>1, <2>2, <2>3
  <1>17. ServiceGood'
    <2>1. Known(req.client, req.no, req.op)
      BY <1>3 DEF Inv, Flow, RecvGood
    <2>2. \A p \in Pending(Service.client)' : Service'.no < p.no
      BY <1>9, <1>16
    <2>3. Known(Service.client, Service.no, Service.op)'
      BY <1>1, <1>9, <2>1 DEF Known
    <2> QED
      BY <1>5, <1>9, <2>2, <2>3 DEF ServiceGood
  <1>18. \A d \in Client : Answers(d)' = Answers(d) /\ CallMoves(d)
    BY <1>1 DEF Answers, CallMoves
  <1>19. AnswersGood'
    BY <1>10, <1>18, AnswersStay DEF Inv, Flow
  <1>20. ASSUME NEW d \in Client PROVE Claims(d)'
    <2>1. Claims(d) /\ StateTypes
      BY DEF Inv
    <2>2. Serves(d)' <=> d = req.client
      BY <1>9 DEF Serves
    <2>3. Pending(d)' \subseteq Pending(d)
      BY <1>16
    <2>4. Firm(d) => Firm(d)'
      BY <1>1, <1>5, <1>6, <1>9, <2>2, <2>3 DEF Firm, Kept
    <2>5. Granted(d)' => Granted(d)
      BY <1>1, <1>9, <1>18 DEF Granted
    <2>6. Holds(d)'
      BY <1>1, <2>1, <2>4 DEF Claims, Holds
    <2>7. Asks(d)'
      BY <1>1, <1>9, <2>1, <2>4, <2>5 DEF Claims, Asks
    <2>8. Releases(d)'
      <3> SUFFICES ASSUME d \notin upset, status[d] = "AUTHED", call[d] = "release"
                   PROVE  /\ \A a \in Answers(d) : a.no = callNo[d] => a.ok
                          /\ Serving(d)' => authed /\ owner = d
                          /\ (\E p \in Pending(d)' : p.no = callNo[d]) => Kept(d)'
                          /\ \A p \in Pending(d)' : p.op = "release" => p.no = callNo[d]
        BY <1>1, <1>9, <1>18 DEF Releases
      <3>1. /\ \A a \in Answers(d) : a.no = callNo[d] => a.ok
            /\ (\E p \in Pending(d) : p.no = callNo[d]) => Kept(d)
            /\ \A p \in Pending(d) : p.op = "release" => p.no = callNo[d]
        BY <2>1 DEF Claims, Releases
      <3>2. Serving(d)' => authed /\ owner = d
        <4> SUFFICES ASSUME Serving(d)' PROVE Kept(d)
          BY DEF Kept
        <4>1. d = req.client /\ p0.no = callNo[d]
          BY <1>1, <1>5, <1>9, <2>2 DEF Serving
        <4> QED
          BY <1>6, <3>1, <4>1
      <3>3. ASSUME NEW p \in Pending(d)', p.no = callNo[d] PROVE Kept(d)'
        <4>1. Kept(d)
          BY <2>3, <3>1, <3>3
        <4>2. ~(d = req.client /\ req.op = "release")
          <5> SUFFICES ASSUME d = req.client, req.op = "release" PROVE FALSE
            OBVIOUS
          <5>1. req.no = callNo[d]
            BY <1>5, <1>6, <3>1
          <5>2. req.no < p.no
            BY <1>16, <3>3
          <5> QED
            BY <1>5, <3>3, <5>1, <5>2
        <4> QED
          BY <1>1, <1>9, <2>2, <4>1, <4>2 DEF Kept
      <3> QED
        BY <2>3, <3>1, <3>2, <3>3
    <2> QED
      BY <2>6, <2>7, <2>8 DEF Claims
  <1> QED
    BY <1>10, <1>12, <1>14, <1>15, <1>17, <1>19, <1>20 DEF Inv, Flow

LEMMA SendRspInv ==
    ASSUME Inv, SendRspToClient
    PROVE  Inv'
  <1> DEFINE rsp == [client |-> Service.client, no |-> Service.no, ok |-> Service.ok]
             ans == [no |-> Service.no, ok |-> Service.ok]
  <1>1. /\ Service.at = "done" /\ sendBuff' = Append(sendBuff, rsp)
        /\ thread' = [thread EXCEPT !["service"] = Idle]
        /\ UNCHANGED <<status, call, callNo, online, conns, up, down, backlog, slot, recvBuff, authed,
                       owner, upset>>
    BY DEF SendRspToClient, clientVars, netVars, authVars, At, Service
  <1>2. /\ Service.client \in Client /\ Service.no \in Nat /\ Service.ok \in BOOLEAN
        /\ Service.no <= callNo[Service.client]
    BY <1>1 DEF Inv, Flow, ServiceGood, Known, StateTypes, DaemonTypes, Thread, ThreadType, Service
  <1>3. rsp \in Rsp /\ ans = [no |-> rsp.no, ok |-> rsp.ok] /\ rsp.client = Service.client
        /\ ans.no = Service.no /\ ans.ok = Service.ok
    BY <1>2 DEF Rsp
  <1> HIDE DEF rsp, ans
  <1>4. sendBuff' \in Seq(Rsp) /\ Elems(sendBuff') = Elems(sendBuff) \union {rsp}
    BY <1>1, <1>3, AppendElems DEF Inv, StateTypes, NetTypes
  <1>5. thread' \in [Thread -> ThreadType] /\ Service'.at = "idle"
    BY <1>1, IdleType DEF Inv, StateTypes, DaemonTypes, Service, Thread, Idle
  <1>6. StateTypes'
    BY <1>1, <1>4, <1>5 DEF Inv, StateTypes, ClientTypes, ConnTypes, NetTypes, DaemonTypes, Made
  <1>7. ConnGood' /\ \A l \in Connection : Live(l)' => Live(l) \/ up[l] = <<>>
    BY <1>1, SameNet DEF Inv
  <1>8. \A d \in Client : CallMoves(d)
    BY <1>1 DEF CallMoves
  <1>9. UpGood' /\ RecvGood' /\ \A d : Pending(d)' \subseteq Pending(d)
    BY <1>1, <1>6, <1>7, <1>8, FlowStays DEF Inv, Flow
  <1>10. ServiceGood'
    BY <1>5 DEF ServiceGood
  <1>11. ASSUME NEW d \in Client, NEW a \in Answers(d)'
         PROVE  a \in Answers(d) \/ (d = Service.client /\ a = ans)
    <2>1. \/ \E b \in Elems(sendBuff') : b.client = d /\ a = [no |-> b.no, ok |-> b.ok]
          \/ a \in Elems(down[d])
      BY <1>1, <1>11 DEF Answers
    <2> QED
      BY <1>3, <1>4, <2>1, AnswersFacts
  <1>12. AnswersGood'
    <2>1. ASSUME NEW d \in Client, NEW a \in Answers(d)' PROVE a.no <= callNo'[d]
      BY <1>1, <1>2, <1>3, <1>11, <2>1 DEF Inv, Flow, AnswersGood
    <2> QED
      BY <2>1 DEF AnswersGood
  <1>13. ASSUME NEW d \in Client PROVE Claims(d)'
    <2>1. Claims(d)
      BY DEF Inv
    <2>2. ~Serves(d)' /\ (Kept(d) => Kept(d)')
      BY <1>1, <1>5 DEF Serves, Kept
    <2>3. Firm(d) => Firm(d)'
      BY <1>9, <2>2 DEF Firm
    <2>4. Granted(d)' => Granted(d)
      <3> SUFFICES ASSUME NEW a \in Answers(d)', a.no = callNo[d], a.ok PROVE Granted(d)
        BY <1>1, <2>2 DEF Granted, Serving
      <3>1. CASE a \in Answers(d)
        BY <3>1 DEF Granted
      <3>2. CASE d = Service.client /\ a = ans
        BY <1>1, <1>3, <3>2 DEF Granted, Serving, Serves
      <3> QED
        BY <1>11, <3>1, <3>2
    <2>5. Holds(d)'
      BY <1>1, <2>1, <2>3 DEF Claims, Holds
    <2>6. Asks(d)'
      BY <1>1, <2>1, <2>2, <2>3, <2>4 DEF Claims, Asks, Serving
    <2>7. Releases(d)'
      <3> SUFFICES ASSUME d \notin upset, status[d] = "AUTHED", call[d] = "release"
                   PROVE  /\ \A a \in Answers(d)' : a.no = callNo[d] => a.ok
                          /\ (\E p \in Pending(d)' : p.no = callNo[d]) => Kept(d)'
                          /\ \A p \in Pending(d)' : p.op = "release" => p.no = callNo[d]
        BY <1>1, <2>2 DEF Releases, Serving
      <3>1. ASSUME NEW a \in Answers(d)', a.no = callNo[d] PROVE a.ok
        <4>1. CASE a \in Answers(d)
          BY <2>1, <3>1, <4>1 DEF Claims, Releases
        <4>2. CASE d = Service.client /\ a = ans
          <5>1. Serving(d)
            BY <1>1, <1>3, <3>1, <4>2 DEF Serving, Serves
          <5> QED
            BY <1>1, <1>3, <2>1, <4>2, <5>1 DEF Claims, Releases
        <4> QED
          BY <1>11, <3>1, <4>1, <4>2
      <3> QED
        BY <1>9, <2>1, <2>2, <3>1 DEF Claims, Releases
    <2> QED
      BY <2>5, <2>6, <2>7 DEF Claims
  <1> QED
    BY <1>6, <1>7, <1>9, <1>10, <1>12, <1>13 DEF Inv, Flow

(***************************************************************************)
(* DoAuthRequest and DoAuthRelease in the service thread.                  *)
(***************************************************************************)
LEMMA ServiceMoves ==
    ASSUME StateTypes, AuthStep("service")
    PROVE  \/ /\ Service.at = "readAuthed" /\ UNCHANGED <<authed, owner>>
              /\ \/ authed /\ Service'.at = "readOwner"
                 \/ /\ ~authed /\ Service.op = "request"
                    /\ Service'.at = "write" /\ Service'.todo = {"authed", "owner"}
                 \/ ~authed /\ Service.op # "request" /\ Service'.at = "readAgain"
           \/ /\ Service.at = "readOwner" /\ UNCHANGED <<authed, owner>>
              /\ \/ /\ Service.op = "request"
                    /\ Service'.at = "done" /\ (Service'.ok <=> owner = Service.client)
                 \/ Service.op # "request" /\ owner = Service.client /\ Service'.at = "write"
                 \/ Service.op # "request" /\ owner # Service.client /\ Service'.at = "readAgain"
           \/ /\ Service.at = "readAgain" /\ UNCHANGED <<authed, owner>>
              /\ \/ authed /\ Service'.at = "done" /\ ~Service'.ok
                 \/ ~authed /\ Service'.at = "write"
           \/ /\ Service.at = "write"
              /\ \E v \in Service.todo :
                    /\ authed' = IF v = "authed" THEN Service.op = "request" ELSE authed
                    /\ owner' = IF v = "owner"
                                THEN IF Service.op = "request" THEN Service.client ELSE NoClient
                                ELSE owner
                    /\ \/ Service.todo \ {v} = {} /\ Service'.at = "done" /\ Service'.ok
                       \/ /\ Service.todo \ {v} # {} /\ Service'.at = "write"
                          /\ Service'.todo = Service.todo \ {v}
  <1>1. "service" \in Thread /\ Service \in ThreadType /\ DOMAIN thread = Thread
    BY DEF StateTypes, DaemonTypes, Thread, Service
  <1>2. ASSUME NEW where, Goto("service", where) PROVE Service'.at = where
    BY <1>1, <1>2 DEF Goto, Service, ThreadType
  <1>3. ASSUME NEW ok \in BOOLEAN, Finish("service", ok)
        PROVE  Service'.at = "done" /\ (Service'.ok <=> ok)
    <2> DEFINE r == [Service EXCEPT !.at = "done", !.ok = ok]
    <2>1. r.at = "done" /\ r.ok = ok
      BY <1>1 DEF ThreadType
    <2>2. Service' = r
      BY <1>1, <1>3 DEF Finish, Service
    <2> HIDE DEF r
    <2> QED
      BY <2>1, <2>2
  <1>4. ASSUME NEW S, thread' = [thread EXCEPT !["service"].at = "write", !["service"].todo = S]
        PROVE  Service'.at = "write" /\ Service'.todo = S
    <2> DEFINE r == [Service EXCEPT !.at = "write", !.todo = S]
    <2>1. r.at = "write" /\ r.todo = S
      BY <1>1 DEF ThreadType
    <2>2. Service' = r
      BY <1>1, <1>4 DEF Service
    <2> HIDE DEF r
    <2> QED
      BY <2>1, <2>2
  <1>5. CASE ReadAuthed("service")
    BY <1>2, <1>4, <1>5 DEF ReadAuthed, Change, At, Service, authVars
  <1>6. CASE ReadOwner("service")
    <2> DEFINE mine == owner = Service.client
    <2>1. Service.at = "readOwner" /\ UNCHANGED <<authed, owner>>
      BY <1>6 DEF ReadOwner, At, Service, authVars
    <2>2. CASE Service.op = "request"
      <3>1. Finish("service", mine)
        BY <1>6, <2>2 DEF ReadOwner, Service
      <3>2. Service'.at = "done" /\ (Service'.ok <=> mine)
        BY <1>3, <3>1
      <3> QED
        BY <2>1, <2>2, <3>2
    <2>3. CASE Service.op # "request"
      BY <1>2, <1>4, <1>6, <2>1, <2>3 DEF ReadOwner, Change, Service
    <2> QED
      BY <2>2, <2>3
  <1>7. CASE ReadAuthedAgain("service")
    BY <1>3, <1>4, <1>7 DEF ReadAuthedAgain, At, Service, authVars
  <1>8. CASE Write("service")
    <2>1. PICK v \in Service.todo :
             LET left == Service.todo \ {v}
                 grant == Service.op = "request"
             IN  /\ authed' = IF v = "authed" THEN grant ELSE authed
                 /\ owner' = IF v = "owner" THEN IF grant THEN Service.client ELSE NoClient ELSE owner
                 /\ IF left = {}
                    THEN thread' = [thread EXCEPT !["service"].at = "done", !["service"].todo = {},
                                                  !["service"].ok = TRUE]
                    ELSE thread' = [thread EXCEPT !["service"].todo = left]
      BY <1>8 DEF Write, Service
    <2>2. Service.at = "write"
      BY <1>8 DEF Write, At, Service
    <2>3. CASE Service.todo \ {v} = {}
      <3> DEFINE r == [Service EXCEPT !.at = "done", !.todo = {}, !.ok = TRUE]
      <3>1. r.at = "done" /\ r.ok = TRUE
        BY <1>1 DEF ThreadType
      <3>2. Service' = r
        BY <1>1, <2>1, <2>3 DEF Service
      <3> HIDE DEF r
      <3> QED
        BY <2>1, <2>2, <2>3, <3>1, <3>2
    <2>4. CASE Service.todo \ {v} # {}
      <3> DEFINE S == Service.todo \ {v}
                 r == [Service EXCEPT !.todo = S]
      <3>1. r.at = "write" /\ r.todo = S
        BY <1>1, <2>2 DEF ThreadType
      <3>2. Service' = r
        BY <1>1, <2>1, <2>4 DEF Service
      <3> HIDE DEF r
      <3> QED
        BY <2>1, <2>2, <2>4, <3>1, <3>2
    <2> QED
      BY <2>3, <2>4
  <1> QED
    BY <1>5, <1>6, <1>7, <1>8 DEF AuthStep

\* Every request that waits is one of the calls of its app.
LEMMA PendingKnown ==
    ASSUME UpGood, RecvGood, NEW c, NEW p \in Pending(c)
    PROVE  Known(c, p.no, p.op)
  <1>1. ASSUME NEW r \in Elems(recvBuff), r.client = c, p = [no |-> r.no, op |-> r.op]
        PROVE  Known(c, p.no, p.op)
    <2>1. p.no = r.no /\ p.op = r.op
      BY <1>1
    <2> QED
      BY <1>1, <2>1 DEF RecvGood
  <1>2. ASSUME NEW k \in Connection, k[1] = c, p \in Elems(up[k])
        PROVE  Known(c, p.no, p.op)
    BY <1>2 DEF UpGood
  <1> QED
    BY <1>1, <1>2, PendingFacts

LEMMA ServiceAuthInv ==
    ASSUME Inv, AuthStep("service")
    PROVE  Inv'
  <1>1. "service" \in Thread
    BY DEF Thread
  <1>2. /\ StateTypes'
        /\ UNCHANGED <<status, call, callNo, online, conns, up, down, backlog, slot, recvBuff,
                       sendBuff>>
        /\ Service.at # "idle" /\ Service'.at # "idle"
        /\ Service'.client = Service.client /\ Service'.no = Service.no /\ Service'.op = Service.op
    <2>1. PICK r \in ThreadType :
                /\ thread' = [thread EXCEPT !["service"] = r]
                /\ r.client = Service.client /\ r.no = Service.no
                /\ r.op = Service.op /\ r.at # "idle" /\ Service.at # "idle"
      BY <1>1, AuthStepTypes DEF Inv, Service
    <2>2. Service' = r
      BY <2>1 DEF Service, Inv, StateTypes, DaemonTypes, Thread
    <2> QED
      BY <1>1, <2>1, <2>2, AuthStepTypes DEF Inv
  <1>3. upset' = upset
    BY DEF AuthStep, ReadAuthed, ReadOwner, ReadAuthedAgain, Write
  <1>4. /\ Service.client \in Client /\ Service.op \in {"request", "release"}
        /\ Service.at = "readAgain" => Service.op # "request"
        /\ Known(Service.client, Service.no, Service.op)
        /\ \A p \in Pending(Service.client) : Service.no < p.no
        /\ Service.no \in Nat
    BY <1>2 DEF Inv, Flow, ServiceGood, StateTypes, DaemonTypes, Thread, ThreadType, Service
  <1>5. StateTypes
    BY DEF Inv
  <1>6. Service'.at = "readAgain" => Service.op # "request"
    BY <1>5, ServiceMoves
  <1>7. ConnGood' /\ (\A k : Live(k)' <=> Live(k)) /\ (\A d : Pending(d)' = Pending(d))
    BY <1>2, SameNet, PendingSame DEF Inv
  <1>8. \A d \in Client : Answers(d)' = Answers(d) /\ CallMoves(d)
    BY <1>2 DEF Answers, CallMoves
  <1>9. UpGood' /\ RecvGood'
    BY <1>2, <1>7, <1>8, FlowStays DEF Inv, Flow
  <1>10. ServiceGood'
    BY <1>2, <1>6, <1>7, <1>8, ServiceStays DEF Inv, Flow
  <1>11. AnswersGood'
    BY <1>2, <1>8, AnswersStay DEF Inv, Flow
  <1>12. ASSUME NEW d \in Client PROVE Claims(d)'
    <2>1. Claims(d)
      BY DEF Inv
    <2>2. (Serves(d)' <=> Serves(d)) /\ (Serving(d)' <=> Serving(d))
      BY <1>2 DEF Serves, Serving
    <2>3. ASSUME Kept(d) PROVE Kept(d)'
      <3>1. authed /\ owner = d /\ Service.at # "write" /\ ~(Serves(d) /\ Service.op = "release")
        BY <2>3 DEF Kept
      <3>2. authed' = authed /\ owner' = owner /\ Service'.at # "write"
        BY <1>2, <1>4, <1>5, <3>1, ServiceMoves DEF Serves
      <3> QED
        BY <1>2, <2>2, <3>1, <3>2 DEF Kept
    <2>4. Firm(d) => Firm(d)'
      BY <1>7, <2>3 DEF Firm
    <2>5. Holds(d)'
      BY <1>2, <1>3, <2>1, <2>4 DEF Claims, Holds
    <2>6. Asks(d)'
      <3> SUFFICES ASSUME d \notin upset, call[d] = "request"
                   PROVE  /\ Granted(d)' => Firm(d)'
                          /\ Serving(d)' /\ Service'.at = "readOwner" => authed'
                          /\ Serving(d)' /\ Service'.at = "write" =>
                                /\ "authed" \in Service'.todo \/ authed'
                                /\ "owner" \in Service'.todo \/ owner' = d
        BY <1>2, <1>3 DEF Asks
      <3>1. /\ Granted(d) => Firm(d)
            /\ Serving(d) /\ Service.at = "readOwner" => authed
            /\ Serving(d) /\ Service.at = "write" =>
                  /\ "authed" \in Service.todo \/ authed
                  /\ "owner" \in Service.todo \/ owner = d
        BY <2>1 DEF Claims, Asks
      <3>2. Serving(d) => Service.op = "request" /\ Service.client = d
        BY <1>4 DEF Serving, Serves, Known
      <3>3. ASSUME Serving(d) PROVE Pending(d) = {}
        <4> SUFFICES ASSUME NEW p \in Pending(d) PROVE FALSE
          OBVIOUS
        <4>1. p.no \in Nat /\ p.no <= callNo[d] /\ callNo[d] \in Nat
          BY <1>5, FlowTypes, PendingKnown, ControlAuthAssumption
             DEF Inv, Flow, Known, Msg, StateTypes, ClientTypes
        <4>2. Service.no < p.no /\ Service.no = callNo[d]
          BY <1>4, <3>2, <3>3 DEF Serving
        <4> QED
          BY <4>1, <4>2
      <3>4. ASSUME Serving(d), Service'.at = "done", Service'.ok PROVE Firm(d)'
        <4>1. authed' /\ owner' = d
          BY <1>4, <1>5, <3>1, <3>2, <3>4, ServiceMoves
        <4>2. Kept(d)'
          BY <1>2, <3>2, <3>4, <4>1 DEF Kept
        <4> QED
          BY <1>7, <3>3, <3>4, <4>2 DEF Firm
      <3>5. Granted(d)' => Firm(d)'
        BY <1>2, <1>8, <2>2, <2>4, <3>1, <3>4 DEF Granted
      <3>6. Serving(d)' /\ Service'.at = "readOwner" => authed'
        BY <1>5, ServiceMoves
      <3>7. ASSUME Serving(d), Service'.at = "write"
            PROVE  /\ "authed" \in Service'.todo \/ authed'
                   /\ "owner" \in Service'.todo \/ owner' = d
        BY <1>4, <1>5, <3>1, <3>2, <3>7, ServiceMoves
      <3> QED
        BY <2>2, <3>5, <3>6, <3>7
    <2>7. Releases(d)'
      <3> SUFFICES ASSUME d \notin upset, status[d] = "AUTHED", call[d] = "release"
                   PROVE  /\ Serving(d) =>
                                /\ Service'.at # "readAgain"
                                /\ Service'.at = "done" => Service'.ok
                                /\ Service'.at \in {"readAuthed", "readOwner"} =>
                                      authed' /\ owner' = d
                          /\ \A a \in Answers(d) : a.no = callNo[d] => a.ok
                          /\ (\E p \in Pending(d) : p.no = callNo[d]) => Kept(d)'
                          /\ \A p \in Pending(d) : p.op = "release" => p.no = callNo[d]
        BY <1>2, <1>3, <1>7, <1>8, <2>2 DEF Releases
      <3>1. /\ Serving(d) =>
                  /\ Service.at # "readAgain"
                  /\ Service.at = "done" => Service.ok
                  /\ Service.at \in {"readAuthed", "readOwner"} => authed /\ owner = d
            /\ \A a \in Answers(d) : a.no = callNo[d] => a.ok
            /\ (\E p \in Pending(d) : p.no = callNo[d]) => Kept(d)
            /\ \A p \in Pending(d) : p.op = "release" => p.no = callNo[d]
        BY <2>1 DEF Claims, Releases
      <3>2. Serving(d) => Service.op = "release" /\ Service.client = d
        BY <1>4 DEF Serving, Serves, Known
      <3>3. ASSUME Serving(d)
            PROVE  /\ Service'.at # "readAgain"
                   /\ Service'.at = "done" => Service'.ok
                   /\ Service'.at \in {"readAuthed", "readOwner"} => authed' /\ owner' = d
        BY <1>5, <3>1, <3>2, <3>3, ServiceMoves
      <3> QED
        BY <2>3, <3>1, <3>3
    <2> QED
      BY <2>5, <2>6, <2>7 DEF Claims
  <1> QED
    BY <1>2, <1>7, <1>9, <1>10, <1>11, <1>12 DEF Inv, Flow

(***************************************************************************)
(* The theorems.                                                           *)
(***************************************************************************)
LEMMA InitInv ==
    ASSUME Init
    PROVE  Inv
  <1>1. Made = {}
    BY ConnectionFacts, ControlAuthAssumption DEF Init, Made, Connection
  <1>2. /\ up \in [Connection -> Seq(Msg)] /\ \A k \in Connection : up[k] = <<>>
        /\ down \in [Client -> Seq(Ans)] /\ \A c \in Client : down[c] = <<>>
        /\ backlog = <<>> /\ recvBuff = <<>> /\ sendBuff = <<>>
        /\ backlog \in Seq(Connection) /\ recvBuff \in Seq(Req) /\ sendBuff \in Seq(Rsp)
    BY DEF Init
  <1>3. slot \in [Slot -> Connection \union {NoConn}] /\ \A i \in Slot : slot[i] = NoConn
    BY DEF Init
  <1>4. thread \in [Thread -> ThreadType] /\ Service.at = "idle"
    BY IdleType DEF Init, Thread, Service, Idle
  <1>5. ClientTypes
    BY ControlAuthAssumption DEF Init, ClientTypes, Op
  <1>6. ConnTypes
    BY <1>1, FS_EmptySet, ControlAuthAssumption DEF Init, ConnTypes
  <1>7. StateTypes
    BY <1>2, <1>3, <1>4, <1>5, <1>6 DEF SysIds, StateTypes, NetTypes, DaemonTypes, Init
  <1>8. /\ Elems(backlog) = {} /\ Elems(recvBuff) = {} /\ Elems(sendBuff) = {}
        /\ \A k \in Connection : Elems(up[k]) = {}
        /\ \A c \in Client : Elems(down[c]) = {}
    BY <1>2, EmptyElems
  <1>9. \A k \in Connection : ~Live(k)
    BY <1>3, <1>8, ConnectionFacts DEF Live
  <1>10. (\A c : Pending(c) = {}) /\ \A c \in Client : Answers(c) = {}
    BY <1>8 DEF Pending, Answers
  <1>11. ConnGood
    <2>1. \A i \in Slot : SysId(i) = INVALID_INDEX
      BY <1>3, ConnectionFacts DEF SysId
    <2>2. Len(backlog) = 0
      BY <1>2
    <2> QED
      BY <1>2, <1>8, <1>9, <2>1, <2>2 DEF ConnGood
  <1>12. Flow
    <2>1. Len(recvBuff) = 0 /\ \A k \in Connection : Len(up[k]) = 0
      BY <1>2
    <2>2. UpGood
      BY <1>8, <2>1 DEF UpGood
    <2>3. RecvGood
      BY <1>8, <2>1 DEF RecvGood
    <2>4. ServiceGood /\ AnswersGood
      BY <1>4, <1>10 DEF ServiceGood, AnswersGood
    <2> QED
      BY <2>2, <2>3, <2>4 DEF Flow
  <1>13. \A c \in Client : Claims(c)
    BY DEF Init, Claims, Holds, Asks, Releases
  <1> QED
    BY <1>7, <1>11, <1>12, <1>13 DEF Inv

LEMMA StutterInv ==
    ASSUME Inv, UNCHANGED vars
    PROVE  Inv'
  <1>1. UNCHANGED <<status, call, callNo, online, conns, up, down, backlog, slot, recvBuff, sendBuff,
                    authed, owner, thread, upset>>
    BY DEF vars, clientVars, netVars, authVars
  <1>2. StateTypes'
    BY <1>1 DEF Inv, StateTypes, ClientTypes, ConnTypes, NetTypes, DaemonTypes, Made
  <1>3. ConnGood' /\ \A k : Live(k)' => Live(k)
    BY <1>1, SameNet DEF Inv
  <1>4. \A d \in Client : Answers(d)' \subseteq Answers(d)
    BY <1>1, FewerAnswers
  <1>5. (\A d \in Client : Eases(d)) /\ Service' = Service
    BY <1>1 DEF Eases, Service
  <1> QED
    BY <1>1, <1>2, <1>3, <1>4, <1>5, QuietStep

LEMMA NextInv ==
    ASSUME Inv, [Next]_vars
    PROVE  Inv'
  <1>1. ASSUME NEW c \in Client, ClientStep(c) PROVE Inv'
    <2>1. CASE PWR_Register(c) \/ Reconnect(c)
      BY <2>1, ConnectInv
    <2>2. CASE PWR_UnRegister(c)
      BY <2>2, UnRegisterInv
    <2>3. CASE NoticeClosed(c)
      BY <2>3, NoticeClosedInv
    <2>4. CASE PWR_RequestControlAuth(c)
      <3>1. Begins(c, "request")
        BY <2>4 DEF PWR_RequestControlAuth, Begins
      <3> QED
        BY <3>1, BeginsInv
    <2>5. CASE PWR_ReleaseControlAuth(c)
      <3>1. Begins(c, "release")
        BY <2>5 DEF PWR_ReleaseControlAuth, Begins
      <3> QED
        BY <3>1, BeginsInv
    <2>6. CASE CallTimesOut(c)
      BY <2>6, CallTimesOutInv
    <2>7. CASE ReceiveAnswer(c)
      BY <2>7, ReceiveAnswerInv
    <2> QED
      BY <1>1, <2>1, <2>2, <2>3, <2>4, <2>5, <2>6, <2>7 DEF ClientStep
  <1>2. ASSUME DaemonStep PROVE Inv'
    <2>1. ASSUME NEW t \in Thread, AuthStep(t) PROVE Inv'
      BY <2>1, ServiceAuthInv, SocketAuthInv DEF Thread
    <2>2. CASE ProcessReqMsg
      BY <2>2, ReqMsgInv
    <2>3. CASE SendRspToClient
      BY <2>3, SendRspInv
    <2>4. CASE AcceptConnection
      BY <2>4, AcceptInv
    <2>5. ASSUME NEW i \in Slot, ProcessRecvMsgFromClient(i) PROVE Inv'
      BY <2>5, RecvMsgInv
    <2>6. ASSUME NEW i \in Slot, ReadEndOfStream(i) PROVE Inv'
      BY <2>6, EndOfStreamInv
    <2>7. CASE DeleteFromClientList
      BY <2>7, DeleteFromListInv
    <2>8. CASE ProcessSendMsgToClient
      BY <2>8, SendAnswerInv
    <2> QED
      BY <1>2, <2>1, <2>2, <2>3, <2>4, <2>5, <2>6, <2>7, <2>8 DEF DaemonStep
  <1> QED
    BY <1>1, <1>2, StutterInv DEF Next

LEMMA SpecInv == Spec => []Inv
  BY InitInv, NextInv, PTL DEF Spec

\* The types of the apps' state, of what is on the way in either direction, of the daemon's
\* list of clients and of the authority (g_authed, g_authOwner) are right in every state.
THEOREM TypeCorrect == Spec => []TypeOK
  <1>1. ASSUME Inv PROVE TypeOK
    <2>1. StateTypes
      BY <1>1 DEF Inv
    <2>2. \A j \in 1 .. Len(recvBuff) : recvBuff[j] \in Req
      BY <2>1 DEF StateTypes, NetTypes
    <2>3. \A j \in 1 .. Len(sendBuff) : sendBuff[j] \in Rsp
      BY <2>1 DEF StateTypes, NetTypes
    <2>4. \A j \in 1 .. Len(backlog) : backlog[j] \in Connection
      BY <2>1 DEF StateTypes, NetTypes
    <2>5. \A t \in Thread : thread[t] \in ThreadType
      BY <2>1 DEF StateTypes, DaemonTypes
    <2> QED
      BY <2>1, <2>2, <2>3, <2>4, <2>5
         DEF TypeOK, StateTypes, ClientTypes, ConnTypes, NetTypes, DaemonTypes, Req, Rsp, ThreadType, Op
  <1> QED
    BY <1>1, SpecInv, PTL

\* AddToClientList and DeleteFromClientList (server.c) keep at most one slot for an app,
\* however often it connects again, and whenever the daemon accepts the new connection or
\* notices that the old one is gone.
THEOREM SlotsCorrect == Spec => []OneSlotPerClient
  <1>1. ASSUME Inv PROVE OneSlotPerClient
    <2> SUFFICES ASSUME NEW c \in Client PROVE Cardinality(SlotsOf(c)) <= 1
      BY DEF OneSlotPerClient
    <2>1. c # INVALID_INDEX
      BY ControlAuthAssumption
    <2>2. \A i, j \in SlotsOf(c) : i = j
      BY <1>1, <2>1 DEF Inv, ConnGood, SlotsOf
    <2>3. CASE SlotsOf(c) = {}
      <3>1. Cardinality(SlotsOf(c)) = 0
        BY <2>3, FS_EmptySet
      <3> QED
        BY <3>1
    <2>4. CASE SlotsOf(c) # {}
      <3>1. PICK i : i \in SlotsOf(c)
        BY <2>4
      <3>2. SlotsOf(c) = {i}
        BY <2>2, <3>1
      <3>3. Cardinality(SlotsOf(c)) = 1
        BY <3>2, FS_Singleton
      <3> QED
        BY <3>3
    <2> QED
      BY <2>3, <2>4
  <1> QED
    BY <1>1, SpecInv, PTL

\* An app whose g_status says it has control has it: DoAuthRequest and DoAuthRelease
\* (comservice.c) keep g_authed set with the app as g_authOwner, whatever the other apps do
\* and however the threads interleave; except while it releases, and when its release timed
\* out, the daemon restarted, or the socket thread released the authority since it asked.
THEOREM ControlCorrect == Spec => []ControlIsHeld
  <1>1. ASSUME Inv PROVE ControlIsHeld
    BY <1>1 DEF Inv, Claims, Holds, Firm, Kept, ControlIsHeld
  <1> QED
    BY <1>1, SpecInv, PTL
=============================================================================
