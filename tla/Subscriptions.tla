--------------------------- MODULE Subscriptions ---------------------------
(***************************************************************************)
(* What the task service of the daemon promises to the clients that let    *)
(* data be collected: a table of who is subscribed to which type of data   *)
(* at which interval.  Requests are served in their order, and one at a    *)
(* time: a client gets the interval it asked for, and once it has no       *)
(* longer a subscription, everybody else has theirs as before.  The table  *)
(* has room for so many types and so many clients of a type.  Module       *)
(* TaskService has the list of tasks and is shown to implement this.       *)
(***************************************************************************)
EXTENDS Naturals, Sequences, FiniteSets

CONSTANTS
    Client,
    NoClient,
    DataType,
    Interval,
    Capacity,   \* most clients of a type
    MaxTypes    \* most types with a client

VARIABLES
    requests,   \* those not served yet
    subs,       \* for each type the subscriptions: [sysId, interval]
    removal     \* whose subscriptions are being ended, and for which types still

vars == <<requests, subs, removal>>

Request == [op : {"create", "delete"}, client : Client, type : DataType,
            interval : Interval \union {0}]
Nobody == [client |-> NoClient, types |-> {}]

Init ==
    /\ requests = <<>>
    /\ subs = [d \in DataType |-> {}]
    /\ removal = Nobody

\* The subscriptions of d but for that of c.
Others(d, c) == {s \in subs[d] : s.sysId # c}

HasRoom ==
    /\ \A d \in DataType : Cardinality(subs[d]) <= Capacity
    /\ Cardinality({d \in DataType : subs[d] # {}}) <= MaxTypes

Ask ==
    /\ \E r \in Request : requests' = Append(requests, r)
    /\ UNCHANGED <<subs, removal>>

Serve(op) ==
    /\ requests # <<>> /\ Head(requests).op = op
    /\ removal = Nobody
    /\ requests' = Tail(requests)

\* A client subscribes, or changes its interval.
Subscribe ==
    /\ Serve("create")
    /\ LET r == Head(requests)
       IN  subs' = [subs EXCEPT ![r.type] =
               Others(r.type, r.client) \union {[sysId |-> r.client, interval |-> r.interval]}]
    /\ HasRoom'
    /\ UNCHANGED removal

\* Only who is not subscribed is turned down, when the type is full or nobody has it yet.
Refuse ==
    /\ Serve("create")
    /\ LET r == Head(requests)
       IN  /\ Others(r.type, r.client) = subs[r.type]
           /\ subs[r.type] = {} \/ Cardinality(subs[r.type]) = Capacity
    /\ UNCHANGED <<subs, removal>>

Begin(c, T) == removal' = [client |-> c, types |-> {d \in T : subs[d] # {}}]

Unsubscribe ==
    /\ Serve("delete")
    /\ Begin(Head(requests).client, {Head(requests).type})
    /\ UNCHANGED subs

\* All subscriptions of a client end.
CleanUp ==
    /\ removal = Nobody
    /\ \E c \in Client \union {NoClient} : Begin(c, DataType)
    /\ UNCHANGED <<requests, subs>>

\* One subscription ends; the type may take longer to be done with.
EndIn(d) ==
    /\ d \in removal.types
    /\ subs' = [subs EXCEPT ![d] = Others(d, removal.client)]
    /\ \E T \in {removal.types, removal.types \ {d}} : removal' = [removal EXCEPT !.types = T]
    /\ UNCHANGED requests

Finish ==
    /\ removal.types = {}
    /\ removal' = Nobody
    /\ UNCHANGED <<requests, subs>>

Next ==
    \/ Finish \/ Ask \/ Subscribe \/ Refuse
    \/ Unsubscribe \/ CleanUp \/ (\E d \in DataType : EndIn(d))

Spec == Init /\ [][Next]_vars
=============================================================================
