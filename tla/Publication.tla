---------------------------- MODULE Publication ----------------------------
(***************************************************************************)
(* The way of a datagram from udp_client.py to a subscriber's screen: the  *)
(* client, the server's UDP socket, the struct the server receives into,   *)
(* the frames of one subscriber that is subscribed to "*", and what it     *)
(* shows.  Client and server are on one host, as in test.py, so datagrams  *)
(* keep their order and are dropped only when the socket is full.          *)
(* Routing, sessions and the TCP stream are in Server and Connection.      *)
(***************************************************************************)
EXTENDS UdpClient, Datagram

CONSTANTS QueueRoom,   \* datagrams the server's UDP socket holds
          Leftovers,   \* what other calls may leave in the memory of the struct
          Beyond       \* the characters that may follow the subscriber's struct

ASSUME PublicationAssumption ==
    /\ QueueRoom \in Nat
    /\ Leftovers \subseteq Message /\ Leftovers # {}
    /\ Beyond \subseteq Seq(Byte)
    /\ \A p \in Payloads : p.bytes = None \/ p.bytes \in Seq(Byte)

VARIABLES queue,             \* the datagrams in the server's socket, each with its number
          dropped,           \* the numbers of those that found no room
          received_message,  \* the memory of the server's local variable
          frames,            \* the messages on their way to the subscriber
          subscriber,        \* "up" or "crashed"
          shown              \* what the subscriber has displayed

pathVars == <<queue, dropped, received_message, frames, subscriber, shown>>
vars == <<clientVars, pathVars>>

Init ==
    /\ ClientInit
    /\ queue = <<>> /\ dropped = {}
    /\ received_message \in Leftovers
    /\ frames = <<>> /\ subscriber = "up" /\ shown = <<>>

\* A datagram that the client has just sent gets into the socket or is dropped.
Arrive ==
    /\ sent' # sent
    /\ Len(queue) < QueueRoom
    /\ queue' = Append(queue, [n |-> Len(sent'), bytes |-> File[Last(sent')].bytes])
    /\ UNCHANGED dropped

Drop ==
    /\ sent' # sent
    /\ Len(queue) >= QueueRoom
    /\ dropped' = dropped \cup {Len(sent')}
    /\ UNCHANGED queue

NoDatagram == sent' = sent /\ UNCHANGED <<queue, dropped>>

Client ==
    /\ ClientNext
    /\ Arrive \/ Drop \/ NoDatagram
    /\ UNCHANGED <<received_message, frames, subscriber, shown>>

\* Seeded defect: the datagram is looked at and not taken.
ReceivePeek ==
    /\ queue # <<>>
    /\ received_message' = Received(received_message, Head(queue).bytes)
    /\ frames' = Append(frames, [n |-> Head(queue).n, msg |-> received_message'])
    /\ UNCHANGED <<clientVars, queue, dropped, subscriber, shown>>

\* Seeded defect: a datagram shorter than the struct is thrown away.
ReceiveWhole ==
    /\ queue # <<>>
    /\ received_message' = Received(received_message, Head(queue).bytes)
    /\ frames' = frames \o [i \in 1..(Len(Head(queue).bytes) \div MessageSize) |->
                               [n |-> Head(queue).n, msg |-> received_message']]
    /\ queue' = Tail(queue)
    /\ UNCHANGED <<clientVars, dropped, subscriber, shown>>

\* One round of the loop over the UDP socket.  The local variable is not
\* initialised: its memory holds the last datagram, or what other calls left.
Receive ==
    /\ queue # <<>>
    /\ \E old \in {received_message} \cup Leftovers :
           received_message' = Received(old, Head(queue).bytes)
    /\ frames' = Append(frames, [n |-> Head(queue).n, msg |-> received_message'])
    /\ queue' = Tail(queue)
    /\ UNCHANGED <<clientVars, dropped, subscriber, shown>>

\* receive_message displays one frame.
Show ==
    /\ subscriber = "up" /\ frames # <<>>
    /\ LET frame == Head(frames)
       IN  /\ ~DividesByZero(frame.msg)
           /\ \E beyond \in Beyond :
                 shown' = Append(shown, [n       |-> frame.n,
                                         topic   |-> TopicOf(frame.msg),
                                         type    |-> TypeName(frame.msg),
                                         content |-> Displayed(frame.msg, beyond)])
    /\ frames' = Tail(frames)
    /\ UNCHANGED <<clientVars, queue, dropped, received_message, subscriber>>

Crash ==
    /\ subscriber = "up" /\ frames # <<>>
    /\ DividesByZero(Head(frames).msg)
    /\ subscriber' = "crashed"
    /\ UNCHANGED <<clientVars, queue, dropped, received_message, frames, shown>>

Next == Client \/ Receive \/ Show \/ Crash

Spec == Init /\ [][Next]_vars

\* The client runs by itself up to the operator's next line; the loops of the
\* server and of the subscriber keep running.
FairSpec == Spec /\ ClientFairness /\ WF_vars(Receive) /\ WF_vars(Show \/ Crash)

==============================================================================
