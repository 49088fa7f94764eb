------------------------------- MODULE Fanout -------------------------------
(***************************************************************************)
(* Several connections under one server loop: what the blocking sends of   *)
(* server.cpp do to the others when one subscriber is slow.  A stream is   *)
(* counted in units: a frame has MessageLen or AckLen of them, header      *)
(* included, and the buffers towards a subscriber hold DownRoom.  All      *)
(* subscribers stay connected; they come and go in Server.                 *)
(***************************************************************************)
EXTENDS Naturals, FiniteSets, SequencesExt

CONSTANTS N,            \* subscribers, in the order of poll_fds
          MessageLen,   \* units of a message with its header
          AckLen,       \* units of an acknowledgement with its header
          DownRoom,     \* units the buffers towards one subscriber hold
          UpRoom,       \* requests the buffers from one subscriber hold
          Pausing,      \* subscribers whose terminal may stop taking output
          MaxMessages,  \* bound on the datagrams that arrive
          MaxRequests   \* bound on the requests of each subscriber

Clients == 1..N

ASSUME FanoutAssumption ==
    /\ {N, MessageLen, AckLen, DownRoom, UpRoom} \subseteq Nat \ {0}
    /\ {MaxMessages, MaxRequests} \subseteq Nat
    /\ Pausing \subseteq Clients

VARIABLES
    \* server: place in the turn, poll's result, topic sets, datagrams that have
    \* come, for each that was routed the clients it matched, those it has yet
    \* to be sent to, the entry being scanned, what sendall() has left and for whom
    pc, ready, subscribed, arrived, matched, targets, i, left, to,
    \* for each client: the frames begun for it, the units and the requests in
    \* the buffers
    frames, down, up,
    \* for each client: where its process is, or the request it sends, how many
    \* it has made, the units of a frame it has, the frames it has shown
    cpc, asked, incoming, shown

server  == <<pc, ready, subscribed, arrived, matched, targets, i, left, to>>
process == <<cpc, asked, incoming, shown>>
vars    == <<server, frames, down, up, process>>

Requests == {"subscribe", "unsubscribe"}

Ack == 0   \* a frame is an acknowledgement or the number of a datagram

FrameLen(frame) == IF frame = Ack THEN AckLen ELSE MessageLen

Least(m, n) == IF m <= n THEN m ELSE n

Init ==
    /\ pc = "poll" /\ ready = [udp |-> FALSE, socks |-> {}]
    /\ subscribed \in SUBSET Clients
    /\ arrived = 0 /\ matched = <<>> /\ targets = {}
    /\ i = 1 /\ left = 0 /\ to = 1
    /\ frames = [c \in Clients |-> <<>>]
    /\ down = [c \in Clients |-> 0]
    /\ up = [c \in Clients |-> <<>>]
    /\ cpc = [c \in Clients |-> "poll"]
    /\ asked = [c \in Clients |-> 0]
    /\ incoming = [c \in Clients |-> 0]
    /\ shown = [c \in Clients |-> 0]

------------------------------------------------------------------------------
(* server.cpp *)

Waiting == arrived > Len(matched)

Poll ==
    /\ pc = "poll"
    /\ ready' = [udp |-> Waiting, socks |-> {c \in Clients : up[c] # <<>>}]
    /\ ready'.udp \/ ready'.socks # {}
    /\ pc' = "udp"
    /\ UNCHANGED <<subscribed, arrived, matched, targets, i, left, to, frames, down, up, process>>

\* sendall() is called for a frame to c.
Begin(c, frame) ==
    /\ frames' = [frames EXCEPT ![c] = Append(@, frame)]
    /\ left' = FrameLen(frame) /\ to' = c

\* Seeded defect: a client whose buffers are full is skipped.
SkipWhenFull ==
    /\ left > 0
    /\ \/ \E n \in 1..Least(left, DownRoom - down[to]) :
             /\ left' = left - n
             /\ down' = [down EXCEPT ![to] = @ + n]
       \/ down[to] = DownRoom /\ left' = 0 /\ UNCHANGED down
    /\ UNCHANGED <<pc, ready, subscribed, arrived, matched, targets, i, to, frames, up, process>>

\* One send() of sendall(), for whichever frame: it blocks while the buffers of
\* that client are full, and the whole loop with it.
Send ==
    /\ left > 0
    /\ \E n \in 1..Least(left, DownRoom - down[to]) :
          /\ left' = left - n
          /\ down' = [down EXCEPT ![to] = @ + n]
    /\ UNCHANGED <<pc, ready, subscribed, arrived, matched, targets, i, to, frames, up, process>>

\* A datagram is received and its subscribers are looked up.
Receive ==
    /\ pc = "udp" /\ left = 0 /\ targets = {}
    /\ ready.udp /\ Waiting
    /\ matched' = Append(matched, subscribed)
    /\ targets' = subscribed
    /\ UNCHANGED <<pc, ready, subscribed, arrived, i, left, to, frames, down, up, process>>


\* It goes to them one after the other, in the order of an unordered_set.
BeginMessage ==
    /\ pc = "udp" /\ left = 0
    /\ \E c \in targets :
          /\ Begin(c, Len(matched))
          /\ targets' = targets \ {c}
    /\ UNCHANGED <<pc, ready, subscribed, arrived, matched, i, down, up, process>>

UdpDrained ==
    /\ pc = "udp" /\ left = 0 /\ targets = {}
    /\ ~(ready.udp /\ Waiting)
    /\ pc' = "scan" /\ i' = 1
    /\ UNCHANGED <<ready, subscribed, arrived, matched, targets, left, to, frames, down, up, process>>

\* The subscriptions after a request of client c.
Requested(c, op) == IF op = "subscribe" THEN subscribed \cup {c} ELSE subscribed \ {c}

\* recv() of a whole request, which is acknowledged if it changes something.
ProcessRequest ==
    /\ pc = "scan" /\ left = 0
    /\ i \in ready.socks /\ up[i] # <<>>
    /\ subscribed' = Requested(i, Head(up[i]))
    /\ up' = [up EXCEPT ![i] = Tail(@)]
    /\ IF subscribed' # subscribed THEN Begin(i, Ack) ELSE UNCHANGED <<frames, left, to>>
    /\ UNCHANGED <<pc, ready, arrived, matched, targets, i, down, process>>

\* Seeded defect: the scan does not stop at the last entry.
PastTheEnd ==
    /\ pc = "scan" /\ left = 0
    /\ ~(i \in ready.socks /\ up[i] # <<>>)
    /\ i' = i + 1
    /\ UNCHANGED <<pc, ready, subscribed, arrived, matched, targets, left, to, frames, down, up, process>>


NextClient ==
    /\ pc = "scan" /\ left = 0
    /\ i \in Clients /\ (i \notin ready.socks \/ up[i] = <<>>)
    /\ i' = i + 1
    /\ UNCHANGED <<pc, ready, subscribed, arrived, matched, targets, left, to, frames, down, up, process>>

EndTurn ==
    /\ pc = "scan" /\ i = N + 1 /\ left = 0
    /\ pc' = "poll"
    /\ UNCHANGED <<ready, subscribed, arrived, matched, targets, i, left, to, frames, down, up, process>>

ServerStep ==
    \/ Poll \/ Send \/ Receive \/ BeginMessage \/ UdpDrained
    \/ ProcessRequest \/ NextClient \/ EndTurn

------------------------------------------------------------------------------
(* subscriber.cpp *)

\* The operator's line is a request.
Ask(c, op) ==
    /\ cpc[c] = "poll" /\ asked[c] < MaxRequests
    /\ asked' = [asked EXCEPT ![c] = @ + 1]
    /\ cpc' = [cpc EXCEPT ![c] = op]
    /\ UNCHANGED <<server, frames, down, up, incoming, shown>>

\* sendall() of the request blocks while the buffers are full.
SendRequest(c) ==
    /\ cpc[c] \in Requests /\ Len(up[c]) < UpRoom
    /\ up' = [up EXCEPT ![c] = Append(@, cpc[c])]
    /\ cpc' = [cpc EXCEPT ![c] = "poll"]
    /\ UNCHANGED <<server, frames, down, asked, incoming, shown>>

\* What is missing of the frame that comes next.
Missing(c) == FrameLen(frames[c][shown[c] + 1]) - incoming[c]

\* One recv() of recvall(), for the header or the body.
RecvUnits(c) ==
    /\ cpc[c] \in {"poll", "body"} /\ down[c] > 0
    /\ \E n \in 1..Least(Missing(c), down[c]) :
          /\ down' = [down EXCEPT ![c] = @ - n]
          /\ incoming' = [incoming EXCEPT ![c] = @ + n]
          /\ cpc' = [cpc EXCEPT ![c] = IF n = Missing(c) THEN "print" ELSE "body"]
    /\ UNCHANGED <<server, frames, up, asked, shown>>

\* The line is written, which waits for the terminal to take it.
Display(c) ==
    /\ cpc[c] = "print"
    /\ shown' = [shown EXCEPT ![c] = @ + 1]
    /\ incoming' = [incoming EXCEPT ![c] = 0]
    /\ cpc' = [cpc EXCEPT ![c] = "poll"]
    /\ UNCHANGED <<server, frames, down, up, asked>>

Subscriber(c) == SendRequest(c) \/ RecvUnits(c)

------------------------------------------------------------------------------
Publish ==
    /\ arrived < MaxMessages
    /\ arrived' = arrived + 1
    /\ UNCHANGED <<pc, ready, subscribed, matched, targets, i, left, to, frames, down, up, process>>

Next ==
    \/ ServerStep \/ Publish
    \/ \E c \in Clients : Subscriber(c) \/ Display(c)
    \/ \E c \in Clients, op \in Requests : Ask(c, op)

Spec == Init /\ [][Next]_vars

\* Every process keeps running; a terminal that may pause owes nothing.
FairSpec ==
    /\ Spec /\ WF_vars(ServerStep)
    /\ \A c \in Clients : WF_vars(Subscriber(c))
    /\ \A c \in Clients \ Pausing : WF_vars(Display(c))

------------------------------------------------------------------------------
(* Properties *)

TypeOK ==
    /\ pc \in {"poll", "udp", "scan"}
    /\ ready \in [udp : BOOLEAN, socks : SUBSET Clients]
    /\ {subscribed, targets} \subseteq SUBSET Clients
    /\ arrived \in Nat /\ matched \in Seq(SUBSET Clients) /\ Len(matched) <= arrived
    /\ i \in 1..(N + 1) /\ to \in Clients
    /\ left \in 0..(MessageLen + AckLen)
    /\ frames \in [Clients -> Seq(0..MaxMessages)]
    /\ down \in [Clients -> 0..DownRoom]
    /\ up \in [Clients -> Seq(Requests)]
    /\ \A c \in Clients : Len(up[c]) <= UpRoom
    /\ cpc \in [Clients -> Requests \cup {"poll", "body", "print"}]
    /\ {asked, incoming, shown} \subseteq [Clients -> Nat]
    /\ \A c \in Clients : shown[c] \in 0..Len(frames[c])

\* The datagrams that client c has displayed.
Displayed(c) == {frames[c][k] : k \in 1..shown[c]} \ {Ack}

\* The places of the frames begun for client c that it has not shown yet, and
\* of the acknowledgements among them.
Unshown(c) == (shown[c] + 1)..Len(frames[c])
UnshownAcks(c) == {k \in Unshown(c) : frames[c][k] = Ack}
UnshownMessages(c) == Unshown(c) \ UnshownAcks(c)

\* No byte of a frame is lost, doubled or given to somebody else: what was begun
\* for a client and is not shown yet is in its process, in the buffers, or still
\* in the hand of the one sendall() that is under way (utils.cpp:24-39).
BytesConserved ==
    \A c \in Clients :
        AckLen * Cardinality(UnshownAcks(c)) + MessageLen * Cardinality(UnshownMessages(c))
            = incoming[c] + down[c] + IF to = c THEN left ELSE 0

\* The slowest subscriber sets the pace of all: when anybody has displayed a
\* datagram, every other client it was for has displayed all its own up to it
\* but the one it is printing, those its buffers hold and the one in between
\* (server.cpp:121-132).
OnePace ==
    \A c, d \in Clients : \A m \in Displayed(c) :
        Cardinality({k \in 1..m : d \in matched[k] /\ k \notin Displayed(d)})
            <= DownRoom \div MessageLen + 2

\* The loop waits for ever in a send() to a subscriber whose terminal has stopped
\* and whose buffers are full.
Stalled ==
    \E c \in Pausing : [](left > 0 /\ to = c /\ down[c] = DownRoom /\ cpc[c] = "print")



==============================================================================
