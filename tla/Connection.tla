----------------------------- MODULE Connection -----------------------------
(***************************************************************************)
(* One connection below the level of Server: the loop of subscriber.cpp,   *)
(* the server's loop as far as this connection goes, and the two socket    *)
(* buffers between them.  Bytes are grouped in units: a request is         *)
(* RequestLen units, a frame one header unit and its body.                 *)
(***************************************************************************)
EXTENDS Naturals, Sequences, SequencesExt

CONSTANTS RequestLen,   \* units of a subcribe_request, acknowledgements included
          MessageLen,   \* units of a message_with_header
          UpRoom,       \* units the buffers towards the server hold
          DownRoom,     \* units the buffers towards the subscriber hold
          MaxLines,     \* bound: lines typed at the subscriber
          MaxMessages   \* bound: messages routed to the subscriber

ASSUME ConnectionAssumption ==
    /\ {RequestLen, MessageLen, UpRoom, DownRoom} \subseteq Nat \ {0}
    /\ {MaxLines, MaxMessages} \subseteq Nat

VARIABLES
    \* subscriber: where it is, poll's result, lines typed, taken into the stdio
    \* buffer and returned by fgets, requests made, the units sendall() still
    \* has to send, the header and the units recvall() has, the frames shown
    cpc, crev, typed, buffered, handled, requests, outgoing, header, incoming, shown,
    \* the buffers, and whether each end is open
    up, down, copen, sopen,
    \* server: where it is, poll's result, datagrams that matched, the units
    \* sendall() still has to send, the kinds of the frames it began to send,
    \* what its recv()s returned and whether as a request
    spc, srev, udp, reply, frames, reads,
    arrived     \* bound on udp

subscriber == <<cpc, crev, typed, buffered, handled, requests, outgoing, header, incoming, shown>>
server     == <<spc, srev, udp, reply, frames, reads, arrived>>
vars       == <<subscriber, up, down, copen, sopen, server>>

Least(m, n) == IF m <= n THEN m ELSE n
Drop(s, n) == SubSeq(s, n+1, Len(s))
Take(s, n) == SubSeq(s, 1, n)

Init ==
    /\ cpc = "poll" /\ crev = [stdin |-> FALSE, sock |-> FALSE]
    /\ typed = 0 /\ buffered = 0 /\ handled = 0 /\ requests = 0
    /\ outgoing = <<>> /\ header = "none" /\ incoming = <<>> /\ shown = <<>>
    /\ up = <<>> /\ down = <<>> /\ copen = TRUE /\ sopen = TRUE
    /\ spc = "poll" /\ srev = [udp |-> FALSE, sock |-> FALSE]
    /\ udp = 0 /\ reply = <<>> /\ frames = <<>> /\ reads = <<>> /\ arrived = 0

------------------------------------------------------------------------------
(* The wire formats *)

\* Unit k of request r, and unit k of frame f, whose header is unit 0.
RequestUnits(r) == [k \in 1..RequestLen |-> <<r, k>>]

\* Seeded defect: the acknowledgement is read as if it had a message's size.
OneSize(kind) == MessageLen

\* The body that follows a header.
BodyLen(kind) == IF kind = "message" THEN MessageLen ELSE RequestLen

FrameUnits(f, kind) ==
    [k \in 1..1 + (IF kind = "message" THEN MessageLen ELSE RequestLen) |-> <<f, k-1>>]

------------------------------------------------------------------------------
(* subscriber.cpp *)

\* Seeded defect: poll() is asked about stdin only.
StdinOnly == [stdin |-> typed > buffered, sock |-> FALSE]

\* What poll() reports: lines that the stdio buffer has not taken yet, and
\* bytes or the end of the stream on the socket.
ClientReady == [stdin |-> typed > buffered, sock |-> down # <<>> \/ ~sopen]

ClientPoll ==
    /\ cpc = "poll"
    /\ ClientReady.stdin \/ ClientReady.sock
    /\ crev' = ClientReady
    /\ cpc' = "stdin"
    /\ UNCHANGED <<typed, buffered, handled, requests, outgoing, header, incoming, shown,
                   up, down, copen, sopen, server>>

NoInput ==
    /\ cpc = "stdin" /\ ~crev.stdin
    /\ cpc' = "sock"
    /\ UNCHANGED <<crev, typed, buffered, handled, requests, outgoing, header, incoming, shown,
                   up, down, copen, sopen, server>>

\* Seeded defect: the line handled last is handled again.
StaleLine == UNCHANGED <<handled, buffered>>

\* fgets: a line from the stdio buffer, filled first if it is empty: with one
\* line of a terminal, with any number of those that a pipe holds.
GetLine ==
    /\ handled' = handled + 1
    /\ buffered' \in IF handled < buffered THEN {buffered} ELSE buffered+1..typed

Close ==
    /\ copen' = FALSE /\ cpc' = "closed"
    /\ outgoing' = <<>>

\* process_input_comand() for a subscribe or an unsubscribe line.
RequestLine ==
    /\ cpc = "stdin" /\ crev.stdin
    /\ GetLine
    /\ requests' = requests + 1
    /\ outgoing' = RequestUnits(requests + 1)
    /\ cpc' = "send"
    /\ UNCHANGED <<crev, typed, header, incoming, shown, up, down, copen, sopen, server>>

\* A line that is no command is ignored.
InvalidLine ==
    /\ cpc = "stdin" /\ crev.stdin
    /\ GetLine
    /\ cpc' = "sock"
    /\ UNCHANGED <<crev, typed, requests, outgoing, header, incoming, shown,
                   up, down, copen, sopen, server>>

\* "exit"; a line without a word ends the process too (strcmp of NULL).
ExitLine ==
    /\ cpc = "stdin" /\ crev.stdin
    /\ GetLine
    /\ Close
    /\ UNCHANGED <<crev, typed, requests, header, incoming, shown, up, down, sopen, server>>

\* One send() of sendall(): it blocks while the buffer is full.  What it takes
\* may be part of a request, and so may what arrives of it at one time.
SendRequest ==
    /\ cpc = "send" /\ outgoing # <<>> /\ sopen
    /\ \E n \in 1..Least(Len(outgoing), UpRoom - Len(up)) :
          /\ up' = up \o Take(outgoing, n)
          /\ outgoing' = Drop(outgoing, n)
    /\ UNCHANGED <<cpc, crev, typed, buffered, handled, requests, header, incoming, shown,
                   down, copen, sopen, server>>

\* The server has gone: send() fails and the loop goes on, or SIGPIPE ends it.
SendFails ==
    /\ cpc = "send" /\ outgoing # <<>> /\ ~sopen
    /\ \/ cpc' = "sock" /\ outgoing' = <<>> /\ UNCHANGED copen
       \/ Close
    /\ UNCHANGED <<crev, typed, buffered, handled, requests, header, incoming, shown,
                   up, down, sopen, server>>

RequestSent ==
    /\ cpc = "send" /\ outgoing = <<>>
    /\ cpc' = "sock"
    /\ UNCHANGED <<crev, typed, buffered, handled, requests, outgoing, header, incoming, shown,
                   up, down, copen, sopen, server>>

NoPacket ==
    /\ cpc = "sock" /\ ~crev.sock
    /\ cpc' = "poll"
    /\ UNCHANGED <<crev, typed, buffered, handled, requests, outgoing, header, incoming, shown,
                   up, down, copen, sopen, server>>

\* The header: a known one selects the body, another one is reported and skipped.
RecvHeader ==
    /\ cpc = "sock" /\ crev.sock /\ down # <<>>
    /\ LET unit == Head(down) IN
          IF unit[2] = 0 THEN header' = frames[unit[1]] /\ cpc' = "body"
                         ELSE header' = "invalid" /\ cpc' = "poll"
    /\ down' = Tail(down)
    /\ UNCHANGED <<crev, typed, buffered, handled, requests, outgoing, incoming, shown,
                   up, copen, sopen, server>>

\* Seeded defect: recv() is called once and its result used as it is.
OnceIsEnough(units) == TRUE

\* recvall() goes on until it has the size it was asked for.
Complete(units) == Len(units) = BodyLen(header)

RecvBody ==
    /\ cpc = "body" /\ down # <<>>
    /\ LET n == Least(BodyLen(header) - Len(incoming), Len(down))
           units == incoming \o Take(down, n)
       IN  /\ down' = Drop(down, n)
           /\ IF Complete(units)
                 THEN /\ shown' = Append(shown, [kind |-> header, body |-> units])
                      /\ incoming' = <<>> /\ cpc' = "poll"
                 ELSE /\ incoming' = units
                      /\ UNCHANGED <<shown, cpc>>
    /\ UNCHANGED <<crev, typed, buffered, handled, requests, outgoing, header,
                   up, copen, sopen, server>>

\* The stream has ended, between frames or inside one.
ServerGone ==
    /\ \/ cpc = "sock" /\ crev.sock
       \/ cpc = "body"
    /\ down = <<>> /\ ~sopen
    /\ Close
    /\ UNCHANGED <<crev, typed, buffered, handled, requests, header, incoming, shown,
                   up, down, sopen, server>>

SubscriberStep ==
    \/ ClientPoll \/ NoInput \/ RequestLine \/ InvalidLine \/ ExitLine
    \/ SendRequest \/ SendFails \/ RequestSent
    \/ NoPacket \/ RecvHeader \/ RecvBody \/ ServerGone

------------------------------------------------------------------------------
(* server.cpp, for this connection *)

ServerPoll ==
    /\ spc = "poll"
    /\ udp > 0 \/ up # <<>> \/ ~copen
    /\ srev' = [udp |-> udp > 0, sock |-> up # <<>> \/ ~copen]
    /\ spc' = "udp"
    /\ UNCHANGED <<subscriber, up, down, copen, sopen, udp, reply, frames, reads, arrived>>

BeginFrame(kind) ==
    /\ frames' = Append(frames, kind)
    /\ reply' = FrameUnits(Len(frames) + 1, kind)

RouteMessage ==
    /\ spc = "udp" /\ reply = <<>> /\ srev.udp /\ udp > 0
    /\ udp' = udp - 1
    /\ BeginFrame("message")
    /\ UNCHANGED <<subscriber, up, down, copen, sopen, spc, srev, reads, arrived>>

UdpDrained ==
    /\ spc = "udp" /\ reply = <<>> /\ ~(srev.udp /\ udp > 0)
    /\ spc' = IF srev.sock THEN "tcp" ELSE "poll"
    /\ UNCHANGED <<subscriber, up, down, copen, sopen, srev, udp, reply, frames, reads, arrived>>

\* One send() of sendall(): it blocks while the buffer is full, and fails when
\* the subscriber has gone.
SendFrame ==
    /\ reply # <<>> /\ sopen
    /\ IF copen
          THEN \E n \in 1..Least(Len(reply), DownRoom - Len(down)) :
                  /\ down' = down \o Take(reply, n)
                  /\ reply' = Drop(reply, n)
          ELSE reply' = <<>> /\ UNCHANGED down
    /\ UNCHANGED <<subscriber, up, copen, sopen, spc, srev, udp, frames, reads, arrived>>

\* Seeded defect: the terminating byte of the topic is not counted.
ShortRequest == RequestLen - 1

\* sizeof(subcribe_request)
RequestSize == RequestLen

\* recv() of at most a request: a whole one is processed, and acknowledged if it
\* changes something.
RecvRequest ==
    /\ spc = "tcp" /\ reply = <<>> /\ Len(up) >= RequestSize
    /\ reads' = Append(reads, [request |-> TRUE, units |-> Take(up, RequestSize)])
    /\ up' = Drop(up, RequestSize)
    /\ \/ BeginFrame("ack")
       \/ UNCHANGED <<reply, frames>>
    /\ UNCHANGED <<subscriber, down, copen, sopen, spc, srev, udp, arrived>>

\* A part of a request, or nothing, ends the drain; the part is thrown away.
RecvLess ==
    /\ spc = "tcp" /\ reply = <<>> /\ Len(up) < RequestSize
    /\ up # <<>> \/ copen
    /\ up' = <<>>
    /\ reads' = IF up = <<>> THEN reads ELSE Append(reads, [request |-> FALSE, units |-> up])
    /\ spc' = "poll"
    /\ UNCHANGED <<subscriber, down, copen, sopen, srev, udp, reply, frames, arrived>>

Disconnect ==
    /\ spc = "tcp" /\ reply = <<>> /\ up = <<>> /\ ~copen
    /\ sopen' = FALSE /\ spc' = "gone"
    /\ UNCHANGED <<subscriber, up, down, copen, srev, udp, reply, frames, reads, arrived>>

\* The server ends between turns ("exit"), or in the middle of a frame (a signal).
ServerEnds ==
    /\ spc # "gone"
    /\ sopen' = FALSE /\ spc' = "gone" /\ reply' = <<>>
    /\ UNCHANGED <<subscriber, up, down, copen, srev, udp, frames, reads, arrived>>

ServerStep ==
    \/ ServerPoll \/ RouteMessage \/ UdpDrained \/ SendFrame
    \/ RecvRequest \/ RecvLess \/ Disconnect

------------------------------------------------------------------------------
TypeLine ==
    /\ copen /\ typed < MaxLines
    /\ typed' = typed + 1
    /\ UNCHANGED <<cpc, crev, buffered, handled, requests, outgoing, header, incoming, shown,
                   up, down, copen, sopen, server>>

Publish ==
    /\ spc # "gone" /\ arrived < MaxMessages
    /\ arrived' = arrived + 1 /\ udp' = udp + 1
    /\ UNCHANGED <<subscriber, up, down, copen, sopen, spc, srev, reply, frames, reads>>

Next == SubscriberStep \/ ServerStep \/ ServerEnds \/ TypeLine \/ Publish

Spec == Init /\ [][Next]_vars

\* Both processes keep running; nobody has to type, publish or end the server.
FairSpec == Spec /\ WF_vars(SubscriberStep) /\ WF_vars(ServerStep)

------------------------------------------------------------------------------
(* Properties *)

\* The pieces of a connection keep to their types; a blocked send has what is
\* left of one frame or one request and the buffers never overflow.
TypeOK ==
    /\ cpc \in {"poll", "stdin", "send", "sock", "body", "closed"}
    /\ spc \in {"poll", "udp", "tcp", "gone"}
    /\ crev \in [stdin : BOOLEAN, sock : BOOLEAN] /\ srev \in [udp : BOOLEAN, sock : BOOLEAN]
    /\ typed \in 0..MaxLines /\ buffered \in 0..typed /\ handled \in 0..buffered
    /\ requests \in 0..handled
    /\ header \in {"none", "message", "ack", "invalid"}
    /\ Len(up) <= UpRoom /\ Len(down) <= DownRoom
    /\ Len(outgoing) <= RequestLen /\ Len(incoming) < BodyLen(header)
    /\ copen \in BOOLEAN /\ sopen \in BOOLEAN
    /\ arrived \in 0..MaxMessages /\ udp \in 0..arrived

\* The frames shown are the frames sent, whole, in order, none skipped, however
\* the stream is cut into pieces and wherever it ends (README.md:59).
FramesIntact ==
    /\ Len(shown) <= Len(frames)
    /\ \A f \in 1..Len(shown) :
          shown[f] = [kind |-> frames[f], body |-> Tail(FrameUnits(f, frames[f]))]

\* The unit of the requests' stream that comes after u.
Following(u) == IF u[2] < RequestLen THEN <<u[1], u[2] + 1>> ELSE <<u[1] + 1, 1>>

\* What the server's recv()s return is, one after the other, the stream the
\* subscriber sends, no byte left out or read twice, wherever the network cuts it
\* (server.cpp:225); and up to the first read of less than a request, which is
\* thrown away, each is the next request, whole.
ReadsAccountedFor ==
    \A r \in 1..Len(reads) :
        /\ \A k \in 1..Len(reads[r].units) :
              reads[r].units[k] = IF k > 1 THEN Following(reads[r].units[k-1])
                                  ELSE IF r > 1 THEN Following(Last(reads[r-1].units))
                                  ELSE <<1, 1>>
        /\ (\A q \in 1..r : reads[q].request) => reads[r].units = RequestUnits(r)

\* What the server reads as requests are the requests sent, however they arrive
\* (README.md:59).
RequestsIntact ==
    \A r \in 1..Len(reads) : reads[r].request /\ reads[r].units = RequestUnits(r)

Ended == ~copen \/ ~sopen

\* Both processes are in sendall() and both buffers are full: each waits for the
\* other to read (utils.cpp:31).
MutualWait ==
    /\ outgoing # <<>> /\ Len(up) = UpRoom
    /\ reply # <<>> /\ Len(down) = DownRoom

\* Every line typed is handled, whatever arrives on the socket meanwhile
\* (README.md:63), unless the connection ends, the processes wait for each other,
\* or the line was read ahead by fgets() and nothing is ever typed after it
\* (subscriber.cpp:177, 181).
LinesHandled ==
    \A n \in 1..MaxLines :
        typed >= n ~> \/ handled >= n \/ Ended \/ MutualWait
                      \/ [](buffered = typed /\ handled < n)

\* Every byte of a request is read by the server, and every frame the server
\* begins is shown, unless an end of the connection goes away or the processes
\* wait for each other: there is no other way to get stuck.
TrafficArrives ==
    /\ \A r \in 1..MaxLines :
          requests >= r ~> \/ \E q \in 1..Len(reads) : <<r, RequestLen>> \in Range(reads[q].units)
                          \/ Ended \/ MutualWait
    /\ \A f \in 1..MaxLines + MaxMessages :
          Len(frames) >= f ~> Len(shown) >= f \/ Ended \/ MutualWait

==============================================================================
