------------------------------- MODULE Server -------------------------------
(***************************************************************************)
(* The event loop of server.cpp with the subscriber processes and the      *)
(* kernel objects it talks to: one action per step of the loop between two *)
(* blocking calls or two entries of a queue.                               *)
(*                                                                         *)
(* A subscriber process makes one TCP connection in its life, so an        *)
(* element of Subs names a process and its connection.  An operator who    *)
(* restarts C1 starts another element of Subs with the same id.            *)
(***************************************************************************)
EXTENDS TrieOps, FiniteSets

CONSTANTS Ids,          \* the client ids
          Subs,         \* the runs of ./subscriber
          Patterns,     \* the topics clients subscribe to
          Topics,       \* the topics of UDP messages
          Lines,        \* the lines that may be typed at the server's stdin
          MaxFds,       \* how many client sockets the server can have open
          Backlog,      \* MAX_LISTENED_CLIENTS
          MaxTyped,     \* bound: lines typed and not yet returned by fgets()
          MaxMessages,  \* bound: datagrams that arrive
          MaxRequests,  \* bound: (un)subscribe commands entered
          None

ASSUME ConstantsAssumption ==
    /\ None \notin Ids \cup Subs \cup [topic : Topics, n : 1..MaxMessages]
    /\ MaxFds \in Nat /\ Backlog \in Nat
    /\ {MaxTyped, MaxMessages, MaxRequests} \subseteq Nat

ASSUME TopicsAssumption ==
    /\ Lines \subseteq {"exit", "other"}
    /\ \A topic \in Patterns \cup Topics : topic \in Seq(STRING) /\ topic # <<>>

VARIABLES
    \* main() of server.cpp
    pc, revents, poll_fds, i, subscribers, connected_subscribers, trie,
    message, matching_ids, new_socket,
    \* the kernel and stdio: the server's stdin, its UDP socket, its listening socket,
    \* which connection each open fd is, the server's end of each connection,
    \* the bytes to the server and all frames sent to the client
    stdin, udp, backlog, sockets, link, up, sent,
    \* the subscriber processes: where each is, and its id
    phase, client_id,
    \* the bounds
    published, requested

server  == <<pc, revents, poll_fds, i, subscribers, connected_subscribers, trie,
             message, matching_ids, new_socket>>
kernel  == <<stdin, udp, backlog, sockets, link, up, sent>>
clients == <<phase, client_id>>
vars    == <<server, kernel, clients, published, requested>>

------------------------------------------------------------------------------
Fds == 1..MaxFds

Messages == [topic : Topics, n : 1..MaxMessages]

Requests == [op : {"subscribe", "unsubscribe"}, topic : Patterns]

\* The ID_LENGTH bytes a subscriber sends first.
Hello == [op |-> "id", topic |-> <<>>]

Frames == [kind : {"message"}, topic : Topics, n : 1..MaxMessages]
          \cup [kind : {"ack_sub", "ack_unsub"}, topic : Patterns, n : {0}]

MessageFrame(m) == [kind |-> "message", topic |-> m.topic, n |-> m.n]

\* Seeded defect: the request is echoed with its operation unchanged.
EchoFrame(request) == [kind |-> request.op, topic |-> request.topic, n |-> 0]

AckFrame(request) ==
    [kind |-> IF request.op = "subscribe" THEN "ack_sub" ELSE "ack_unsub",
     topic |-> request.topic, n |-> 0]

Down == pc \in {"stopped", "killed"}

Init ==
    /\ pc = "poll"
    /\ revents = [stdin |-> FALSE, udp |-> FALSE, listener |-> FALSE]
    /\ poll_fds = <<>>
    /\ i = 1
    /\ subscribers = [c \in Ids |-> [connected |-> FALSE, sockfd |-> 0, topics |-> {}]]
    /\ connected_subscribers = [fd \in Fds |-> None]
    /\ trie = EmptyTrie
    /\ message = None
    /\ matching_ids = {}
    /\ new_socket = 0
    /\ stdin = [waiting |-> <<>>, buffered |-> <<>>] /\ udp = <<>> /\ backlog = <<>>
    /\ sockets = [fd \in Fds |-> None]
    /\ link = [s \in Subs |-> "none"]
    /\ up = [s \in Subs |-> <<>>]
    /\ sent = [s \in Subs |-> <<>>]
    /\ phase = [s \in Subs |-> "off"]
    /\ client_id = [s \in Subs |-> None]
    /\ published = 0 /\ requested = 0

------------------------------------------------------------------------------
(* poll() and stdin: the lines in the descriptor, which poll() sees, and those
   fgets() has read ahead. *)

\* Seeded defect: poll() is asked for hang-ups only.
HungUp(fd) == phase[sockets[fd]] = "closed"

\* poll() reports a client socket: bytes are waiting, or the client closed it.
Readable(fd) == up[sockets[fd]] # <<>> \/ phase[sockets[fd]] = "closed"

\* Seeded defect: poll() is not asked about the UDP socket.
ReadyButUdp == [stdin |-> stdin.waiting # <<>>, udp |-> FALSE, listener |-> backlog # <<>>]

Ready == [stdin |-> stdin.waiting # <<>>, udp |-> udp # <<>>, listener |-> backlog # <<>>]

\* poll() returns when something is ready and records in revents what is ready
\* now; what becomes ready later waits for the next turn.  A revents is left out
\* of the state once it has been read for the last time: poll() overwrites it.
Poll ==
    /\ pc = "poll"
    /\ \/ stdin.waiting # <<>> \/ udp # <<>> \/ backlog # <<>>
       \/ \E k \in 1..Len(poll_fds) : Readable(poll_fds[k].fd)
    /\ revents' = Ready
    /\ poll_fds' = [k \in 1..Len(poll_fds) |->
                      [fd |-> poll_fds[k].fd, revents |-> Readable(poll_fds[k].fd)]]
    /\ pc' = "stdin"
    /\ UNCHANGED <<i, subscribers, connected_subscribers, trie, message, matching_ids,
                   new_socket, kernel, clients, published, requested>>

\* The end of the process closes every socket, those of the backlog included.
CloseAll == link' = [s \in Subs |-> IF link[s] \in {"queued", "open"} THEN "closed" ELSE link[s]]

\* Seeded defect: the line is compared with "exit" without its newline.
NeverMatches(line) == FALSE

IsExit(line) == line = "exit"

\* The line fgets() returns: the first of the stdio buffer, or of the descriptor.
FirstLine == Head(stdin.buffered \o stdin.waiting)

\* fgets() fills its buffer first if it is empty: with one line of a terminal,
\* with any number of those that a pipe holds.
GetLine ==
    IF stdin.buffered # <<>>
       THEN stdin' = [stdin EXCEPT !.buffered = Tail(@)]
       ELSE \E n \in 1..Len(stdin.waiting) :
               stdin' = [waiting  |-> SubSeq(stdin.waiting, n+1, Len(stdin.waiting)),
                         buffered |-> SubSeq(stdin.waiting, 2, n)]

HandleStdin ==
    /\ pc = "stdin" /\ revents.stdin
    /\ GetLine
    /\ IF IsExit(FirstLine)
          THEN pc' = "stopped" /\ CloseAll
          ELSE pc' = "udp" /\ UNCHANGED link
    /\ revents' = [revents EXCEPT !.stdin = FALSE]
    /\ UNCHANGED <<poll_fds, i, subscribers, connected_subscribers, trie, message,
                   matching_ids, new_socket, udp, backlog, sockets, up, sent, clients,
                   published, requested>>

NoInput ==
    /\ pc = "stdin" /\ ~revents.stdin
    /\ pc' = "udp"
    /\ UNCHANGED <<revents, poll_fds, i, subscribers, connected_subscribers, trie, message,
                   matching_ids, new_socket, kernel, clients, published, requested>>

------------------------------------------------------------------------------
(* The UDP loop: each datagram is matched, then sent to one client after the
   other, in the order the unordered_set happens to iterate. *)

RecvDatagram ==
    /\ pc = "udp" /\ matching_ids = {}
    /\ revents.udp /\ udp # <<>>
    /\ message' = Head(udp)
    /\ matching_ids' = FindSubscribers(trie, Head(udp).topic)
    /\ udp' = Tail(udp)
    /\ UNCHANGED <<pc, revents, poll_fds, i, subscribers, connected_subscribers, trie, new_socket,
                   stdin, backlog, sockets, link, up, sent, clients, published, requested>>

\* recvfrom finds the socket drained, or poll did not report it; the received
\* message goes out of scope.
UdpDrained ==
    /\ pc = "udp" /\ matching_ids = {}
    /\ ~(revents.udp /\ udp # <<>>)
    /\ message' = None
    /\ pc' = "listen"
    /\ revents' = [revents EXCEPT !.udp = FALSE]
    /\ UNCHANGED <<poll_fds, i, subscribers, connected_subscribers, trie, matching_ids,
                   new_socket, kernel, clients, published, requested>>

\* The client at the other end of an open descriptor has closed it.
Broken(fd) == \E s \in Subs : s = sockets[fd] /\ phase[s] = "closed"

\* Seeded defect: a send that succeeded is tried again.
SendTwice(fd, frame) ==
    sent' = [s \in Subs |-> IF s = sockets[fd] THEN sent[s] \o <<frame, frame>> ELSE sent[s]]

\* The kernel takes a frame for the connection behind a descriptor, if it is open.
Put(fd, frame) ==
    sent' = [s \in Subs |-> IF s = sockets[fd] THEN Append(sent[s], frame) ELSE sent[s]]

\* Seeded defect: sendall() gives up when the socket has no room.
GiveUp(fd, frame) == Put(fd, frame) \/ UNCHANGED sent

\* Once the client has closed its end sendall() may return -1 instead, which no
\* caller looks at.
Send(fd, frame) == Put(fd, frame) \/ (Broken(fd) /\ UNCHANGED sent)

\* Seeded defect: the connected flag is not tested before a send.
SkipNobody(c) == subscribers[c].sockfd = 0

\* Only a client that is currently connected is sent the message.
Skipped(c) == ~subscribers[c].connected

RouteTo(c) ==
    /\ pc = "udp" /\ c \in matching_ids
    /\ matching_ids' = matching_ids \ {c}
    /\ IF Skipped(c) THEN UNCHANGED sent
                     ELSE Send(subscribers[c].sockfd, MessageFrame(message))
    /\ UNCHANGED <<pc, revents, poll_fds, i, subscribers, connected_subscribers, trie, message,
                   new_socket, stdin, udp, backlog, sockets, link, up, clients,
                   published, requested>>

------------------------------------------------------------------------------
(* New connections: at most one per turn of the loop, before the clients that
   are already connected are looked at. *)

FreeFds == {fd \in Fds : sockets[fd] = None}

\* accept(): the kernel gives the new socket the lowest free descriptor.
Accept ==
    /\ pc = "listen"
    /\ revents.listener
    /\ \E fd \in FreeFds :
          /\ \A f \in FreeFds : fd <= f
          /\ new_socket' = fd
          /\ sockets' = [sockets EXCEPT ![fd] = Head(backlog)]
    /\ link' = [link EXCEPT ![Head(backlog)] = "open"]
    /\ backlog' = Tail(backlog)
    /\ pc' = "readid"
    /\ revents' = [revents EXCEPT !.listener = FALSE]
    /\ UNCHANGED <<poll_fds, i, subscribers, connected_subscribers, trie, message,
                   matching_ids, stdin, udp, up, sent, clients, published, requested>>

\* Nothing to accept, or accept() fails for want of a descriptor.
NoAccept ==
    /\ pc = "listen"
    /\ ~(revents.listener /\ FreeFds # {})
    /\ pc' = "scan" /\ i' = 1
    /\ revents' = [revents EXCEPT !.listener = FALSE]
    /\ UNCHANGED <<poll_fds, subscribers, connected_subscribers, trie, message,
                   matching_ids, new_socket, kernel, clients, published, requested>>

NewSub == sockets[new_socket]

\* Seeded defect: a refused client's socket is not closed.
LeaveNewSocket == UNCHANGED <<sockets, link>>

CloseNewSocket ==
    /\ sockets' = [sockets EXCEPT ![new_socket] = None]
    /\ link' = [link EXCEPT ![NewSub] = "closed"]

\* Another client with this id is connected.
Taken(c) == subscribers[c].connected

\* connect_new_client() after accept(): recvall() blocks the whole loop until
\* the id is there or the connection ends.  The id of a connected client closes
\* the new socket.
RefuseClient ==
    /\ pc = "readid"
    /\ IF up[NewSub] = <<>>
          THEN phase[NewSub] = "closed" /\ UNCHANGED up
          ELSE /\ Taken(client_id[NewSub])
               /\ up' = [up EXCEPT ![NewSub] = Tail(@)]
    /\ CloseNewSocket
    /\ pc' = "scan" /\ i' = 1 /\ new_socket' = 0
    /\ UNCHANGED <<revents, poll_fds, subscribers, connected_subscribers, trie, message,
                   matching_ids, stdin, udp, backlog, sent, clients, published, requested>>

\* The new pollfd's revents is not initialised: it holds either value when the
\* scan below reaches it in this same turn.
RegisterClient ==
    /\ pc = "readid"
    /\ up[NewSub] # <<>>
    /\ LET c == client_id[NewSub] IN
          /\ ~Taken(c)
          /\ subscribers' = [subscribers EXCEPT ![c].connected = TRUE, ![c].sockfd = new_socket]
          /\ connected_subscribers' = [connected_subscribers EXCEPT ![new_socket] = c]
    /\ \E garbage \in BOOLEAN :
          poll_fds' = Append(poll_fds, [fd |-> new_socket, revents |-> garbage])
    /\ up' = [up EXCEPT ![NewSub] = Tail(@)]
    /\ pc' = "scan" /\ i' = 1 /\ new_socket' = 0
    /\ UNCHANGED <<revents, trie, message, matching_ids, stdin, udp, backlog, sockets, link, sent,
                   clients, published, requested>>

------------------------------------------------------------------------------
(* The scan of the connected clients.  Each reported one is drained. *)

Scanning == pc = "scan" /\ i <= Len(poll_fds)

ThisFd == poll_fds[i].fd
ThisSub == sockets[ThisFd]
ThisId == connected_subscribers[ThisFd]

\* poll did not report the client, or recv() says EAGAIN.
NextClient ==
    /\ Scanning
    /\ \/ ~poll_fds[i].revents
       \/ up[ThisSub] = <<>> /\ phase[ThisSub] # "closed"
    /\ i' = i + 1
    /\ UNCHANGED <<pc, revents, poll_fds, subscribers, connected_subscribers, trie, message,
                   matching_ids, new_socket, kernel, clients, published, requested>>

\* Back to poll(), which overwrites the revents of the clients too.
ScanDone ==
    /\ pc = "scan" /\ i > Len(poll_fds)
    /\ pc' = "poll" /\ i' = 1
    /\ poll_fds' = [k \in 1..Len(poll_fds) |-> [fd |-> poll_fds[k].fd, revents |-> FALSE]]
    /\ UNCHANGED <<revents, subscribers, connected_subscribers, trie, message,
                   matching_ids, new_socket, kernel, clients, published, requested>>

HasRequest == Scanning /\ poll_fds[i].revents /\ up[ThisSub] # <<>>

\* A request that changes nothing is dropped without an acknowledgement.
Applies(c, request) ==
    IF request.op = "subscribe" THEN request.topic \notin subscribers[c].topics
                                ELSE request.topic \in subscribers[c].topics

UpdateTopics(c, request) ==
    subscribers' = [subscribers EXCEPT ![c].topics =
                      IF request.op = "subscribe" THEN @ \cup {request.topic}
                                                  ELSE @ \ {request.topic}]

\* Seeded defect: an unsubscription does not reach the trie.
TrieOnlyGrows(c, request) ==
    trie' = IF request.op = "subscribe" THEN AddSubscription(trie, request.topic, c) ELSE trie

UpdateTrie(c, request) ==
    trie' = IF request.op = "subscribe" THEN AddSubscription(trie, request.topic, c)
                                        ELSE RemoveSubscription(trie, request.topic, c)

\* process_sub_requests(): the client's set, the trie, then the acknowledgement
\* on the socket recorded for the id.
HandleRequest ==
    /\ HasRequest
    /\ LET request == Head(up[ThisSub]) IN
          IF Applies(ThisId, request)
             THEN /\ UpdateTopics(ThisId, request)
                  /\ UpdateTrie(ThisId, request)
                  /\ Send(subscribers[ThisId].sockfd, AckFrame(request))
             ELSE UNCHANGED <<subscribers, trie, sent>>
    /\ up' = [up EXCEPT ![ThisSub] = Tail(@)]
    /\ UNCHANGED <<pc, revents, poll_fds, i, connected_subscribers, message, matching_ids,
                   new_socket, stdin, udp, backlog, sockets, link, clients, published, requested>>

\* Seeded defect: a disconnected client is forgotten, subscriptions and all.
ForgetClient(c) ==
    subscribers' = [subscribers EXCEPT ![c].connected = FALSE, ![c].topics = {}]

\* Seeded defect: the client stays marked as connected.
StayConnected(c) == UNCHANGED subscribers

MarkDisconnected(c) == subscribers' = [subscribers EXCEPT ![c].connected = FALSE]

\* recv() says 0 or fails.  The subscriptions stay; i-- and the loop's i++
\* leave i at the entry that moves into the freed place.
Disconnect ==
    /\ Scanning /\ poll_fds[i].revents
    /\ up[ThisSub] = <<>> /\ phase[ThisSub] = "closed"
    /\ MarkDisconnected(ThisId)
    /\ connected_subscribers' = [connected_subscribers EXCEPT ![ThisFd] = None]
    /\ poll_fds' = RemoveAt(poll_fds, i)
    /\ sockets' = [sockets EXCEPT ![ThisFd] = None]
    /\ link' = [link EXCEPT ![ThisSub] = "closed"]
    /\ UNCHANGED <<pc, revents, i, trie, message, matching_ids, new_socket, stdin, udp, backlog,
                   up, sent, clients, published, requested>>

------------------------------------------------------------------------------
(* SIGPIPE.  send() passes no MSG_NOSIGNAL and the signal is not ignored, so a
   send on a connection whose client has gone may end the process. *)

Killed ==
    /\ \/ /\ pc = "udp"
          /\ \E c \in matching_ids : ~Skipped(c) /\ Broken(subscribers[c].sockfd)
       \/ /\ HasRequest /\ Applies(ThisId, Head(up[ThisSub]))
          /\ Broken(subscribers[ThisId].sockfd)
    /\ pc' = "killed"
    /\ CloseAll
    /\ UNCHANGED <<revents, poll_fds, i, subscribers, connected_subscribers, trie, message,
                   matching_ids, new_socket, stdin, udp, backlog, sockets, up, sent, clients,
                   published, requested>>

ServerStep ==
    \/ Poll \/ HandleStdin \/ NoInput
    \/ RecvDatagram \/ UdpDrained \/ \E c \in Ids : RouteTo(c)
    \/ Accept \/ NoAccept \/ RefuseClient \/ RegisterClient
    \/ NextClient \/ ScanDone \/ HandleRequest \/ Disconnect
    \/ Killed

------------------------------------------------------------------------------
(* The subscriber processes, as far as the server sees them. *)

\* ./subscriber is started with an id and connect()s.
Start(s, c) ==
    /\ ~Down
    /\ phase[s] = "off" /\ Len(backlog) < Backlog
    /\ phase' = [phase EXCEPT ![s] = "connecting"]
    /\ client_id' = [client_id EXCEPT ![s] = c]
    /\ link' = [link EXCEPT ![s] = "queued"]
    /\ backlog' = Append(backlog, s)
    /\ UNCHANGED <<server, stdin, udp, sockets, up, sent, published, requested>>

SendId(s) ==
    /\ phase[s] = "connecting" /\ link[s] # "closed"
    /\ phase' = [phase EXCEPT ![s] = "up"]
    /\ up' = [up EXCEPT ![s] = Append(@, Hello)]
    /\ UNCHANGED <<server, stdin, udp, backlog, sockets, link, sent, client_id,
                   published, requested>>

\* A subscribe or unsubscribe command is sent, acknowledged or not.
Request(s, request) ==
    /\ phase[s] = "up" /\ link[s] # "closed"
    /\ requested < MaxRequests
    /\ requested' = requested + 1
    /\ up' = [up EXCEPT ![s] = Append(@, request)]
    /\ UNCHANGED <<server, stdin, udp, backlog, sockets, link, sent, clients, published>>

\* The server closed the connection: the subscriber leaves its loop, or fails
\* to send its id.
ServerGone(s) ==
    /\ phase[s] \in {"connecting", "up"} /\ link[s] = "closed"
    /\ phase' = [phase EXCEPT ![s] = "closed"]
    /\ UNCHANGED <<server, kernel, client_id, published, requested>>

\* The exit command, or the end of the process at any other point; what it sent
\* last may be lost with the connection.
Exit(s) ==
    /\ phase[s] \in {"connecting", "up"}
    /\ phase' = [phase EXCEPT ![s] = "closed"]
    /\ \E arrived \in 0..Len(up[s]) : up' = [up EXCEPT ![s] = SubSeq(@, 1, arrived)]
    /\ UNCHANGED <<server, stdin, udp, backlog, sockets, link, sent, client_id,
                   published, requested>>

\* A datagram reaches the server's socket (one that is lost on the way never does).
Publish(topic) ==
    /\ ~Down
    /\ published < MaxMessages
    /\ published' = published + 1
    /\ udp' = Append(udp, [topic |-> topic, n |-> published + 1])
    /\ UNCHANGED <<server, stdin, backlog, sockets, link, up, sent, clients, requested>>

\* The operator types "exit" or another line.
TypeLine(line) ==
    /\ ~Down /\ Len(stdin.waiting) + Len(stdin.buffered) < MaxTyped
    /\ stdin' = [stdin EXCEPT !.waiting = Append(@, line)]
    /\ UNCHANGED <<server, udp, backlog, sockets, link, up, sent, clients, published, requested>>

Environment ==
    \/ \E s \in Subs : \/ \E c \in Ids : Start(s, c)
                       \/ SendId(s)
                       \/ \E request \in Requests : Request(s, request)
                       \/ ServerGone(s)
                       \/ Exit(s)
    \/ \E topic \in Topics : Publish(topic)
    \/ \E line \in Lines : TypeLine(line)

Next == ServerStep \/ Environment

Spec == Init /\ [][Next]_vars

\* The loop keeps running while it has something to do.
ServerFairness == WF_vars(ServerStep)

\* A subscriber that has connected sends its id and notices the end of the
\* connection.  Nobody has to type, send or exit.
ClientFairness ==
    \A s \in Subs : WF_vars(SendId(s)) /\ WF_vars(ServerGone(s))

ServerFairSpec == Spec /\ ServerFairness
FairSpec == Spec /\ ServerFairness /\ ClientFairness

==============================================================================
