------------------------ MODULE ServerDeliveryProofs ------------------------
(***************************************************************************)
(* Proofs about what the server puts on its connections, for any ids,      *)
(* clients, patterns, topics and bounds: who a message goes to, in which   *)
(* order and how often, and what an acknowledgement says; and that so the  *)
(* server implements the abstract broker PubSub.                           *)
(***************************************************************************)
EXTENDS ServerProofs

USE DEF server, kernel, clients

------------------------------------------------------------------------------
(* The connections *)

\* The backlog holds each client once, until the server ends only clients that
\* wait; one that was never started has no connection.
Backlogged ==
    /\ \A j, k \in 1..Len(backlog) : backlog[j] = backlog[k] => j = k
    /\ ~Down => \A k \in 1..Len(backlog) : link[backlog[k]] = "queued"
    /\ \A s \in Subs : phase[s] = "off" => link[s] = "none"

\* A connection has one descriptor at most, which accept() gave it, and a
\* connected id has one at least.
Opened ==
    /\ \A f, g \in Fds : sockets[f] # None /\ sockets[f] = sockets[g] => f = g
    /\ \A fd \in Fds : sockets[fd] # None => link[sockets[fd]] \in {"open", "closed"}
    /\ \A c \in Ids : subscribers[c].connected => subscribers[c].sockfd \in Fds

\* Nothing is sent to a client before its id was read.
NothingSentYet ==
    /\ \A s \in Subs : link[s] \in {"none", "queued"} => sent[s] = <<>>
    /\ pc = "readid" => sent[NewSub] = <<>> /\ link[NewSub] = "open"

Connections == Backlogged /\ Opened /\ NothingSentYet

\* The client behind a connected id.
LEMMA ConnectedClient ==
    ASSUME IInv, Opened, NEW c \in Ids, subscribers[c].connected
    PROVE  LET fd == subscribers[c].sockfd IN
           /\ fd \in Fds /\ connected_subscribers[fd] = c
           /\ sockets[fd] \in Subs /\ sockets[fd] # None /\ client_id[sockets[fd]] = c
<1> DEFINE fd == subscribers[c].sockfd
<1>1. fd \in Fds
  BY DEF Opened
<1>2. connected_subscribers[fd] = c /\ c # None
  BY <1>1, ConstantsAssumption DEF IInv, SessionTables, IdsMatchFds
<1>3. \E s \in Subs : s = sockets[fd] /\ client_id[s] = connected_subscribers[fd]
  BY <1>1, <1>2 DEF IInv, SessionTables, FdsMatchClients
<1> QED BY <1>1, <1>2, <1>3, ConstantsAssumption

\* Two connected ids have two connections.
LEMMA TwoClients ==
    ASSUME IInv, Opened, NEW c \in Ids, NEW d \in Ids, c # d,
           subscribers[c].connected, subscribers[d].connected
    PROVE  /\ subscribers[c].sockfd # subscribers[d].sockfd
           /\ sockets[subscribers[c].sockfd] # sockets[subscribers[d].sockfd]
  BY ConnectedClient DEF Opened

\* A send() that succeeds makes one stream one frame longer.
LEMMA SendEffect ==
    ASSUME IInv, NEW fd \in Fds, sockets[fd] \in Subs, NEW frame \in Frames, Put(fd, frame)
    PROVE  LET s == sockets[fd] IN
           /\ \A t \in Subs : t # s => sent'[t] = sent[t]
           /\ sent[s] \in Seq(Frames) /\ Len(sent[s]) \in Nat
           /\ sent'[s] = Append(sent[s], frame) /\ Len(sent'[s]) = Len(sent[s]) + 1
           /\ \A k \in 1..Len(sent[s]) : sent'[s][k] = sent[s][k]
           /\ sent'[s][Len(sent[s]) + 1] = frame
           /\ \A k \in 1..Len(sent'[s]) : k \in 1..Len(sent[s]) \/ k = Len(sent[s]) + 1
           /\ Last(sent'[s]) = frame
<1> DEFINE s == sockets[fd]
<1>1. sent[s] \in Seq(Frames) /\ Len(sent[s]) \in Nat
  BY LenProperties DEF IInv, TypeOK, StreamTypes
<1>2. sent'[s] = Append(sent[s], frame) /\ \A t \in Subs : t # s => sent'[t] = sent[t]
  BY DEF Put
<1>3. /\ Len(sent'[s]) = Len(sent[s]) + 1
      /\ \A k \in 1..Len(sent[s]) : sent'[s][k] = sent[s][k]
      /\ sent'[s][Len(sent[s]) + 1] = frame
  BY <1>1, <1>2, AppendProperties
<1>4. \A k \in 1..Len(sent'[s]) : k \in 1..Len(sent[s]) \/ k = Len(sent[s]) + 1
  BY <1>1, <1>3
<1> QED BY <1>1, <1>2, <1>3, <1>4 DEF Last

\* What a step puts on a connection: a message, for a connected id that is in
\* line, or the acknowledgement of a request that applies.
LEMMA RoutedMessage ==
    ASSUME IInv, Opened, NEW c \in Ids, RouteTo(c), subscribers[c].connected
    PROVE  /\ subscribers[c].sockfd \in Fds /\ sockets[subscribers[c].sockfd] \in Subs
           /\ client_id[sockets[subscribers[c].sockfd]] = c
           /\ message \in Messages /\ MessageFrame(message) \in Frames
           /\ Send(subscribers[c].sockfd, MessageFrame(message))
<1>1. message \in Messages
  BY DEF IInv, TurnState, RouteTo
<1>2. MessageFrame(message) \in Frames
  BY <1>1 DEF Messages, MessageFrame, Frames
<1>3. Send(subscribers[c].sockfd, MessageFrame(message))
  BY DEF RouteTo, Skipped
<1> QED BY <1>1, <1>2, <1>3, ConnectedClient

LEMMA Acknowledged ==
    ASSUME IInv, Opened, HandleRequest, Applies(ThisId, Head(up[ThisSub]))
    PROVE  /\ ThisId \in Ids /\ subscribers[ThisId].connected
           /\ subscribers[ThisId].sockfd = ThisFd /\ ThisFd \in Fds
           /\ sockets[ThisFd] \in Subs /\ ThisSub = sockets[ThisFd]
           /\ Head(up[ThisSub]) \in Requests
           /\ AckFrame(Head(up[ThisSub])) \in Frames
           /\ Send(ThisFd, AckFrame(Head(up[ThisSub])))
<1> DEFINE request == Head(up[ThisSub])
<1>1. /\ request \in Requests /\ ThisId \in Ids /\ ThisSub \in Subs
      /\ Send(subscribers[ThisId].sockfd, AckFrame(request))
  BY AppliedRequest
<1>2. ThisFd \in Fds
  BY ScannedClient DEF HandleRequest, HasRequest
<1>3. subscribers[ThisId].connected /\ subscribers[ThisId].sockfd = ThisFd
  <2>1. connected_subscribers[ThisFd] = ThisId
    BY DEF ThisId
  <2> QED BY <1>1, <1>2, <2>1 DEF IInv, SessionTables, IdsMatchFds
<1> HIDE DEF request
<1>4. AckFrame(request) \in Frames
  BY <1>1 DEF AckFrame, Requests, Frames
<1> QED BY <1>1, <1>2, <1>3, <1>4 DEF ThisSub, request

------------------------------------------------------------------------------
(* Which steps touch the connections *)

\* Steps that open and close no connection and send nothing.
LEMMA ConnectionsStay ==
    ASSUME Connections, UNCHANGED <<backlog, link, sockets, sent, new_socket>>,
           Down => Down', pc' = "readid" => pc = "readid",
           \A s \in Subs : phase'[s] = "off" => phase[s] = "off",
           \A c \in Ids : /\ subscribers'[c].connected => subscribers[c].connected
                          /\ subscribers'[c].sockfd = subscribers[c].sockfd
    PROVE  Connections'
<1>1. Backlogged'
  BY DEF Connections, Backlogged
<1>2. Opened'
  BY DEF Connections, Opened
<1>3. NothingSentYet'
  BY DEF Connections, NothingSentYet, NewSub
<1> QED BY <1>1, <1>2, <1>3 DEF Connections

LEMMA QuietKeeps ==
    ASSUME IInv, Connections,
           \/ Poll \/ NoInput \/ RecvDatagram \/ UdpDrained \/ NoAccept \/ NextClient \/ ScanDone
           \/ \E s \in Subs : SendId(s) \/ ServerGone(s) \/ Exit(s)
           \/ \E s \in Subs, request \in Requests : Request(s, request)
           \/ \E topic \in Topics : Publish(topic)
           \/ \E line \in Lines : TypeLine(line)
           \/ UNCHANGED vars
    PROVE  /\ Connections'
           /\ UNCHANGED <<subscribers, connected_subscribers, sockets, sent, client_id, trie>>
<1>0. phase \in [Subs -> {"off", "connecting", "up", "closed"}]
  BY DEF IInv, TypeOK, ClientTypes
<1>1. CASE Poll \/ NoInput \/ RecvDatagram \/ UdpDrained \/ NoAccept \/ NextClient \/ ScanDone
  <2>1. /\ UNCHANGED <<backlog, link, sockets, sent, new_socket, phase, subscribers>>
        /\ ~Down /\ pc' # "readid"
        /\ UNCHANGED <<connected_subscribers, client_id, trie>>
    BY <1>1 DEF Poll, NoInput, RecvDatagram, UdpDrained, NoAccept, NextClient, ScanDone,
                Scanning, Down
  <2> QED BY <2>1, ConnectionsStay
<1>2. CASE \E s \in Subs : SendId(s) \/ ServerGone(s) \/ Exit(s)
  <2>1. PICK s \in Subs : SendId(s) \/ ServerGone(s) \/ Exit(s)
    BY <1>2
  <2>2. /\ UNCHANGED <<backlog, link, sockets, sent, new_socket, subscribers, pc>>
        /\ UNCHANGED <<connected_subscribers, client_id, trie>>
        /\ phase' = [phase EXCEPT ![s] = "up"] \/ phase' = [phase EXCEPT ![s] = "closed"]
    BY <2>1 DEF SendId, ServerGone, Exit
  <2>3. \A t \in Subs : phase'[t] = "off" => phase[t] = "off"
    BY <1>0, <2>2
  <2> QED BY <2>2, <2>3, ConnectionsStay DEF Down
<1>3. CASE \/ \E s \in Subs, request \in Requests : Request(s, request)
           \/ \E topic \in Topics : Publish(topic)
           \/ \E line \in Lines : TypeLine(line)
           \/ UNCHANGED vars
  <2>1. /\ UNCHANGED <<backlog, link, sockets, sent, new_socket, phase, subscribers, pc>>
        /\ UNCHANGED <<connected_subscribers, client_id, trie>>
    BY <1>3 DEF Request, Publish, TypeLine, vars
  <2> QED BY <2>1, ConnectionsStay DEF Down
<1> QED BY <1>1, <1>2, <1>3

LEMMA EndKeeps ==
    ASSUME IInv, Connections, HandleStdin \/ Killed PROVE Connections'
<1>1. /\ UNCHANGED <<backlog, sockets, sent, phase, subscribers>>
      /\ ~Down /\ pc' # "readid"
      /\ UNCHANGED link \/ (Down' /\ CloseAll)
  <2>1. CASE HandleStdin
    BY <2>1 DEF HandleStdin, Down
  <2>2. CASE Killed
    BY <2>2 DEF Killed, HasRequest, Scanning, Down
  <2> QED BY <2>1, <2>2
<1>2. \A s \in Subs : \/ link'[s] = link[s]
                      \/ Down' /\ link[s] \in {"queued", "open"} /\ link'[s] = "closed"
  BY <1>1 DEF CloseAll
<1>3. Backlogged'
  <2>1. ~Down' => link' = link
    BY <1>1
  <2>2. \A s \in Subs : link[s] = "none" => link'[s] = "none"
    BY <1>2
  <2> QED BY <1>1, <2>1, <2>2 DEF Connections, Backlogged
<1>4. Opened'
  <2>1. \A fd \in Fds : sockets[fd] # None => sockets[fd] \in Subs
    BY DEF IInv, TypeOK, KernelTypes
  <2>2. \A s \in Subs : link[s] \in {"open", "closed"} => link'[s] \in {"open", "closed"}
    BY <1>2
  <2> QED BY <1>1, <2>1, <2>2 DEF Connections, Opened
<1>5. NothingSentYet'
  BY <1>1, <1>2 DEF Connections, NothingSentYet
<1> QED BY <1>3, <1>4, <1>5 DEF Connections

\* Sending to a connected client sends nothing to one that waits.
LEMMA SendKeeps ==
    ASSUME IInv, Connections, NEW fd \in Fds, sockets[fd] \in Subs, NEW frame \in Frames,
           Send(fd, frame), UNCHANGED <<pc, backlog, link, sockets, phase>>, pc # "readid",
           \A c \in Ids : /\ subscribers'[c].connected => subscribers[c].connected
                          /\ subscribers'[c].sockfd = subscribers[c].sockfd
    PROVE  Connections'
<1>1. \A t \in Subs : t # sockets[fd] => sent'[t] = sent[t]
  BY SendEffect DEF Send
<1>2. link[sockets[fd]] \in {"open", "closed"}
  BY ConstantsAssumption DEF Connections, Opened
<1>3. NothingSentYet'
  BY <1>1, <1>2 DEF Connections, NothingSentYet
<1>4. Backlogged'
  BY DEF Connections, Backlogged, Down
<1>5. Opened'
  BY DEF Connections, Opened
<1> QED BY <1>3, <1>4, <1>5 DEF Connections

LEMMA RouteToConnections ==
    ASSUME IInv, Connections, NEW c \in Ids, RouteTo(c) PROVE Connections'
<1>1. /\ UNCHANGED <<pc, backlog, link, sockets, new_socket, phase, subscribers>>
      /\ pc = "udp"
  BY DEF RouteTo
<1>2. CASE subscribers[c].connected
  BY <1>1, <1>2, RoutedMessage, SendKeeps DEF Connections
<1>3. CASE ~subscribers[c].connected
  <2>1. UNCHANGED sent
    BY <1>3 DEF RouteTo, Skipped
  <2> QED BY <1>1, <2>1, ConnectionsStay DEF Down
<1> QED BY <1>2, <1>3

LEMMA HandleRequestConnections ==
    ASSUME IInv, Connections, HandleRequest PROVE Connections'
<1>1. /\ UNCHANGED <<pc, backlog, link, sockets, new_socket, phase>> /\ pc = "scan"
  BY DEF HandleRequest, HasRequest, Scanning
<1>2. CASE Applies(ThisId, Head(up[ThisSub]))
  <2> DEFINE request == Head(up[ThisSub])
  <2>1. /\ ThisFd \in Fds /\ sockets[ThisFd] \in Subs /\ AckFrame(request) \in Frames
        /\ Send(ThisFd, AckFrame(request)) /\ request \in Requests /\ ThisId \in Ids
        /\ UpdateTopics(ThisId, request)
    BY <1>2, Acknowledged, AppliedRequest DEF Connections
  <2> HIDE DEF request
  <2>2. \A c \in Ids : /\ subscribers'[c].connected = subscribers[c].connected
                       /\ subscribers'[c].sockfd = subscribers[c].sockfd
    BY <2>1, TopicsChange
  <2> QED BY <1>1, <2>1, <2>2, SendKeeps
<1>3. CASE ~Applies(ThisId, Head(up[ThisSub]))
  <2>1. UNCHANGED <<sent, subscribers>>
    BY <1>3 DEF HandleRequest
  <2> QED BY <1>1, <2>1, ConnectionsStay DEF Down
<1> QED BY <1>2, <1>3

LEMMA AcceptConnections == ASSUME IInv, Connections, Accept PROVE Connections'
<1> DEFINE s == Head(backlog)
           rest == Tail(backlog)
<1>1. /\ pc = "listen" /\ pc' = "readid" /\ backlog' = rest
      /\ link' = [link EXCEPT ![s] = "open"]
      /\ UNCHANGED <<phase, sent, subscribers>>
  BY DEF Accept
<1>2. PICK fd \in FreeFds : new_socket' = fd /\ sockets' = [sockets EXCEPT ![fd] = s]
  BY DEF Accept
<1>3. fd \in Fds /\ sockets[fd] = None
  BY <1>2 DEF FreeFds
<1>4. backlog \in Seq(Subs) /\ backlog # <<>> /\ Len(backlog) \in Nat
  BY LenProperties DEF IInv, TypeOK, KernelTypes, TurnState, Accept
<1>5. /\ s \in Subs /\ s = backlog[1] /\ 1 \in 1..Len(backlog)
      /\ Len(rest) = Len(backlog) - 1
      /\ \A k \in 1..Len(rest) : rest[k] = backlog[k+1] /\ k+1 \in 1..Len(backlog) /\ k+1 # 1
                                 /\ backlog[k+1] \in Subs
  <2>1. /\ s \in Subs /\ Len(rest) = Len(backlog) - 1
        /\ \A k \in 1..Len(rest) : rest[k] = backlog[k+1]
    BY <1>4, HeadTailProperties
  <2>2. Len(backlog) > 0 /\ s = backlog[1]
    BY <1>4, EmptySeq
  <2>3. \A k \in 1..Len(rest) : k+1 \in 1..Len(backlog) /\ k+1 # 1
    BY <1>4, <2>1
  <2> QED BY <1>4, <2>1, <2>2, <2>3, ElementOfSeq
<1>6. link[s] = "queued" /\ \A k \in 1..Len(rest) : rest[k] # s
  BY <1>1, <1>5 DEF Connections, Backlogged, Down
<1>7. /\ link \in [Subs -> {"none", "queued", "open", "closed"}]
      /\ sockets \in [Fds -> Subs \cup {None}] /\ s # None
  BY <1>5, ConstantsAssumption DEF IInv, TypeOK, KernelTypes
<1> HIDE DEF s, rest
<1>8. \A t \in Subs : link'[t] = IF t = s THEN "open" ELSE link[t]
  BY <1>1, <1>5, <1>7
<1>9. \A f \in Fds : sockets'[f] = IF f = fd THEN s ELSE sockets[f]
  BY <1>2, <1>3, <1>7
<1>10. \A f \in Fds : sockets[f] # s
  BY <1>6, <1>7 DEF Connections, Opened
<1>11. Backlogged'
  <2>1. \A j, k \in 1..Len(rest) : rest[j] = rest[k] => j = k
    <3> SUFFICES ASSUME NEW j \in 1..Len(rest), NEW k \in 1..Len(rest), rest[j] = rest[k]
                 PROVE  j = k
      OBVIOUS
    <3>1. j + 1 = k + 1
      BY <1>5 DEF Connections, Backlogged
    <3> QED BY <3>1
  <2>2. \A k \in 1..Len(rest) : link'[rest[k]] = "queued"
    BY <1>1, <1>5, <1>6, <1>8 DEF Connections, Backlogged, Down
  <2>3. \A t \in Subs : phase[t] = "off" => link'[t] = "none"
    BY <1>6, <1>8 DEF Connections, Backlogged
  <2> QED BY <1>1, <2>1, <2>2, <2>3 DEF Backlogged
<1>12. Opened'
  <2>1. \A f, g \in Fds : sockets'[f] # None /\ sockets'[f] = sockets'[g] => f = g
    BY <1>9, <1>10 DEF Connections, Opened
  <2>2. \A f \in Fds : sockets'[f] # None => link'[sockets'[f]] \in {"open", "closed"}
    BY <1>5, <1>7, <1>8, <1>9 DEF Connections, Opened
  <2> QED BY <1>1, <2>1, <2>2 DEF Connections, Opened
<1>13. NothingSentYet'
  <2>1. NewSub' = s
    BY <1>2, <1>3, <1>9 DEF NewSub
  <2>2. sent[s] = <<>>
    BY <1>5, <1>6 DEF Connections, NothingSentYet
  <2>3. \A t \in Subs : link'[t] \in {"none", "queued"} => sent[t] = <<>>
    BY <1>8 DEF Connections, NothingSentYet
  <2>4. link'[s] = "open"
    BY <1>5, <1>8
  <2> QED BY <1>1, <2>1, <2>2, <2>3, <2>4 DEF NothingSentYet
<1> QED BY <1>11, <1>12, <1>13 DEF Connections

\* A connection that ends gives its descriptor back.
LEMMA CloseKeeps ==
    ASSUME IInv, Connections, ~Down, ~Down', pc' # "readid", NEW fd \in Fds, sockets[fd] \in Subs,
           sockets' = [sockets EXCEPT ![fd] = None],
           link' = [link EXCEPT ![sockets[fd]] = "closed"],
           UNCHANGED <<backlog, phase, sent>>,
           \A c \in Ids : /\ subscribers'[c].connected => subscribers[c].connected
                          /\ subscribers'[c].sockfd = subscribers[c].sockfd
    PROVE  Connections'
<1> DEFINE s == sockets[fd]
<1>1. /\ link \in [Subs -> {"none", "queued", "open", "closed"}]
      /\ sockets \in [Fds -> Subs \cup {None}] /\ backlog \in Seq(Subs)
  BY DEF IInv, TypeOK, KernelTypes
<1>2. link[s] \in {"open", "closed"}
  BY ConstantsAssumption DEF Connections, Opened
<1>3. \A t \in Subs : link'[t] = IF t = s THEN "closed" ELSE link[t]
  BY <1>1
<1>4. \A f \in Fds : sockets'[f] = IF f = fd THEN None ELSE sockets[f]
  BY <1>1
<1>5. \A k \in 1..Len(backlog) : backlog[k] \in Subs
  BY <1>1, ElementOfSeq
<1> HIDE DEF s
<1>6. Backlogged'
  <2>1. \A k \in 1..Len(backlog) : link'[backlog[k]] = "queued"
    BY <1>2, <1>3, <1>5 DEF Connections, Backlogged
  <2>2. \A t \in Subs : phase[t] = "off" => link'[t] = "none"
    BY <1>2, <1>3 DEF Connections, Backlogged
  <2> QED BY <2>1, <2>2 DEF Connections, Backlogged
<1>7. Opened'
  <2>1. \A f, g \in Fds : sockets'[f] # None /\ sockets'[f] = sockets'[g] => f = g
    BY <1>4 DEF Connections, Opened
  <2>2. \A f \in Fds : sockets'[f] # None => link'[sockets'[f]] \in {"open", "closed"}
    BY <1>1, <1>3, <1>4 DEF Connections, Opened
  <2> QED BY <2>1, <2>2 DEF Connections, Opened
<1>8. NothingSentYet'
  BY <1>3 DEF Connections, NothingSentYet
<1> QED BY <1>6, <1>7, <1>8 DEF Connections

LEMMA DisconnectConnections == ASSUME IInv, Connections, Disconnect PROVE Connections'
<1>1. ThisFd \in Fds /\ ThisSub \in Subs /\ ThisId \in Ids /\ ThisSub = sockets[ThisFd]
  BY ScannedClient DEF Disconnect, ThisSub
<1>2. /\ pc = "scan" /\ UNCHANGED pc
      /\ sockets' = [sockets EXCEPT ![ThisFd] = None]
      /\ link' = [link EXCEPT ![ThisSub] = "closed"]
      /\ UNCHANGED <<backlog, phase, sent>>
      /\ subscribers' = [subscribers EXCEPT ![ThisId].connected = FALSE]
  BY DEF Disconnect, Scanning, MarkDisconnected
<1>3. \A c \in Ids : /\ subscribers'[c].connected => subscribers[c].connected
                     /\ subscribers'[c].sockfd = subscribers[c].sockfd
  <2> DEFINE Entry == [connected : BOOLEAN, sockfd : Fds \cup {0}, topics : SUBSET Patterns]
  <2>1. subscribers \in [Ids -> Entry]
    BY DEF IInv, TypeOK, TableTypes
  <2> SUFFICES ASSUME NEW c \in Ids
               PROVE  /\ subscribers'[c].connected => subscribers[c].connected
                      /\ subscribers'[c].sockfd = subscribers[c].sockfd
    OBVIOUS
  <2>2. CASE c # ThisId
    BY <1>2, <2>1, <2>2
  <2>3. CASE c = ThisId
    BY <1>2, <2>1, <2>3
  <2> QED BY <2>2, <2>3
<1> QED BY <1>1, <1>2, <1>3, CloseKeeps DEF Down

LEMMA RefuseClientConnections == ASSUME IInv, Connections, RefuseClient PROVE Connections'
<1>1. new_socket \in Fds /\ NewSub \in Subs /\ NewSub = sockets[new_socket]
  BY Handshaking DEF RefuseClient, NewSub
<1>2. /\ pc = "readid" /\ pc' = "scan"
      /\ sockets' = [sockets EXCEPT ![new_socket] = None]
      /\ link' = [link EXCEPT ![NewSub] = "closed"]
      /\ UNCHANGED <<backlog, phase, sent, subscribers>>
  BY DEF RefuseClient, CloseNewSocket
<1> QED BY <1>1, <1>2, CloseKeeps DEF Down

\* What registering does to the tables.
LEMMA Registered ==
    ASSUME IInv, RegisterClient
    PROVE  LET c == client_id[NewSub] IN
           /\ c \in Ids /\ new_socket \in Fds /\ NewSub \in Subs /\ NewSub = sockets[new_socket]
           /\ ~subscribers[c].connected /\ connected_subscribers[new_socket] = None
           /\ connected_subscribers' = [connected_subscribers EXCEPT ![new_socket] = c]
           /\ \A d \in Ids : d # c => subscribers'[d] = subscribers[d]
           /\ subscribers'[c].connected /\ subscribers'[c].sockfd = new_socket
           /\ subscribers'[c].topics = subscribers[c].topics
           /\ pc = "readid" /\ pc' = "scan"
           /\ UNCHANGED <<sockets, sent, client_id, backlog, link, phase, trie, message,
                          matching_ids, udp, published>>
<1> DEFINE c == client_id[NewSub]
           Entry == [connected : BOOLEAN, sockfd : Fds \cup {0}, topics : SUBSET Patterns]
<1>1. /\ c \in Ids /\ new_socket \in Fds /\ NewSub \in Subs /\ NewSub = sockets[new_socket]
      /\ connected_subscribers[new_socket] = None
  BY Handshaking DEF RegisterClient, NewSub
<1>2. /\ ~subscribers[c].connected
      /\ subscribers' = [subscribers EXCEPT ![c].connected = TRUE, ![c].sockfd = new_socket]
      /\ connected_subscribers' = [connected_subscribers EXCEPT ![new_socket] = c]
      /\ pc = "readid" /\ pc' = "scan"
      /\ UNCHANGED <<sockets, sent, client_id, backlog, link, phase, trie, message,
                     matching_ids, udp, published>>
  BY DEF RegisterClient, Taken
<1>3. subscribers \in [Ids -> Entry]
  BY DEF IInv, TypeOK, TableTypes
<1> HIDE DEF c
<1>4. \A d \in Ids : d # c => subscribers'[d] = subscribers[d]
  BY <1>2, <1>3
<1>5. /\ subscribers'[c].connected /\ subscribers'[c].sockfd = new_socket
      /\ subscribers'[c].topics = subscribers[c].topics
  BY <1>1, <1>2, <1>3
<1> QED BY <1>1, <1>2, <1>4, <1>5 DEF c

LEMMA RegisterClientConnections == ASSUME IInv, Connections, RegisterClient PROVE Connections'
<1> DEFINE c == client_id[NewSub]
<1>1. /\ c \in Ids /\ new_socket \in Fds
      /\ \A d \in Ids : d # c => subscribers'[d] = subscribers[d]
      /\ subscribers'[c].sockfd = new_socket
      /\ pc = "readid" /\ pc' = "scan" /\ UNCHANGED <<sockets, sent, backlog, link, phase>>
  BY Registered
<1> HIDE DEF c
<1>2. Backlogged'
  BY <1>1 DEF Connections, Backlogged, Down
<1>3. Opened'
  BY <1>1 DEF Connections, Opened
<1>4. NothingSentYet'
  BY <1>1 DEF Connections, NothingSentYet
<1> QED BY <1>2, <1>3, <1>4 DEF Connections

LEMMA StartConnections ==
    ASSUME IInv, Connections, NEW s \in Subs, NEW c \in Ids, Start(s, c) PROVE Connections'
<1>1. /\ ~Down /\ phase[s] = "off" /\ phase' = [phase EXCEPT ![s] = "connecting"]
      /\ link' = [link EXCEPT ![s] = "queued"] /\ backlog' = Append(backlog, s)
      /\ UNCHANGED <<pc, sockets, sent, subscribers, new_socket>>
  BY DEF Start
<1>2. link[s] = "none" /\ sent[s] = <<>>
  BY <1>1 DEF Connections, Backlogged, NothingSentYet
<1>3. /\ backlog \in Seq(Subs) /\ Len(backlog) \in Nat
      /\ link \in [Subs -> {"none", "queued", "open", "closed"}]
      /\ phase \in [Subs -> {"off", "connecting", "up", "closed"}]
      /\ sockets \in [Fds -> Subs \cup {None}]
  BY LenProperties DEF IInv, TypeOK, KernelTypes, ClientTypes
<1>4. /\ Len(backlog') = Len(backlog) + 1
      /\ \A k \in 1..Len(backlog) : backlog'[k] = backlog[k] /\ backlog[k] \in Subs
      /\ backlog'[Len(backlog) + 1] = s
      /\ \A k \in 1..Len(backlog') : k \in 1..Len(backlog) \/ k = Len(backlog) + 1
  <2>1. /\ Len(backlog') = Len(backlog) + 1
        /\ \A k \in 1..Len(backlog) : backlog'[k] = backlog[k]
        /\ backlog'[Len(backlog) + 1] = s
    BY <1>1, <1>3, AppendProperties
  <2>2. \A k \in 1..Len(backlog') : k \in 1..Len(backlog) \/ k = Len(backlog) + 1
    BY <1>3, <2>1
  <2> QED BY <1>3, <2>1, <2>2, ElementOfSeq
<1>5. \A t \in Subs : link'[t] = IF t = s THEN "queued" ELSE link[t]
  BY <1>1, <1>3
<1>6. \A k \in 1..Len(backlog) : link[backlog[k]] = "queued" /\ backlog[k] # s
  BY <1>1, <1>2 DEF Connections, Backlogged
<1>7. Backlogged'
  <2>1. \A j, k \in 1..Len(backlog') : backlog'[j] = backlog'[k] => j = k
    BY <1>4, <1>6 DEF Connections, Backlogged
  <2>2. \A k \in 1..Len(backlog') : link'[backlog'[k]] = "queued"
    BY <1>4, <1>5, <1>6
  <2>3. \A t \in Subs : phase'[t] = "off" => link'[t] = "none"
    BY <1>1, <1>3, <1>5 DEF Connections, Backlogged
  <2> QED BY <2>1, <2>2, <2>3 DEF Backlogged
<1>8. Opened'
  <2>1. \A f \in Fds : sockets[f] # None => sockets[f] \in Subs /\ sockets[f] # s
    BY <1>2, <1>3 DEF Connections, Opened
  <2> QED BY <1>1, <1>5, <2>1 DEF Connections, Opened
<1>9. NothingSentYet'
  <2>1. pc = "readid" => NewSub \in Subs /\ NewSub # s /\ link[NewSub] = "open"
    BY <1>2, Handshaking DEF Connections, NothingSentYet
  <2>2. NewSub' = NewSub
    BY <1>1 DEF NewSub
  <2> QED BY <1>1, <1>2, <1>5, <2>1, <2>2 DEF Connections, NothingSentYet
<1> QED BY <1>7, <1>8, <1>9 DEF Connections

LEMMA ConnectionsInit == Init => Connections
<1> SUFFICES ASSUME Init PROVE Connections
  OBVIOUS
<1>1. backlog = <<>> /\ Len(backlog) = 0 /\ pc = "poll"
  BY EmptySeq DEF Init
<1>2. /\ sockets = [fd \in Fds |-> None] /\ link = [s \in Subs |-> "none"]
      /\ sent = [s \in Subs |-> <<>>]
      /\ \A c \in Ids : ~subscribers[c].connected
  BY DEF Init
<1> QED BY <1>1, <1>2 DEF Connections, Backlogged, Opened, NothingSentYet

LEMMA ConnectionsKeep == IInv /\ Connections /\ [Next]_vars => Connections'
<1> SUFFICES ASSUME IInv, Connections, [Next]_vars PROVE Connections'
  OBVIOUS
<1>1. CASE ServerStep
  BY <1>1, QuietKeeps, EndKeeps, RouteToConnections, HandleRequestConnections, AcceptConnections,
     DisconnectConnections, RefuseClientConnections, RegisterClientConnections DEF ServerStep
<1>2. CASE Environment \/ UNCHANGED vars
  BY <1>2, QuietKeeps, StartConnections DEF Environment
<1> QED BY <1>1, <1>2 DEF Next

\* A connection that has ended stays so, and so does a client.
LEMMA EndedStays ==
    ASSUME IInv, Connections, [Next]_vars, NEW s \in Subs
    PROVE  /\ phase[s] = "closed" => phase'[s] = "closed"
           /\ link[s] = "closed" => link'[s] = "closed" /\ client_id'[s] = client_id[s]
<1>1. /\ link \in [Subs -> {"none", "queued", "open", "closed"}]
      /\ phase \in [Subs -> {"off", "connecting", "up", "closed"}]
      /\ client_id \in [Subs -> Ids \cup {None}]
  BY DEF IInv, TypeOK, KernelTypes, ClientTypes
<1>2. CASE UNCHANGED <<phase, link, client_id>>
  BY <1>2
<1>3. CASE HandleStdin \/ Killed
  <2>1. UNCHANGED <<phase, client_id>> /\ (CloseAll \/ UNCHANGED link)
    BY <1>3 DEF HandleStdin, Killed
  <2> QED BY <2>1 DEF CloseAll
<1>4. CASE Accept
  <2>1. UNCHANGED <<phase, client_id>> /\ link' = [link EXCEPT ![Head(backlog)] = "open"]
        /\ ~Down /\ backlog # <<>>
    BY <1>4 DEF Accept, Down, IInv, TurnState
  <2>2. Head(backlog) = backlog[1] /\ 1 \in 1..Len(backlog)
    <3>1. backlog \in Seq(Subs) /\ Len(backlog) \in Nat
      BY LenProperties DEF IInv, TypeOK, KernelTypes
    <3>2. Len(backlog) # 0
      BY <2>1, <3>1, EmptySeq
    <3> QED BY <3>1, <3>2
  <2>3. link[Head(backlog)] = "queued"
    BY <2>1, <2>2 DEF Connections, Backlogged
  <2> QED BY <1>1, <2>1, <2>3
<1>5. CASE RefuseClient \/ Disconnect
  <2>1. UNCHANGED <<phase, client_id>>
        /\ \E t : link' = [link EXCEPT ![t] = "closed"]
    BY <1>5 DEF RefuseClient, Disconnect, CloseNewSocket
  <2> QED BY <1>1, <2>1
<1>6. CASE \E t \in Subs, c \in Ids : Start(t, c)
  <2>1. PICK t \in Subs, c \in Ids : Start(t, c)
    BY <1>6
  <2>2. /\ phase' = [phase EXCEPT ![t] = "connecting"] /\ link' = [link EXCEPT ![t] = "queued"]
        /\ client_id' = [client_id EXCEPT ![t] = c] /\ phase[t] = "off"
    BY <2>1 DEF Start
  <2>3. link[t] = "none"
    BY <2>2 DEF Connections, Backlogged
  <2> QED BY <1>1, <2>2, <2>3
<1>7. CASE \E t \in Subs : SendId(t) \/ ServerGone(t) \/ Exit(t)
  <2>1. PICK t \in Subs : SendId(t) \/ ServerGone(t) \/ Exit(t)
    BY <1>7
  <2>2. /\ UNCHANGED <<link, client_id>> /\ phase[t] # "closed"
        /\ phase' = [phase EXCEPT ![t] = "up"] \/ phase' = [phase EXCEPT ![t] = "closed"]
    BY <2>1 DEF SendId, ServerGone, Exit
  <2> QED BY <1>1, <2>2
<1>8. CASE \/ Poll \/ NoInput \/ RecvDatagram \/ UdpDrained \/ NoAccept \/ NextClient \/ ScanDone
           \/ RegisterClient \/ HandleRequest \/ \E c \in Ids : RouteTo(c)
           \/ \E t \in Subs, request \in Requests : Request(t, request)
           \/ \E topic \in Topics : Publish(topic)
           \/ \E line \in Lines : TypeLine(line)
           \/ UNCHANGED vars
  <2>1. UNCHANGED <<phase, link, client_id>>
    BY <1>8 DEF Poll, NoInput, RecvDatagram, UdpDrained, NoAccept, NextClient, ScanDone,
                RegisterClient, HandleRequest, RouteTo, Request, Publish, TypeLine, vars
  <2> QED BY <1>2, <2>1
<1> QED BY <1>3, <1>4, <1>5, <1>6, <1>7, <1>8 DEF Next, ServerStep, Environment

------------------------------------------------------------------------------
(* Who a message goes to *)

\* What a query of the trie finds is an id with a covering pattern.
LEMMA FoundWant ==
    ASSUME IInv, TrieInv, NEW topic, NEW c \in FindSubscribers(trie, topic)
    PROVE  c \in Ids /\ Wants(c, topic)
<1>1. PICK node \in DOMAIN trie : Reaches(node, SplitTopic(topic)) /\ c \in trie[node]
  BY DEF FindSubscribers
<1>2. PICK p \in Patterns : SplitTopic(p) = node
  BY <1>1 DEF TrieInv, IdsOnPaths
<1>3. c \in IdsAt(trie, SplitTopic(p)) /\ c \in Ids
  BY <1>1, <1>2 DEF IdsAt, IInv, TypeOK, TableTypes
<1>4. PICK q \in subscribers[c].topics : SplitTopic(q) = node
  BY <1>2, <1>3 DEF TrieInv, TrieWithinTopics
<1> QED BY <1>1, <1>3, <1>4 DEF Wants, Covers

\* And where paths have one text, it finds every such id.
LEMMA WantersFound ==
    ASSUME IInv, TrieMirrorsTopics, NEW topic, NEW c \in Ids, Wants(c, topic)
    PROVE  c \in FindSubscribers(trie, topic)
<1>1. PICK p \in subscribers[c].topics : Reaches(SplitTopic(p), SplitTopic(topic))
  BY DEF Wants, Covers
<1>2. p \in Patterns
  BY <1>1 DEF IInv, TypeOK, TableTypes
<1>3. c \in IdsAt(trie, SplitTopic(p))
  BY <1>1, <1>2 DEF TrieMirrorsTopics
<1>4. SplitTopic(p) \in DOMAIN trie /\ c \in trie[SplitTopic(p)]
  BY <1>3 DEF IdsAt
<1> QED BY <1>1, <1>4 DEF FindSubscribers

\* The routing of a datagram: it is there while the datagram is routed, and
\* the ids in line for it want it.
Routing ==
    /\ message # None => pc \in {"udp", "killed"}
    /\ matching_ids # {} => message # None
    /\ \A c \in matching_ids : Wants(c, message.topic)

\* Every step but those of the UDP loop leaves the routing alone, and while a
\* datagram is routed it leaves the tables and the streams alone.
LEMMA RoutingStays ==
    ASSUME IInv, Routing, [Next]_vars, ~RecvDatagram, ~UdpDrained, \A c \in Ids : ~RouteTo(c)
    PROVE  /\ UNCHANGED <<message, matching_ids>>
           /\ message # None => /\ UNCHANGED <<subscribers, sockets, sent>>
                                /\ pc' \in {"udp", "killed"}
<1>1. CASE \/ Poll \/ NoInput \/ HandleStdin \/ Accept \/ NoAccept \/ RefuseClient \/ RegisterClient
           \/ NextClient \/ ScanDone \/ HandleRequest \/ Disconnect
  <2>1. pc \notin {"udp", "killed"} /\ UNCHANGED <<message, matching_ids>>
    BY <1>1 DEF Poll, NoInput, HandleStdin, Accept, NoAccept, RefuseClient, RegisterClient,
                NextClient, ScanDone, HandleRequest, HasRequest, Disconnect, Scanning
  <2> QED BY <2>1 DEF Routing
<1>2. CASE Killed
  BY <1>2 DEF Killed
<1>3. CASE Environment
  <2>1. UNCHANGED <<pc, message, matching_ids, subscribers, sockets, sent>>
    <3>1. ASSUME NEW s \in Subs, NEW c \in Ids, Start(s, c)
          PROVE  UNCHANGED <<pc, message, matching_ids, subscribers, sockets, sent>>
      BY <3>1 DEF Start
    <3>2. ASSUME NEW s \in Subs, SendId(s) \/ ServerGone(s) \/ Exit(s)
          PROVE  UNCHANGED <<pc, message, matching_ids, subscribers, sockets, sent>>
      BY <3>2 DEF SendId, ServerGone, Exit
    <3>3. ASSUME NEW s \in Subs, NEW request \in Requests, Request(s, request)
          PROVE  UNCHANGED <<pc, message, matching_ids, subscribers, sockets, sent>>
      BY <3>3 DEF Request
    <3>4. ASSUME NEW topic \in Topics, Publish(topic)
          PROVE  UNCHANGED <<pc, message, matching_ids, subscribers, sockets, sent>>
      BY <3>4 DEF Publish
    <3>5. ASSUME NEW line \in Lines, TypeLine(line)
          PROVE  UNCHANGED <<pc, message, matching_ids, subscribers, sockets, sent>>
      BY <3>5 DEF TypeLine
    <3> QED BY <1>3, <3>1, <3>2, <3>3, <3>4, <3>5 DEF Environment
  <2> QED BY <2>1 DEF Routing
<1>4. CASE UNCHANGED vars
  BY <1>4 DEF vars, Routing
<1> QED BY <1>1, <1>2, <1>3, <1>4 DEF Next, ServerStep

\* The datagram received is the first in the queue.
LEMMA Received ==
    ASSUME IInv, RecvDatagram
    PROVE  /\ message' \in Messages /\ message' # None /\ message' = udp[1] /\ 1 \in 1..Len(udp)
           /\ matching_ids' = FindSubscribers(trie, message'.topic)
           /\ Len(udp') = Len(udp) - 1 /\ udp \in Seq(Messages) /\ Len(udp) \in Nat
           /\ \A k \in 1..Len(udp') : /\ udp'[k] = udp[k+1] /\ k + 1 \in 1..Len(udp) /\ 1 < k + 1
           /\ pc = "udp" /\ matching_ids = {}
           /\ UNCHANGED <<pc, subscribers, sockets, sent, client_id, published, trie,
                          connected_subscribers>>
<1>1. /\ udp # <<>> /\ message' = Head(udp) /\ udp' = Tail(udp)
      /\ matching_ids' = FindSubscribers(trie, Head(udp).topic)
      /\ pc = "udp" /\ matching_ids = {}
      /\ UNCHANGED <<pc, subscribers, sockets, sent, client_id, published, trie,
                     connected_subscribers>>
  BY DEF RecvDatagram
<1>2. udp \in Seq(Messages) /\ Len(udp) \in Nat
  BY LenProperties DEF IInv, TypeOK, KernelTypes
<1>3. /\ Head(udp) \in Messages /\ Len(udp') = Len(udp) - 1
      /\ \A k \in 1..Len(udp') : udp'[k] = udp[k+1]
  BY <1>1, <1>2, HeadTailProperties
<1>4. Len(udp) > 0 /\ Head(udp) = udp[1]
  BY <1>1, <1>2, EmptySeq
<1>5. \A k \in 1..Len(udp') : k + 1 \in 1..Len(udp) /\ 1 < k + 1
  BY <1>2, <1>3
<1>6. message' # None
  BY <1>1, <1>3, ConstantsAssumption DEF Messages
<1> QED BY <1>1, <1>2, <1>3, <1>4, <1>5, <1>6

LEMMA RoutingKeeps == IInv /\ TrieInv /\ Routing /\ [Next]_vars => Routing'
<1> SUFFICES ASSUME IInv, TrieInv, Routing, [Next]_vars PROVE Routing'
  OBVIOUS
<1>1. CASE RecvDatagram
  <2>1. /\ message' # None /\ pc' = "udp" /\ UNCHANGED subscribers
        /\ matching_ids' = FindSubscribers(trie, message'.topic)
    BY <1>1, Received
  <2>2. \A c \in matching_ids' : Wants(c, message'.topic)
    BY <2>1, FoundWant
  <2>3. \A c \in matching_ids' : Wants(c, message.topic)'
    BY <2>1, <2>2 DEF Wants
  <2> QED BY <2>1, <2>3 DEF Routing
<1>2. CASE UdpDrained
  BY <1>2 DEF UdpDrained, Routing
<1>3. CASE \E c \in Ids : RouteTo(c)
  <2>1. /\ UNCHANGED <<pc, message, subscribers>> /\ matching_ids' \subseteq matching_ids
    BY <1>3 DEF RouteTo
  <2> QED BY <2>1 DEF Routing, Wants
<1>4. CASE ~RecvDatagram /\ ~UdpDrained /\ \A c \in Ids : ~RouteTo(c)
  <2>1. /\ UNCHANGED <<message, matching_ids>>
        /\ message # None => UNCHANGED subscribers /\ pc' \in {"udp", "killed"}
    BY <1>4, RoutingStays
  <2> QED BY <2>1 DEF Routing, Wants
<1> QED BY <1>1, <1>2, <1>3, <1>4

\* A step that makes a stream longer puts a message of an id in line or an
\* acknowledgement there.
LEMMA StreamsChange ==
    ASSUME IInv, [Next]_vars, sent' # sent
    PROVE  \/ \E c \in Ids : RouteTo(c) /\ subscribers[c].connected
           \/ HandleRequest /\ Applies(ThisId, Head(up[ThisSub]))
<1>1. CASE \/ Poll \/ NoInput \/ HandleStdin \/ RecvDatagram \/ UdpDrained \/ Accept \/ NoAccept
           \/ RefuseClient \/ RegisterClient \/ NextClient \/ ScanDone \/ Disconnect \/ Killed
  BY <1>1 DEF Poll, NoInput, HandleStdin, RecvDatagram, UdpDrained, Accept, NoAccept, RefuseClient,
              RegisterClient, NextClient, ScanDone, Disconnect, Killed
<1>2. CASE Environment \/ UNCHANGED vars
  <2>1. ASSUME NEW s \in Subs, NEW c \in Ids, Start(s, c) PROVE UNCHANGED sent
    BY <2>1 DEF Start
  <2>2. ASSUME NEW s \in Subs, SendId(s) \/ ServerGone(s) \/ Exit(s) PROVE UNCHANGED sent
    BY <2>2 DEF SendId, ServerGone, Exit
  <2>3. ASSUME NEW s \in Subs, NEW request \in Requests, Request(s, request)
        PROVE  UNCHANGED sent
    BY <2>3 DEF Request
  <2>4. ASSUME NEW topic \in Topics, Publish(topic) PROVE UNCHANGED sent
    BY <2>4 DEF Publish
  <2>5. ASSUME NEW line \in Lines, TypeLine(line) PROVE UNCHANGED sent
    BY <2>5 DEF TypeLine
  <2>6. CASE UNCHANGED vars
    BY <2>6 DEF vars
  <2> QED BY <1>2, <2>1, <2>2, <2>3, <2>4, <2>5, <2>6 DEF Environment
<1>3. CASE HandleRequest
  BY <1>3 DEF HandleRequest
<1>4. ASSUME NEW c \in Ids, RouteTo(c) PROVE subscribers[c].connected
  BY <1>4 DEF RouteTo, Skipped
<1> QED BY <1>1, <1>2, <1>3, <1>4 DEF Next, ServerStep

LEMMA MessageReaches ==
    ASSUME IInv, Connections, Routing, [Next]_vars, NEW s \in Subs, sent'[s] # sent[s],
           IsMessage(Last(sent'[s]))
    PROVE  client_id[s] # None /\ Wants(client_id[s], Last(sent'[s]).topic)
<1>1. CASE \E c \in Ids : RouteTo(c) /\ subscribers[c].connected
  <2>1. PICK c \in Ids : RouteTo(c) /\ subscribers[c].connected
    BY <1>1
  <2> DEFINE fd == subscribers[c].sockfd
             frame == MessageFrame(message)
  <2>2. /\ fd \in Fds /\ sockets[fd] \in Subs /\ client_id[sockets[fd]] = c
        /\ frame \in Frames /\ Send(fd, frame)
    BY <2>1, RoutedMessage DEF Connections
  <2> HIDE DEF fd, frame
  <2>3. s = sockets[fd] /\ Last(sent'[s]) = frame
    BY <2>2, SendEffect DEF Send
  <2>4. Wants(c, message.topic) /\ frame.topic = message.topic
    BY <2>1 DEF Routing, RouteTo, frame, MessageFrame
  <2> QED BY <2>2, <2>3, <2>4, ConstantsAssumption
<1>2. CASE HandleRequest /\ Applies(ThisId, Head(up[ThisSub]))
  <2> DEFINE frame == AckFrame(Head(up[ThisSub]))
  <2>1. ThisFd \in Fds /\ sockets[ThisFd] \in Subs /\ frame \in Frames /\ Send(ThisFd, frame)
    BY <1>2, Acknowledged DEF Connections
  <2>2. frame.kind # "message"
    BY DEF AckFrame
  <2> HIDE DEF frame
  <2>3. Last(sent'[s]) = frame
    BY <2>1, SendEffect DEF Send
  <2> QED BY <2>2, <2>3 DEF IsMessage
<1> QED BY <1>1, <1>2, StreamsChange

LEMMA RoutedKeeps ==
    ASSUME IInv, TrieInv, Connections, Routing, [Next]_vars, TrieMirrorsTopics,
           RoutedToEverySubscriber
    PROVE  RoutedToEverySubscriber'
<1>1. CASE RecvDatagram
  <2>1. /\ matching_ids' = FindSubscribers(trie, message'.topic) /\ UNCHANGED subscribers
    BY <1>1, Received
  <2>2. \A c \in Ids : Wants(c, message'.topic) => c \in matching_ids'
    BY <2>1, WantersFound
  <2>3. \A c \in Ids : Wants(c, message.topic)' => c \in matching_ids'
    BY <2>1, <2>2 DEF Wants
  <2> QED BY <2>3 DEF RoutedToEverySubscriber
<1>2. CASE UdpDrained
  BY <1>2 DEF UdpDrained, RoutedToEverySubscriber
<1>3. CASE \E c \in Ids : RouteTo(c)
  <2>1. PICK c \in Ids : RouteTo(c)
    BY <1>3
  <2>2. UNCHANGED <<message, subscribers, sockets, phase>> /\ matching_ids' = matching_ids \ {c}
        /\ message # None
    BY <2>1 DEF RouteTo, Routing
  <2> DEFINE frame == MessageFrame(message)
             Reached(s) == phase[s] = "closed" \/ \E k \in 1..Len(sent'[s]) : sent'[s][k] = frame
  <2> SUFFICES ASSUME NEW d \in Ids \ matching_ids', subscribers[d].connected,
                      Wants(d, message.topic)
               PROVE  \E s \in Subs : s = sockets[subscribers[d].sockfd] /\ Reached(s)
    BY <2>2 DEF RoutedToEverySubscriber, Wants, frame, MessageFrame
  <2>3. CASE d = c
    <3> DEFINE fd == subscribers[c].sockfd
    <3>1. fd \in Fds /\ sockets[fd] \in Subs /\ frame \in Frames /\ Send(fd, frame)
      BY <2>1, <2>3, RoutedMessage DEF Connections
    <3> HIDE DEF fd, frame
    <3>2. CASE Put(fd, frame)
      <4>1. /\ Len(sent[sockets[fd]]) \in Nat
            /\ Len(sent'[sockets[fd]]) = Len(sent[sockets[fd]]) + 1
            /\ sent'[sockets[fd]][Len(sent[sockets[fd]]) + 1] = frame
        BY <3>1, <3>2, SendEffect
      <4>2. Len(sent[sockets[fd]]) + 1 \in 1..Len(sent'[sockets[fd]])
        BY <4>1
      <4> QED BY <2>3, <3>1, <4>1, <4>2 DEF fd
    <3>3. CASE Broken(fd)
      BY <2>3, <3>1, <3>3 DEF Broken, fd
    <3> QED BY <3>1, <3>2, <3>3 DEF Send
  <2>4. CASE d # c
    <3>1. PICK s \in Subs :
                 /\ s = sockets[subscribers[d].sockfd]
                 /\ phase[s] = "closed" \/ \E k \in 1..Len(sent[s]) : sent[s][k] = frame
      BY <2>2, <2>4 DEF RoutedToEverySubscriber
    <3>2. sent'[s] = sent[s]
      <4>1. CASE ~subscribers[c].connected
        BY <2>1, <4>1 DEF RouteTo, Skipped
      <4>2. CASE subscribers[c].connected
        <5> DEFINE fd == subscribers[c].sockfd
        <5>1. fd \in Fds /\ sockets[fd] \in Subs /\ frame \in Frames /\ Send(fd, frame)
          BY <2>1, <4>2, RoutedMessage DEF Connections
        <5>2. s # sockets[fd]
          BY <2>4, <3>1, <4>2, TwoClients DEF Connections
        <5> HIDE DEF fd, frame
        <5> QED BY <5>1, <5>2, SendEffect DEF Send
      <4> QED BY <4>1, <4>2
    <3> QED BY <3>1, <3>2
  <2> QED BY <2>3, <2>4
<1>4. CASE ~RecvDatagram /\ ~UdpDrained /\ \A c \in Ids : ~RouteTo(c)
  <2>1. /\ UNCHANGED <<message, matching_ids>>
        /\ message # None => UNCHANGED <<subscribers, sockets, sent>>
    BY <1>4, RoutingStays
  <2>2. \A s \in Subs : phase[s] = "closed" => phase'[s] = "closed"
    BY EndedStays
  <2> QED BY <2>1, <2>2 DEF RoutedToEverySubscriber, Wants, MessageFrame
<1> QED BY <1>1, <1>2, <1>3, <1>4

LEMMA RoutingInit == Init => Routing /\ RoutedToEverySubscriber
  BY DEF Init, Routing, RoutedToEverySubscriber

LEMMA RoutingInvariance == Spec => []Connections /\ []Routing
<1>1. Spec => []Connections
  BY ConnectionsInit, ConnectionsKeep, Inductive, PTL DEF Spec
<1>2. Spec => []Routing
  BY RoutingInit, RoutingKeeps, Inductive, TrieInvariance, PTL DEF Spec
<1> QED BY <1>1, <1>2

\* A message is only put on a connection whose client's id holds a covering
\* pattern at that moment (server.cpp:121-132), for any clients, patterns,
\* topics and bounds, and whatever descriptor numbers the kernel gives again.
THEOREM OnlyToSubscribers == Spec => MessagesReachSubscribersOnly
<1>1. IInv /\ Connections /\ Routing /\ [Next]_vars
         => [\A s \in Subs :
               sent'[s] # sent[s] /\ IsMessage(Last(sent'[s])) =>
                  client_id[s] # None /\ Wants(client_id[s], Last(sent'[s]).topic)]_vars
  BY MessageReaches
<1> QED BY <1>1, Inductive, RoutingInvariance, PTL DEF Spec, MessagesReachSubscribersOnly

\* While a datagram is routed, every connected id that holds a covering pattern
\* is still in line for it, has it in its stream or has a client that closed
\* its connection, for any clients and patterns of which no two are texts of one path.
THEOREM ToEverySubscriber == ASSUME NoAliases PROVE Spec => []RoutedToEverySubscriber
<1>1. IInv /\ TrieInv /\ Connections /\ Routing /\ RoutedToEverySubscriber /\ TrieMirrorsTopics
         /\ [Next]_vars => RoutedToEverySubscriber'
  BY RoutedKeeps
<1> QED BY <1>1, RoutingInit, Inductive, TrieInvariance, RoutingInvariance, TrieAgrees, PTL DEF Spec

------------------------------------------------------------------------------
(* What acknowledgements say *)

LEMMA DisconnectEffect ==
    ASSUME IInv, Connections, Disconnect
    PROVE  /\ ThisFd \in Fds /\ ThisId \in Ids /\ ThisSub \in Subs /\ UNCHANGED sent
           /\ \A f \in Fds : f # ThisFd => sockets'[f] = sockets[f]
           /\ \A c \in Ids : c = ThisId \/ subscribers'[c] = subscribers[c]
           /\ ~subscribers'[ThisId].connected
           /\ link'[ThisSub] = "closed" /\ client_id'[ThisSub] = ThisId
<1> DEFINE Entry == [connected : BOOLEAN, sockfd : Fds \cup {0}, topics : SUBSET Patterns]
<1>1. /\ ThisFd \in Fds /\ ThisId \in Ids /\ ThisSub \in Subs
      /\ sockets' = [sockets EXCEPT ![ThisFd] = None]
      /\ subscribers' = [subscribers EXCEPT ![ThisId].connected = FALSE]
      /\ link' = [link EXCEPT ![ThisSub] = "closed"]
      /\ UNCHANGED <<sent, client_id>>
  BY ScannedClient DEF Disconnect, MarkDisconnected
<1>2. subscribers \in [Ids -> Entry] /\ sockets \in [Fds -> Subs \cup {None}]
      /\ link \in [Subs -> {"none", "queued", "open", "closed"}]
  BY DEF IInv, TypeOK, TableTypes, KernelTypes
<1>3. \A c \in Ids : c = ThisId \/ subscribers'[c] = subscribers[c]
  BY <1>1, <1>2
<1>4. ~subscribers'[ThisId].connected
  BY <1>1, <1>2
<1>5. client_id[ThisSub] = ThisId
  <2>1. connected_subscribers[ThisFd] # None
    BY <1>1, ConstantsAssumption DEF ThisId
  <2> QED BY <1>1, <2>1 DEF IInv, SessionTables, FdsMatchClients, ThisId, ThisSub
<1> QED BY <1>1, <1>2, <1>3, <1>4, <1>5

\* What a client is told on connection s of id c.
Told(c, s) ==
    \A p \in Patterns :
        /\ TrueAcks(sent[s], p, p \in subscribers[c].topics)
        /\ p \in subscribers[c].topics /\ NoAck(sent[s], 1..Len(sent[s]), p) => EndedRun(c, s)

\* An id that holds topics is connected, or had a connection that ended.
Remembered ==
    \A c \in Ids : subscribers[c].topics # {} =>
        subscribers[c].connected \/ \E t \in Subs : client_id[t] = c /\ link[t] = "closed"

LEMMA AcksAreTold ==
    AcksTellTheTruth <=>
        \A c \in Ids, s \in Subs :
            subscribers[c].connected /\ s = sockets[subscribers[c].sockfd] /\ phase[s] # "closed"
                => Told(c, s)
  BY DEF AcksTellTheTruth, Told

LEMMA FramesAppended ==
    ASSUME NEW frames \in Seq(Frames), NEW frame \in Frames
    PROVE  LET more == Append(frames, frame) IN
           /\ Len(frames) \in Nat /\ Len(more) = Len(frames) + 1
           /\ \A k \in 1..Len(frames) : k \in 1..Len(more) /\ more[k] = frames[k]
           /\ more[Len(frames) + 1] = frame /\ Len(frames) + 1 \in 1..Len(more)
           /\ \A k \in 1..Len(more) : k \in 1..Len(frames) \/ k = Len(frames) + 1
<1> DEFINE more == Append(frames, frame)
<1>1. /\ Len(frames) \in Nat /\ Len(more) = Len(frames) + 1
      /\ \A k \in 1..Len(frames) : more[k] = frames[k]
      /\ more[Len(frames) + 1] = frame
  BY LenProperties, AppendProperties
<1> HIDE DEF more
<1>2. /\ \A k \in 1..Len(frames) : k \in 1..Len(more)
      /\ Len(frames) + 1 \in 1..Len(more)
      /\ \A k \in 1..Len(more) : k \in 1..Len(frames) \/ k = Len(frames) + 1
  BY <1>1
<1> QED BY <1>1, <1>2 DEF more

\* A frame more that does not acknowledge p says nothing of p.
LEMMA OtherAppended ==
    ASSUME NEW frames \in Seq(Frames), NEW frame \in Frames, NEW p, ~IsAck(frame, p),
           NEW held \in BOOLEAN, TrueAcks(frames, p, held)
    PROVE  LET more == Append(frames, frame) IN
           /\ TrueAcks(more, p, held)
           /\ NoAck(more, 1..Len(more), p) => NoAck(frames, 1..Len(frames), p)
<1> DEFINE more == Append(frames, frame)
           n == Len(frames)
<1>1. /\ n \in Nat /\ Len(more) = n + 1
      /\ \A k \in 1..n : k \in 1..Len(more) /\ more[k] = frames[k]
      /\ more[n + 1] = frame
      /\ \A k \in 1..Len(more) : k \in 1..n \/ k = n + 1
  BY FramesAppended
<1> HIDE DEF more
<1>2. \A k \in 1..Len(more) : IsAck(more[k], p) => k \in 1..n /\ IsAck(frames[k], p)
  BY <1>1
<1>3. ASSUME NEW k \in 1..Len(more), IsAck(more[k], p), NoAck(more, k+1..Len(more), p)
      PROVE  more[k].kind = "ack_sub" <=> held
  <2>1. k \in 1..n /\ IsAck(frames[k], p)
    BY <1>2, <1>3
  <2>2. \A l \in k+1..n : l \in k+1..Len(more) /\ l \in 1..n
    BY <1>1, <2>1
  <2>3. NoAck(frames, k+1..n, p)
    BY <1>1, <1>3, <2>2 DEF NoAck
  <2> QED BY <1>1, <2>1, <2>3 DEF TrueAcks
<1>4. ASSUME NEW j \in 1..Len(more), NEW k \in 1..Len(more), j < k,
             IsAck(more[j], p), IsAck(more[k], p), NoAck(more, j+1..k-1, p)
      PROVE  more[j].kind # more[k].kind
  <2>1. j \in 1..n /\ k \in 1..n /\ IsAck(frames[j], p) /\ IsAck(frames[k], p)
    BY <1>2, <1>4
  <2>2. \A l \in j+1..k-1 : l \in 1..n
    BY <1>1, <2>1
  <2>3. NoAck(frames, j+1..k-1, p)
    BY <1>1, <1>4, <2>2 DEF NoAck
  <2> QED BY <1>1, <1>4, <2>1, <2>3 DEF TrueAcks
<1>5. NoAck(more, 1..Len(more), p) => NoAck(frames, 1..n, p)
  BY <1>1 DEF NoAck
<1>6. TrueAcks(more, p, held)
  BY <1>3, <1>4 DEF TrueAcks
<1> QED BY <1>5, <1>6 DEF more, n

\* The acknowledgement of a change of what is held.
LEMMA AckAppended ==
    ASSUME NEW frames \in Seq(Frames), NEW frame \in Frames, NEW p, IsAck(frame, p),
           NEW held \in BOOLEAN, frame.kind = "ack_sub" <=> ~held, TrueAcks(frames, p, held)
    PROVE  LET more == Append(frames, frame) IN
           TrueAcks(more, p, ~held) /\ ~NoAck(more, 1..Len(more), p)
<1> DEFINE more == Append(frames, frame)
           n == Len(frames)
<1>1. /\ n \in Nat /\ Len(more) = n + 1
      /\ \A k \in 1..n : k \in 1..Len(more) /\ more[k] = frames[k]
      /\ more[n + 1] = frame /\ n + 1 \in 1..Len(more)
      /\ \A k \in 1..Len(more) : k \in 1..n \/ k = n + 1
  BY FramesAppended
<1> HIDE DEF more
<1>2. IsAck(more[n + 1], p) /\ more[n + 1].kind = frame.kind
  BY <1>1
<1>3. ASSUME NEW k \in 1..Len(more), IsAck(more[k], p), NoAck(more, k+1..Len(more), p)
      PROVE  more[k].kind = "ack_sub" <=> ~held
  <2>1. k \in 1..n => n + 1 \in k+1..Len(more)
    BY <1>1
  <2>2. k = n + 1
    BY <1>1, <1>2, <1>3, <2>1 DEF NoAck
  <2> QED BY <1>2, <2>2
<1>4. ASSUME NEW j \in 1..Len(more), NEW k \in 1..Len(more), j < k,
             IsAck(more[j], p), IsAck(more[k], p), NoAck(more, j+1..k-1, p)
      PROVE  more[j].kind # more[k].kind
  <2>1. j \in 1..n
    BY <1>1, <1>4
  <2>2. CASE k \in 1..n
    <3>1. \A l \in j+1..k-1 : l \in 1..n
      BY <1>1, <2>1, <2>2
    <3>2. NoAck(frames, j+1..k-1, p)
      BY <1>1, <1>4, <3>1 DEF NoAck
    <3>3. IsAck(frames[j], p) /\ IsAck(frames[k], p)
      BY <1>1, <1>4, <2>1, <2>2
    <3> QED BY <1>1, <1>4, <2>1, <2>2, <3>2, <3>3 DEF TrueAcks
  <2>3. CASE k = n + 1
    <3>1. \A l \in j+1..n : l \in 1..n /\ l \in j+1..k-1
      BY <1>1, <2>1, <2>3
    <3>2. NoAck(frames, j+1..n, p) /\ IsAck(frames[j], p)
      BY <1>1, <1>4, <2>1, <3>1 DEF NoAck
    <3>3. frames[j].kind = "ack_sub" <=> held
      BY <2>1, <3>2 DEF TrueAcks
    <3> QED BY <1>1, <1>2, <2>1, <2>3, <3>3
  <2> QED BY <1>1, <2>2, <2>3
<1>5. ~NoAck(more, 1..Len(more), p)
  BY <1>1, <1>2 DEF NoAck
<1>6. TrueAcks(more, p, ~held)
  BY <1>3, <1>4 DEF TrueAcks
<1> QED BY <1>5, <1>6 DEF more

LEMMA EndedRunStays ==
    ASSUME IInv, Connections, [Next]_vars, NEW c \in Ids, NEW s \in Subs, EndedRun(c, s)
    PROVE  EndedRun(c, s)'
  BY EndedStays DEF EndedRun

\* What was told stays true when neither the stream nor the topics change.
LEMMA ToldStays ==
    ASSUME IInv, Connections, [Next]_vars, NEW c \in Ids, NEW s \in Subs, Told(c, s),
           sent'[s] = sent[s], subscribers'[c].topics = subscribers[c].topics
    PROVE  Told(c, s)'
<1> SUFFICES ASSUME NEW p \in Patterns
             PROVE  /\ TrueAcks(sent'[s], p, p \in subscribers'[c].topics)
                    /\ p \in subscribers'[c].topics /\ NoAck(sent'[s], 1..Len(sent'[s]), p)
                          => EndedRun(c, s)'
  BY DEF Told
<1> QED BY EndedRunStays DEF Told

\* Nothing is told on a new connection; the topics are those of an earlier one.
LEMMA NothingTold ==
    ASSUME IInv, Connections, [Next]_vars, Remembered, NEW c \in Ids, NEW s \in Subs,
           ~subscribers[c].connected, sent'[s] = <<>>, link'[s] # "closed",
           subscribers'[c].topics = subscribers[c].topics
    PROVE  Told(c, s)'
<1> SUFFICES ASSUME NEW p \in Patterns
             PROVE  /\ TrueAcks(sent'[s], p, p \in subscribers'[c].topics)
                    /\ p \in subscribers'[c].topics => EndedRun(c, s)'
  BY DEF Told
<1>1. TrueAcks(sent'[s], p, p \in subscribers'[c].topics)
  BY EmptySeq DEF TrueAcks
<1>2. ASSUME p \in subscribers'[c].topics PROVE EndedRun(c, s)'
  <2>1. PICK t \in Subs : client_id[t] = c /\ link[t] = "closed"
    BY <1>2 DEF Remembered
  <2>2. client_id'[t] = c /\ link'[t] = "closed" /\ t # s
    BY <2>1, EndedStays
  <2> QED BY <2>2 DEF EndedRun
<1> QED BY <1>1, <1>2

\* A step that sends nothing, changes no topics and leaves every connected id
\* its connection, unless that is a new one.
LEMMA AcksStay ==
    ASSUME IInv, Connections, [Next]_vars, Remembered, AcksTellTheTruth, UNCHANGED sent,
           \A c \in Ids : subscribers'[c].connected =>
               LET s == sockets'[subscribers'[c].sockfd] IN
               /\ subscribers'[c].topics = subscribers[c].topics
               /\ \/ subscribers[c].connected /\ s = sockets[subscribers[c].sockfd]
                  \/ ~subscribers[c].connected /\ sent[s] = <<>> /\ link'[s] # "closed"
    PROVE  AcksTellTheTruth'
<1> SUFFICES ASSUME NEW c \in Ids, NEW s \in Subs, phase'[s] # "closed",
                    subscribers'[c].connected, s = sockets'[subscribers'[c].sockfd]
             PROVE  Told(c, s)'
  BY DEF AcksTellTheTruth, Told
<1>1. phase[s] # "closed"
  BY EndedStays
<1>2. CASE ~subscribers[c].connected /\ sent[s] = <<>> /\ link'[s] # "closed"
  BY <1>2, NothingTold
<1>3. CASE subscribers[c].connected /\ s = sockets[subscribers[c].sockfd]
  BY <1>1, <1>3, AcksAreTold, ToldStays
<1> QED BY <1>2, <1>3

LEMMA RouteToAcks ==
    ASSUME IInv, Connections, [Next]_vars, Remembered, AcksTellTheTruth, NEW c \in Ids, RouteTo(c)
    PROVE  AcksTellTheTruth'
<1>1. UNCHANGED <<subscribers, sockets, phase>>
  BY DEF RouteTo
<1>2. CASE UNCHANGED sent
  BY <1>1, <1>2, AcksStay
<1>3. CASE sent' # sent
  <2> DEFINE fd == subscribers[c].sockfd
             frame == MessageFrame(message)
  <2>0. subscribers[c].connected
    BY <1>3 DEF RouteTo, Skipped
  <2>1. fd \in Fds /\ sockets[fd] \in Subs /\ frame \in Frames /\ Put(fd, frame)
    BY <1>3, <2>0, RoutedMessage DEF Connections, Send
  <2>2. \A p : ~IsAck(frame, p)
    BY DEF IsAck, IsMessage, MessageFrame
  <2> HIDE DEF fd, frame
  <2>3. /\ \A t \in Subs : t # sockets[fd] => sent'[t] = sent[t]
        /\ sent'[sockets[fd]] = Append(sent[sockets[fd]], frame)
        /\ sent[sockets[fd]] \in Seq(Frames)
    BY <2>1, SendEffect
  <2> SUFFICES ASSUME NEW d \in Ids, NEW s \in Subs, phase[s] # "closed",
                      subscribers[d].connected, s = sockets[subscribers[d].sockfd]
               PROVE  Told(d, s)'
    BY <1>1 DEF AcksTellTheTruth, Told
  <2>4. Told(d, s)
    BY AcksAreTold
  <2>5. CASE s # sockets[fd]
    BY <1>1, <2>3, <2>4, <2>5, ToldStays
  <2>6. CASE s = sockets[fd]
    <3> SUFFICES ASSUME NEW p \in Patterns
                 PROVE  LET held == p \in subscribers[d].topics IN
                        /\ TrueAcks(sent'[s], p, held)
                        /\ held /\ NoAck(sent'[s], 1..Len(sent'[s]), p) => EndedRun(d, s)'
      BY <1>1 DEF Told
    <3> DEFINE held == p \in subscribers[d].topics
               frames == sent[s]
    <3>1. /\ TrueAcks(frames, p, held) /\ held \in BOOLEAN /\ frames \in Seq(Frames)
          /\ held /\ NoAck(frames, 1..Len(frames), p) => EndedRun(d, s)
          /\ sent'[s] = Append(frames, frame)
      BY <2>3, <2>4, <2>6 DEF Told
    <3> HIDE DEF held, frames
    <3>2. LET more == Append(frames, frame) IN
          /\ TrueAcks(more, p, held)
          /\ NoAck(more, 1..Len(more), p) => NoAck(frames, 1..Len(frames), p)
      BY <2>1, <2>2, <3>1, OtherAppended
    <3> QED BY <3>1, <3>2, EndedRunStays DEF held
  <2> QED BY <2>5, <2>6
<1> QED BY <1>2, <1>3

\* An acknowledgement that reaches the client, of the change it is for.
LEMMA AckTold ==
    ASSUME IInv, Connections, [Next]_vars, NEW c \in Ids, NEW s \in Subs, Told(c, s),
           NEW request \in Requests, sent[s] \in Seq(Frames),
           sent'[s] = Append(sent[s], AckFrame(request)),
           Applies(c, request),
           subscribers'[c].topics = IF request.op = "subscribe"
              THEN subscribers[c].topics \cup {request.topic}
              ELSE subscribers[c].topics \ {request.topic}
    PROVE  Told(c, s)'
<1> DEFINE frame == AckFrame(request)
<1>1. /\ frame \in Frames /\ ~IsMessage(frame) /\ frame.topic = request.topic
      /\ frame.kind = "ack_sub" <=> request.op = "subscribe"
  BY DEF AckFrame, Frames, Requests, IsMessage
<1>2. sent'[s] = Append(sent[s], frame)
  OBVIOUS
<1> HIDE DEF frame
<1> SUFFICES ASSUME NEW p \in Patterns
             PROVE  LET held == p \in subscribers'[c].topics IN
                    /\ TrueAcks(sent'[s], p, held)
                    /\ held /\ NoAck(sent'[s], 1..Len(sent'[s]), p) => EndedRun(c, s)'
  BY DEF Told
<1> DEFINE held == p \in subscribers[c].topics
           after == p \in subscribers'[c].topics
           frames == sent[s]
           more == Append(frames, frame)
<1>3. /\ TrueAcks(frames, p, held) /\ held \in BOOLEAN /\ frames \in Seq(Frames)
      /\ held /\ NoAck(frames, 1..Len(frames), p) => EndedRun(c, s)
      /\ sent'[s] = more
  BY <1>2 DEF Told
<1>4. CASE p = request.topic
  <2>1. /\ IsAck(frame, p) /\ (frame.kind = "ack_sub" <=> ~held) /\ after = ~held
    BY <1>1, <1>4 DEF IsAck, Applies
  <2> HIDE DEF held, after, frames
  <2>2. TrueAcks(more, p, ~held) /\ ~NoAck(more, 1..Len(more), p)
    BY <1>1, <1>3, <2>1, AckAppended
  <2>3. TrueAcks(more, p, after)
    BY <2>1, <2>2
  <2> QED BY <1>3, <2>2, <2>3 DEF after
<1>5. CASE p # request.topic
  <2>1. ~IsAck(frame, p) /\ after = held
    BY <1>1, <1>5 DEF IsAck
  <2> HIDE DEF held, after, frames
  <2>2. /\ TrueAcks(more, p, held)
        /\ NoAck(more, 1..Len(more), p) => NoAck(frames, 1..Len(frames), p)
    BY <1>1, <1>3, <2>1, OtherAppended
  <2>3. TrueAcks(more, p, after) /\ (after => held)
    BY <2>1, <2>2
  <2> QED BY <1>3, <2>2, <2>3, EndedRunStays DEF after
<1> QED BY <1>4, <1>5

LEMMA HandleRequestAcks ==
    ASSUME IInv, Connections, [Next]_vars, Remembered, AcksTellTheTruth, HandleRequest
    PROVE  AcksTellTheTruth'
<1>1. UNCHANGED <<sockets, phase>>
  BY DEF HandleRequest
<1>2. CASE ~Applies(ThisId, Head(up[ThisSub]))
  <2>1. UNCHANGED <<sent, subscribers>>
    BY <1>2 DEF HandleRequest
  <2> QED BY <1>1, <2>1, AcksStay
<1>3. CASE Applies(ThisId, Head(up[ThisSub]))
  <2> DEFINE request == Head(up[ThisSub])
             frame == AckFrame(request)
  <2>1. /\ ThisId \in Ids /\ request \in Requests
        /\ subscribers[ThisId].connected /\ subscribers[ThisId].sockfd = ThisFd
        /\ ThisFd \in Fds /\ sockets[ThisFd] \in Subs /\ frame \in Frames /\ Send(ThisFd, frame)
        /\ UpdateTopics(ThisId, request) /\ Applies(ThisId, request)
    BY <1>3, Acknowledged, AppliedRequest DEF Connections
  <2>2. frame = AckFrame(request)
    OBVIOUS
  <2> HIDE DEF request, frame
  <2>3. \A t \in Subs : t # sockets[ThisFd] => sent'[t] = sent[t]
    BY <2>1, SendEffect DEF Send
  <2>4. /\ \A d \in Ids \ {ThisId} : subscribers'[d] = subscribers[d]
        /\ subscribers'[ThisId].topics = IF request.op = "subscribe"
              THEN subscribers[ThisId].topics \cup {request.topic}
              ELSE subscribers[ThisId].topics \ {request.topic}
        /\ subscribers'[ThisId].sockfd = subscribers[ThisId].sockfd
    BY <2>1, TopicsChange
  <2> SUFFICES ASSUME NEW d \in Ids, NEW s \in Subs, phase[s] # "closed",
                      subscribers'[d].connected, s = sockets[subscribers'[d].sockfd]
               PROVE  Told(d, s)'
    BY <1>1 DEF AcksTellTheTruth, Told
  <2>5. CASE d = ThisId
    <3>1. s = sockets[ThisFd]
      BY <2>1, <2>4, <2>5
    <3>2. Told(d, s)
      BY <2>1, <2>5, <3>1, AcksAreTold
    <3>3. ~Broken(ThisFd)
      BY <3>1 DEF Broken
    <3>4. sent'[s] = Append(sent[s], AckFrame(request)) /\ sent[s] \in Seq(Frames)
      BY <2>1, <2>2, <3>1, <3>3, SendEffect DEF Send
    <3>5. /\ Applies(d, request)
          /\ subscribers'[d].topics = IF request.op = "subscribe"
                THEN subscribers[d].topics \cup {request.topic}
                ELSE subscribers[d].topics \ {request.topic}
      BY <2>1, <2>4, <2>5
    <3> QED BY <2>1, <3>2, <3>4, <3>5, AckTold
  <2>6. CASE d # ThisId
    <3>1. subscribers'[d] = subscribers[d] /\ s # sockets[ThisFd]
      BY <2>1, <2>4, <2>6, TwoClients DEF Connections
    <3>2. Told(d, s)
      BY <3>1, AcksAreTold
    <3> QED BY <2>3, <3>1, <3>2, ToldStays
  <2> QED BY <2>5, <2>6
<1> QED BY <1>2, <1>3

\* Closing a descriptor that leads to no connected id.
LEMMA CloseAcks ==
    ASSUME IInv, Connections, [Next]_vars, Remembered, AcksTellTheTruth, NEW fd \in Fds,
           UNCHANGED sent, \A f \in Fds : f # fd => sockets'[f] = sockets[f],
           \A c \in Ids : subscribers'[c].connected =>
               subscribers'[c] = subscribers[c] /\ subscribers[c].sockfd # fd
    PROVE  AcksTellTheTruth'
<1>1. \A c \in Ids : subscribers[c].connected => subscribers[c].sockfd \in Fds
  BY DEF Connections, Opened
<1> QED BY <1>1, AcksStay

LEMMA AcksKeep ==
    ASSUME IInv, Connections, [Next]_vars, Remembered, AcksTellTheTruth PROVE AcksTellTheTruth'
<1>1. CASE \/ Poll \/ NoInput \/ RecvDatagram \/ UdpDrained \/ NoAccept \/ NextClient \/ ScanDone
           \/ \E s \in Subs : SendId(s) \/ ServerGone(s) \/ Exit(s)
           \/ \E s \in Subs, request \in Requests : Request(s, request)
           \/ \E topic \in Topics : Publish(topic)
           \/ \E line \in Lines : TypeLine(line)
           \/ UNCHANGED vars
  <2>1. UNCHANGED <<subscribers, sockets, sent>>
    BY <1>1, QuietKeeps
  <2> QED BY <2>1, AcksStay
<1>2. CASE HandleStdin \/ Killed \/ \E s \in Subs, c \in Ids : Start(s, c)
  <2>1. UNCHANGED <<subscribers, sockets, sent>>
    BY <1>2 DEF HandleStdin, Killed, Start
  <2> QED BY <2>1, AcksStay
<1>3. CASE Accept
  <2>1. PICK fd \in FreeFds : sockets' = [sockets EXCEPT ![fd] = Head(backlog)]
    BY <1>3 DEF Accept
  <2>2. UNCHANGED <<subscribers, sent>>
    BY <1>3 DEF Accept
  <2>3. fd \in Fds /\ \A f \in Fds : f # fd => sockets'[f] = sockets[f]
    BY <2>1 DEF FreeFds, IInv, TypeOK, KernelTypes
  <2>4. \A c \in Ids : subscribers[c].connected => subscribers[c].sockfd # fd
    BY <2>1, ConnectedClient DEF FreeFds, Connections
  <2> QED BY <2>2, <2>3, <2>4, CloseAcks
<1>4. CASE RefuseClient
  <2>1. /\ new_socket \in Fds /\ connected_subscribers[new_socket] = None
        /\ sockets' = [sockets EXCEPT ![new_socket] = None]
        /\ UNCHANGED <<subscribers, sent>>
    BY <1>4, Handshaking DEF RefuseClient, CloseNewSocket
  <2>2. \A f \in Fds : f # new_socket => sockets'[f] = sockets[f]
    BY <2>1 DEF IInv, TypeOK, KernelTypes
  <2>3. \A c \in Ids : subscribers[c].connected => subscribers[c].sockfd # new_socket
    BY <2>1, ConnectedClient, ConstantsAssumption DEF Connections
  <2> QED BY <2>1, <2>2, <2>3, CloseAcks
<1>5. CASE Disconnect
  <2>1. /\ ThisFd \in Fds /\ UNCHANGED sent
        /\ \A f \in Fds : f # ThisFd => sockets'[f] = sockets[f]
        /\ \A c \in Ids : c = ThisId \/ subscribers'[c] = subscribers[c]
        /\ ~subscribers'[ThisId].connected
    BY <1>5, DisconnectEffect
  <2>2. ASSUME NEW c \in Ids, subscribers'[c].connected
        PROVE  subscribers'[c] = subscribers[c] /\ subscribers[c].sockfd # ThisFd
    <3>1. subscribers'[c] = subscribers[c] /\ c # ThisId
      BY <2>1, <2>2
    <3>2. connected_subscribers[subscribers[c].sockfd] = c
      BY <2>2, <3>1, ConnectedClient DEF Connections
    <3> QED BY <3>1, <3>2 DEF ThisId
  <2> QED BY <2>1, <2>2, CloseAcks
<1>6. CASE RegisterClient
  <2> DEFINE c == client_id[NewSub]
  <2>1. /\ c \in Ids /\ NewSub = sockets[new_socket]
        /\ \A d \in Ids : d # c => subscribers'[d] = subscribers[d]
        /\ subscribers'[c].sockfd = new_socket /\ ~subscribers[c].connected
        /\ subscribers'[c].topics = subscribers[c].topics
        /\ pc = "readid" /\ UNCHANGED <<sockets, sent, link>>
    BY <1>6, Registered
  <2> HIDE DEF c
  <2>2. LET s == sockets'[subscribers'[c].sockfd] IN sent[s] = <<>> /\ link'[s] # "closed"
    BY <2>1 DEF Connections, NothingSentYet
  <2>3. \A d \in Ids : d = c \/ subscribers'[d] = subscribers[d]
    BY <2>1
  <2>4. \A d \in Ids : subscribers'[d].connected =>
            LET s == sockets'[subscribers'[d].sockfd] IN
            /\ subscribers'[d].topics = subscribers[d].topics
            /\ \/ subscribers[d].connected /\ s = sockets[subscribers[d].sockfd]
               \/ ~subscribers[d].connected /\ sent[s] = <<>> /\ link'[s] # "closed"
    BY <2>1, <2>2, <2>3
  <2> QED BY <2>1, <2>4, AcksStay
<1>7. CASE HandleRequest \/ \E c \in Ids : RouteTo(c)
  BY <1>7, HandleRequestAcks, RouteToAcks
<1> QED BY <1>1, <1>2, <1>3, <1>4, <1>5, <1>6, <1>7 DEF Next, ServerStep, Environment

\* An id that loses its connection leaves an ended one behind.
LEMMA RememberedKeeps == ASSUME IInv, Connections, [Next]_vars, Remembered PROVE Remembered'
<1>0. \A t \in Subs : link[t] = "closed" => link'[t] = "closed" /\ client_id'[t] = client_id[t]
  BY EndedStays
<1>1. ASSUME NEW c \in Ids, subscribers'[c].topics = subscribers[c].topics,
             subscribers[c].connected => subscribers'[c].connected, subscribers'[c].topics # {}
      PROVE  \/ subscribers'[c].connected
             \/ \E t \in Subs : client_id'[t] = c /\ link'[t] = "closed"
  BY <1>0, <1>1 DEF Remembered
<1>2. CASE UNCHANGED subscribers
  BY <1>1, <1>2 DEF Remembered
<1>3. CASE RegisterClient
  <2> DEFINE c == client_id[NewSub]
  <2>1. /\ c \in Ids /\ \A d \in Ids : d # c => subscribers'[d] = subscribers[d]
        /\ subscribers'[c].connected
    BY <1>3, Registered
  <2> HIDE DEF c
  <2> QED BY <1>1, <2>1 DEF Remembered
<1>4. CASE HandleRequest
  <2>1. CASE Applies(ThisId, Head(up[ThisSub]))
    <3> DEFINE request == Head(up[ThisSub])
    <3>1. ThisId \in Ids /\ request \in Requests /\ UpdateTopics(ThisId, request)
          /\ subscribers[ThisId].connected
      BY <1>4, <2>1, Acknowledged, AppliedRequest DEF Connections
    <3> HIDE DEF request
    <3>2. /\ \A d \in Ids \ {ThisId} : subscribers'[d] = subscribers[d]
          /\ subscribers'[ThisId].connected
      BY <3>1, TopicsChange
    <3> QED BY <1>1, <3>2 DEF Remembered
  <2>2. CASE ~Applies(ThisId, Head(up[ThisSub]))
    BY <1>2, <1>4, <2>2 DEF HandleRequest
  <2> QED BY <2>1, <2>2
<1>5. CASE Disconnect
  <2>1. /\ \A c \in Ids : c = ThisId \/ subscribers'[c] = subscribers[c]
        /\ ThisSub \in Subs /\ link'[ThisSub] = "closed" /\ client_id'[ThisSub] = ThisId
    BY <1>5, DisconnectEffect
  <2> QED BY <1>1, <2>1 DEF Remembered
<1>6. CASE \/ HandleStdin \/ Killed \/ Accept \/ RefuseClient \/ Poll \/ NoInput \/ RecvDatagram
           \/ UdpDrained \/ NoAccept \/ NextClient \/ ScanDone \/ Environment \/ UNCHANGED vars
           \/ \E c \in Ids : RouteTo(c)
  <2>1. CASE \/ \E s \in Subs, c \in Ids : Start(s, c) 
             \/ HandleStdin \/ Killed \/ Accept \/ RefuseClient \/ \E c \in Ids : RouteTo(c)
    BY <1>2, <2>1 DEF Start, HandleStdin, Killed, Accept, RefuseClient, RouteTo
  <2>2. CASE ~\E s \in Subs, c \in Ids : Start(s, c)
    BY <1>2, <1>6, <2>1, <2>2, QuietKeeps DEF Environment
  <2> QED BY <2>1, <2>2
<1> QED BY <1>3, <1>4, <1>5, <1>6 DEF Next, ServerStep

\* What a client that is there was sent acknowledges every change of its id's
\* topics, each once and by its kind (server.cpp:91-112), over any requests,
\* reconnections, failing sends and reuses of descriptors, for any constants.
THEOREM AcksAgree == Spec => []AcksTellTheTruth
<1>1. Init => AcksTellTheTruth /\ Remembered
  <2>1. ASSUME Init PROVE \A c \in Ids : ~subscribers[c].connected /\ subscribers[c].topics = {}
    BY <2>1 DEF Init
  <2> QED BY <2>1 DEF AcksTellTheTruth, Remembered
<1>2. IInv /\ Connections /\ Remembered /\ AcksTellTheTruth /\ [Next]_vars
         => Remembered' /\ AcksTellTheTruth'
  BY RememberedKeeps, AcksKeep
<1> QED BY <1>1, <1>2, Inductive, RoutingInvariance, PTL DEF Spec

------------------------------------------------------------------------------
(* Once and in order *)

\* The datagrams waiting are numbered in the order they arrived, and the one
\* that is routed came before them.
Numbers ==
    /\ \A j, k \in 1..Len(udp) : j < k => udp[j].n < udp[k].n
    /\ \A k \in 1..Len(udp) : udp[k].n <= published
    /\ message # None =>
          message.n <= published /\ \A k \in 1..Len(udp) : message.n < udp[k].n

\* A message sent came before the datagrams waiting, not after the one that is
\* routed, and is not that one where a client in line is concerned.
SentNumbers ==
    \A s \in Subs : \A k \in 1..Len(sent[s]) : IsMessage(sent[s][k]) =>
        /\ sent[s][k].n <= published
        /\ \A j \in 1..Len(udp) : sent[s][k].n < udp[j].n
        /\ message # None => sent[s][k].n <= message.n
        /\ \A c \in matching_ids : client_id[s] = c => sent[s][k].n # message.n

Delivery == Numbers /\ SentNumbers /\ DeliveredOnceInOrder

\* All numbers are naturals.
LEMMA NumbersAreNat ==
    ASSUME IInv
    PROVE  /\ published \in Nat /\ Len(udp) \in Nat
           /\ \A k \in 1..Len(udp) : udp[k] \in Messages /\ udp[k].n \in Nat
           /\ message # None => message \in Messages /\ message.n \in Nat
           /\ \A s \in Subs : \A k \in 1..Len(sent[s]) :
                 sent[s][k] \in Frames /\ sent[s][k].n \in Nat
<1>1. /\ published \in Nat /\ udp \in Seq(Messages) /\ message \in Messages \cup {None}
      /\ \A s \in Subs : sent[s] \in Seq(Frames)
  <2>1. published \in Nat
    BY ConstantsAssumption DEF IInv, TypeOK, ClientTypes
  <2>2. udp \in Seq(Messages) /\ message \in Messages \cup {None}
    BY DEF IInv, TypeOK, KernelTypes, LoopTypes
  <2>3. \A s \in Subs : sent[s] \in Seq(Frames)
    BY DEF IInv, TypeOK, StreamTypes
  <2> QED BY <2>1, <2>2, <2>3
<1>2. /\ \A m \in Messages : m.n \in Nat
      /\ \A frame \in Frames : frame.n \in Nat
  BY DEF Messages, Frames
<1>3. Len(udp) \in Nat /\ \A k \in 1..Len(udp) : udp[k] \in Messages
  BY <1>1, LenProperties, ElementOfSeq
<1>4. \A s \in Subs : \A k \in 1..Len(sent[s]) : sent[s][k] \in Frames
  BY <1>1, ElementOfSeq
<1> QED BY <1>1, <1>2, <1>3, <1>4

\* The steps that send or receive nothing, and the only one that gives a client
\* its id.
LEMMA NumbersStay ==
    ASSUME IInv, Routing, [Next]_vars, ~RecvDatagram, ~UdpDrained, \A c \in Ids : ~RouteTo(c),
           \A topic \in Topics : ~Publish(topic)
    PROVE  UNCHANGED <<udp, published, message, matching_ids>>
<1>1. UNCHANGED <<message, matching_ids>>
  BY RoutingStays
<1>2. CASE \/ Poll \/ NoInput \/ HandleStdin \/ Accept \/ NoAccept \/ RefuseClient \/ RegisterClient
           \/ NextClient \/ ScanDone \/ HandleRequest \/ Disconnect \/ Killed
  BY <1>1, <1>2 DEF Poll, NoInput, HandleStdin, Accept, NoAccept, RefuseClient, RegisterClient,
                    NextClient, ScanDone, HandleRequest, Disconnect, Killed
<1>3. CASE Environment \/ UNCHANGED vars
  <2>1. ASSUME NEW s \in Subs, NEW c \in Ids, Start(s, c) PROVE UNCHANGED <<udp, published>>
    BY <2>1 DEF Start
  <2>2. ASSUME NEW s \in Subs, SendId(s) \/ ServerGone(s) \/ Exit(s)
        PROVE  UNCHANGED <<udp, published>>
    BY <2>2 DEF SendId, ServerGone, Exit
  <2>3. ASSUME NEW s \in Subs, NEW request \in Requests, Request(s, request)
        PROVE  UNCHANGED <<udp, published>>
    BY <2>3 DEF Request
  <2>4. ASSUME NEW line \in Lines, TypeLine(line) PROVE UNCHANGED <<udp, published>>
    BY <2>4 DEF TypeLine
  <2>5. CASE UNCHANGED vars
    BY <2>5 DEF vars
  <2> QED BY <1>1, <1>3, <2>1, <2>2, <2>3, <2>4, <2>5 DEF Environment
<1> QED BY <1>2, <1>3 DEF Next, ServerStep

LEMMA IdsStay ==
    ASSUME IInv, [Next]_vars, \A s \in Subs, c \in Ids : ~Start(s, c)
    PROVE  UNCHANGED client_id
<1>1. CASE ServerStep
  BY <1>1 DEF ServerStep, Poll, NoInput, HandleStdin, RecvDatagram, UdpDrained, RouteTo,
              Accept, NoAccept, RefuseClient, RegisterClient, NextClient, ScanDone, HandleRequest,
              Disconnect, Killed
<1>2. CASE Environment \/ UNCHANGED vars
  <2>1. ASSUME NEW s \in Subs, SendId(s) \/ ServerGone(s) \/ Exit(s) PROVE UNCHANGED client_id
    BY <2>1 DEF SendId, ServerGone, Exit
  <2>2. ASSUME NEW s \in Subs, NEW request \in Requests, Request(s, request)
        PROVE  UNCHANGED client_id
    BY <2>2 DEF Request
  <2>3. ASSUME NEW topic \in Topics, Publish(topic) PROVE UNCHANGED client_id
    BY <2>3 DEF Publish
  <2>4. ASSUME NEW line \in Lines, TypeLine(line) PROVE UNCHANGED client_id
    BY <2>4 DEF TypeLine
  <2>5. CASE UNCHANGED vars
    BY <2>5 DEF vars
  <2> QED BY <1>2, <2>1, <2>2, <2>3, <2>4, <2>5 DEF Environment
<1> QED BY <1>1, <1>2 DEF Next

LEMMA NumbersKeep == IInv /\ Routing /\ Numbers /\ [Next]_vars => Numbers'
<1> SUFFICES ASSUME IInv, Routing, Numbers, [Next]_vars PROVE Numbers'
  OBVIOUS
<1>0. /\ published \in Nat /\ Len(udp) \in Nat
      /\ \A k \in 1..Len(udp) : udp[k].n \in Nat
      /\ message # None => message.n \in Nat
  BY NumbersAreNat
<1>1. CASE RecvDatagram
  <2>1. /\ message' = udp[1] /\ 1 \in 1..Len(udp) /\ Len(udp') = Len(udp) - 1
        /\ \A k \in 1..Len(udp') : udp'[k] = udp[k+1] /\ k + 1 \in 1..Len(udp) /\ 1 < k + 1
        /\ UNCHANGED published
    BY <1>1, Received
  <2>2. \A j, k \in 1..Len(udp') : j < k => udp'[j].n < udp'[k].n
    <3> SUFFICES ASSUME NEW j \in 1..Len(udp'), NEW k \in 1..Len(udp'), j < k
                 PROVE  udp[j+1].n < udp[k+1].n
      BY <2>1
    <3>1. j + 1 \in 1..Len(udp) /\ k + 1 \in 1..Len(udp) /\ j + 1 < k + 1
      BY <2>1
    <3> QED BY <3>1 DEF Numbers
  <2>3. \A k \in 1..Len(udp') : udp'[k].n <= published /\ message'.n < udp'[k].n
    BY <2>1 DEF Numbers
  <2> QED BY <2>1, <2>2, <2>3 DEF Numbers
<1>2. CASE UdpDrained \/ \E c \in Ids : RouteTo(c)
  <2>1. UNCHANGED <<udp, published>> /\ (UNCHANGED message \/ message' = None)
    BY <1>2 DEF UdpDrained, RouteTo
  <2> QED BY <2>1 DEF Numbers
<1>3. CASE \E topic \in Topics : Publish(topic)
  <2>1. PICK topic \in Topics : Publish(topic)
    BY <1>3
  <2> DEFINE m == [topic |-> topic, n |-> published + 1]
  <2>2. /\ udp' = Append(udp, m) /\ published' = published + 1 /\ published < MaxMessages
        /\ UNCHANGED message
    BY <2>1 DEF Publish
  <2>3. m \in Messages /\ m.n = published + 1
    BY <1>0, <2>2, ConstantsAssumption DEF Messages
  <2> HIDE DEF m
  <2>4. /\ Len(udp') = Len(udp) + 1 /\ udp'[Len(udp) + 1] = m
        /\ \A k \in 1..Len(udp) : udp'[k] = udp[k]
    <3>1. udp \in Seq(Messages)
      BY DEF IInv, TypeOK, KernelTypes
    <3> QED BY <2>2, <2>3, <3>1, AppendProperties
  <2>5. \A k \in 1..Len(udp') : k \in 1..Len(udp) \/ k = Len(udp) + 1
    BY <1>0, <2>4
  <2>6. \A k \in 1..Len(udp) : udp[k].n < published + 1
    BY <1>0 DEF Numbers
  <2>7. \A j, k \in 1..Len(udp') : j < k => udp'[j].n < udp'[k].n
    <3> SUFFICES ASSUME NEW j \in 1..Len(udp'), NEW k \in 1..Len(udp'), j < k
                 PROVE  udp'[j].n < udp'[k].n
      OBVIOUS
    <3>1. j \in 1..Len(udp)
      BY <1>0, <2>4
    <3> QED BY <2>3, <2>4, <2>5, <2>6, <3>1 DEF Numbers
  <2>8. \A k \in 1..Len(udp') : udp'[k].n <= published'
    BY <1>0, <2>2, <2>3, <2>4, <2>5, <2>6
  <2>9. message # None => /\ message.n <= published'
                          /\ \A k \in 1..Len(udp') : message.n < udp'[k].n
    BY <1>0, <2>2, <2>3, <2>4, <2>5 DEF Numbers
  <2> QED BY <2>2, <2>7, <2>8, <2>9 DEF Numbers
<1>4. CASE /\ ~RecvDatagram /\ ~UdpDrained /\ \A c \in Ids : ~RouteTo(c)
           /\ \A topic \in Topics : ~Publish(topic)
  <2>1. UNCHANGED <<udp, published, message>>
    BY <1>4, NumbersStay
  <2> QED BY <2>1 DEF Numbers
<1> QED BY <1>1, <1>2, <1>3, <1>4

\* Sending the datagram that is routed to a client in line.
LEMMA RouteToDelivers ==
    ASSUME IInv, Connections, Delivery, NEW c \in Ids, RouteTo(c), subscribers[c].connected,
           sent' # sent
    PROVE  SentNumbers' /\ DeliveredOnceInOrder'
<1> DEFINE fd == subscribers[c].sockfd
           r == sockets[fd]
           frame == MessageFrame(message)
           Before(s) == 1..Len(sent[s])
<1>1. /\ fd \in Fds /\ r \in Subs /\ client_id[r] = c /\ message \in Messages
      /\ frame \in Frames /\ Put(fd, frame)
  BY RoutedMessage DEF Delivery, Connections, Send
<1>2. /\ matching_ids' = matching_ids \ {c} /\ c \in matching_ids /\ message # None
      /\ UNCHANGED <<message, udp, published, client_id>>
  BY <1>1, ConstantsAssumption DEF RouteTo, Messages
<1>3. frame.n = message.n /\ message.n \in Nat
  BY <1>1 DEF MessageFrame, Messages
<1> HIDE DEF fd, frame
<1>4. /\ \A t \in Subs : t # r => sent'[t] = sent[t]
      /\ Len(sent[r]) \in Nat /\ Len(sent'[r]) = Len(sent[r]) + 1
      /\ \A k \in Before(r) : sent'[r][k] = sent[r][k]
      /\ sent'[r][Len(sent[r]) + 1] = frame
      /\ \A k \in 1..Len(sent'[r]) : k \in Before(r) \/ k = Len(sent[r]) + 1
  BY <1>1, SendEffect
<1>5. \A s \in Subs : \A k \in 1..Len(sent'[s]) :
        \/ k \in Before(s) /\ sent'[s][k] = sent[s][k]
        \/ s = r /\ k = Len(sent[s]) + 1 /\ sent'[s][k] = frame
  BY <1>4
<1>6. \A s \in Subs : \A k \in Before(s) : sent[s][k].n \in Nat
  BY NumbersAreNat
<1>7. \A s \in Subs : \A k \in Before(s) :
        IsMessage(sent[s][k]) => /\ sent[s][k].n <= message.n
                                 /\ client_id[s] = c => sent[s][k].n < message.n
  <2> SUFFICES ASSUME NEW s \in Subs, NEW k \in Before(s), IsMessage(sent[s][k])
               PROVE  /\ sent[s][k].n <= message.n
                      /\ client_id[s] = c => sent[s][k].n < message.n
    OBVIOUS
  <2>1. sent[s][k].n <= message.n /\ (client_id[s] = c => sent[s][k].n # message.n)
    BY <1>2 DEF Delivery, SentNumbers
  <2> QED BY <1>3, <1>6, <2>1
<1>8. SentNumbers'
  <2> SUFFICES ASSUME NEW s \in Subs, NEW k \in 1..Len(sent'[s]), IsMessage(sent'[s][k])
               PROVE  /\ sent'[s][k].n <= published
                      /\ \A j \in 1..Len(udp) : sent'[s][k].n < udp[j].n
                      /\ message # None => sent'[s][k].n <= message.n
                      /\ \A d \in matching_ids' : client_id[s] = d => sent'[s][k].n # message.n
    BY <1>2 DEF SentNumbers
  <2>1. CASE k \in Before(s) /\ sent'[s][k] = sent[s][k]
    BY <1>2, <2>1 DEF Delivery, SentNumbers
  <2>2. CASE s = r /\ sent'[s][k] = frame
    <3>1. message.n <= published /\ \A j \in 1..Len(udp) : message.n < udp[j].n
      BY <1>2 DEF Delivery, Numbers
    <3> QED BY <1>1, <1>2, <1>3, <2>2, <3>1
  <2> QED BY <1>5, <2>1, <2>2
<1>9. ASSUME NEW s \in Subs, NEW j \in 1..Len(sent'[s]), NEW k \in 1..Len(sent'[s]), j < k,
             IsMessage(sent'[s][j]), IsMessage(sent'[s][k])
      PROVE  sent'[s][j].n < sent'[s][k].n
  <2>1. CASE k \in Before(s) /\ sent'[s][k] = sent[s][k]
    <3>1. j \in Before(s) /\ sent'[s][j] = sent[s][j]
      BY <1>4, <1>5, <1>9, <2>1
    <3> QED BY <1>9, <2>1, <3>1 DEF Delivery, DeliveredOnceInOrder
  <2>2. CASE s = r /\ k = Len(sent[s]) + 1 /\ sent'[s][k] = frame
    <3>1. j \in Before(s) /\ sent'[s][j] = sent[s][j]
      BY <1>4, <1>5, <1>9, <2>2
    <3> QED BY <1>1, <1>3, <1>7, <1>9, <2>2, <3>1
  <2> QED BY <1>5, <2>1, <2>2
<1>0. \A s, t \in Subs : s # t /\ client_id[s] = client_id[t] =>
        \A j \in Before(s), k \in Before(t) :
            IsMessage(sent[s][j]) /\ IsMessage(sent[t][k]) => sent[s][j].n # sent[t][k].n
  BY DEF Delivery, DeliveredOnceInOrder
<1>10. ASSUME NEW s \in Subs, NEW t \in Subs, s # t, client_id[s] = client_id[t],
              NEW j \in 1..Len(sent'[s]), NEW k \in 1..Len(sent'[t]),
              IsMessage(sent'[s][j]), IsMessage(sent'[t][k])
       PROVE  sent'[s][j].n # sent'[t][k].n
  <2>1. CASE s # r /\ t # r
    <3>1. sent'[s] = sent[s] /\ sent'[t] = sent[t]
      BY <1>4, <2>1
    <3> QED BY <1>0, <1>10, <3>1
  <2>2. CASE s = r
    <3>1. k \in Before(t) /\ sent'[t][k] = sent[t][k] /\ client_id[t] = c
      BY <1>1, <1>5, <1>10, <2>2
    <3>2. CASE j \in Before(s) /\ sent'[s][j] = sent[s][j]
      BY <1>0, <1>10, <3>1, <3>2
    <3>3. CASE sent'[s][j] = frame
      <4>1. sent[t][k].n < message.n /\ sent[t][k].n \in Nat
        BY <1>6, <1>7, <1>10, <3>1
      <4> QED BY <1>3, <3>1, <3>3, <4>1
    <3> QED BY <1>5, <3>2, <3>3
  <2>3. CASE t = r
    <3>1. j \in Before(s) /\ sent'[s][j] = sent[s][j] /\ client_id[s] = c
      BY <1>1, <1>5, <1>10, <2>3
    <3>2. CASE k \in Before(t) /\ sent'[t][k] = sent[t][k]
      BY <1>0, <1>10, <3>1, <3>2
    <3>3. CASE sent'[t][k] = frame
      <4>1. sent[s][j].n < message.n /\ sent[s][j].n \in Nat
        BY <1>6, <1>7, <1>10, <3>1
      <4> QED BY <1>3, <3>1, <3>3, <4>1
    <3> QED BY <1>5, <3>2, <3>3
  <2> QED BY <2>1, <2>2, <2>3
<1>11. DeliveredOnceInOrder'
  BY <1>2, <1>9, <1>10 DEF DeliveredOnceInOrder
<1> QED BY <1>8, <1>11

\* A step that puts no message on any connection.
LEMMA NoMessageSent ==
    ASSUME Delivery,
           \A s \in Subs : \A k \in 1..Len(sent'[s]) : IsMessage(sent'[s][k]) =>
               /\ k \in 1..Len(sent[s]) /\ sent'[s][k] = sent[s][k]
               /\ client_id'[s] = client_id[s]
    PROVE  /\ DeliveredOnceInOrder'
           /\ UNCHANGED <<udp, published, message>> /\ matching_ids' \subseteq matching_ids
                => SentNumbers'
<1>1. DeliveredOnceInOrder'
  <2>1. ASSUME NEW s \in Subs, NEW j \in 1..Len(sent'[s]), NEW k \in 1..Len(sent'[s]), j < k,
               IsMessage(sent'[s][j]), IsMessage(sent'[s][k])
        PROVE  sent'[s][j].n < sent'[s][k].n
    BY <2>1 DEF Delivery, DeliveredOnceInOrder
  <2>2. ASSUME NEW s \in Subs, NEW t \in Subs, s # t, client_id'[s] = client_id'[t],
               NEW j \in 1..Len(sent'[s]), NEW k \in 1..Len(sent'[t]),
               IsMessage(sent'[s][j]), IsMessage(sent'[t][k])
        PROVE  sent'[s][j].n # sent'[t][k].n
    BY <2>2 DEF Delivery, DeliveredOnceInOrder
  <2> QED BY <2>1, <2>2 DEF DeliveredOnceInOrder
<1>2. ASSUME UNCHANGED <<udp, published, message>>, matching_ids' \subseteq matching_ids
      PROVE  SentNumbers'
  BY <1>2 DEF Delivery, SentNumbers
<1> QED BY <1>1, <1>2

LEMMA DeliveryKeeps == IInv /\ Connections /\ Routing /\ Delivery /\ [Next]_vars => Delivery'
<1> SUFFICES ASSUME IInv, Connections, Routing, Delivery, [Next]_vars PROVE Delivery'
  OBVIOUS
<1>1. Numbers'
  BY NumbersKeep DEF Delivery
<1>2. CASE sent' # sent /\ \E c \in Ids : RouteTo(c) /\ subscribers[c].connected
  BY <1>1, <1>2, RouteToDelivers DEF Delivery
<1>3. CASE HandleRequest /\ Applies(ThisId, Head(up[ThisSub]))
  <2> DEFINE frame == AckFrame(Head(up[ThisSub]))
  <2>1. ThisFd \in Fds /\ sockets[ThisFd] \in Subs /\ frame \in Frames /\ Send(ThisFd, frame)
    BY <1>3, Acknowledged DEF Connections
  <2>2. ~IsMessage(frame)
    BY DEF AckFrame, IsMessage
  <2> HIDE DEF frame
  <2>3. \A s \in Subs : \A k \in 1..Len(sent'[s]) : IsMessage(sent'[s][k]) =>
            k \in 1..Len(sent[s]) /\ sent'[s][k] = sent[s][k]
    BY <2>1, <2>2, SendEffect DEF Send
  <2>4. UNCHANGED <<udp, published, message, matching_ids, client_id>>
    BY <1>3 DEF HandleRequest
  <2> QED BY <1>1, <2>3, <2>4, NoMessageSent DEF Delivery
<1>4. CASE \E s \in Subs, c \in Ids : Start(s, c)
  <2>1. PICK s \in Subs, c \in Ids : Start(s, c)
    BY <1>4
  <2>2. /\ UNCHANGED <<sent, udp, published, message, matching_ids>>
        /\ client_id' = [client_id EXCEPT ![s] = c] /\ phase[s] = "off"
    BY <2>1 DEF Start
  <2>3. sent[s] = <<>>
    BY <2>2 DEF Connections, Backlogged, NothingSentYet
  <2>4. \A t \in Subs : t # s => client_id'[t] = client_id[t]
    BY <2>2 DEF IInv, TypeOK, ClientTypes
  <2> QED BY <1>1, <2>2, <2>3, <2>4, EmptySeq, NoMessageSent DEF Delivery
<1>5. CASE UNCHANGED <<sent, client_id>>
  <2>1. DeliveredOnceInOrder'
    BY <1>5, NoMessageSent
  <2>2. SentNumbers'
    <3>1. CASE RecvDatagram
      <4>1. /\ message' = udp[1] /\ 1 \in 1..Len(udp) /\ message' # None
            /\ \A k \in 1..Len(udp') : udp'[k] = udp[k+1] /\ k + 1 \in 1..Len(udp)
            /\ UNCHANGED published
        BY <3>1, Received
      <4>2. udp[1].n \in Nat /\ \A s \in Subs : \A k \in 1..Len(sent[s]) : sent[s][k].n \in Nat
        BY <4>1, NumbersAreNat
      <4> SUFFICES ASSUME NEW s \in Subs, NEW k \in 1..Len(sent[s]), IsMessage(sent[s][k])
                   PROVE  /\ sent[s][k].n <= published
                          /\ \A j \in 1..Len(udp') : sent[s][k].n < udp'[j].n
                          /\ sent[s][k].n <= message'.n /\ sent[s][k].n # message'.n
        BY <1>5, <4>1 DEF SentNumbers
      <4>3. sent[s][k].n <= published /\ \A j \in 1..Len(udp) : sent[s][k].n < udp[j].n
        BY DEF Delivery, SentNumbers
      <4>4. sent[s][k].n < message'.n
        BY <4>1, <4>3
      <4>5. sent[s][k].n \in Nat /\ message'.n \in Nat
        BY <4>1, <4>2
      <4>6. sent[s][k].n <= message'.n /\ sent[s][k].n # message'.n
        BY <4>4, <4>5
      <4>7. \A j \in 1..Len(udp') : sent[s][k].n < udp'[j].n
        BY <4>1, <4>3
      <4> QED BY <4>3, <4>6, <4>7
    <3>2. CASE UdpDrained
      <4>1. UNCHANGED <<udp, published, matching_ids>> /\ matching_ids = {} /\ message' = None
        BY <3>2 DEF UdpDrained
      <4> QED BY <1>5, <4>1 DEF Delivery, SentNumbers
    <3>3. CASE \E c \in Ids : RouteTo(c)
      <4>1. UNCHANGED <<udp, published, message>> /\ matching_ids' \subseteq matching_ids
        BY <3>3 DEF RouteTo
      <4> QED BY <1>5, <4>1, NoMessageSent
    <3>4. CASE \E topic \in Topics : Publish(topic)
      <4>1. PICK topic \in Topics : Publish(topic)
        BY <3>4
      <4> DEFINE m == [topic |-> topic, n |-> published + 1]
      <4>2. /\ udp' = Append(udp, m) /\ published' = published + 1 /\ published < MaxMessages
            /\ UNCHANGED <<message, matching_ids>>
        BY <4>1 DEF Publish
      <4>3. /\ published \in Nat /\ Len(udp) \in Nat
            /\ \A s \in Subs : \A k \in 1..Len(sent[s]) : sent[s][k].n \in Nat
        BY NumbersAreNat
      <4>4. m \in Messages /\ m.n = published + 1
        BY <4>2, <4>3, ConstantsAssumption DEF Messages
      <4> HIDE DEF m
      <4>5. /\ Len(udp') = Len(udp) + 1 /\ udp'[Len(udp) + 1] = m
            /\ \A k \in 1..Len(udp) : udp'[k] = udp[k]
        <5>1. udp \in Seq(Messages)
          BY DEF IInv, TypeOK, KernelTypes
        <5> QED BY <4>2, <4>4, <5>1, AppendProperties
      <4> SUFFICES ASSUME NEW s \in Subs, NEW k \in 1..Len(sent[s]), IsMessage(sent[s][k])
                   PROVE  /\ sent[s][k].n <= published + 1
                          /\ \A j \in 1..Len(udp') : sent[s][k].n < udp'[j].n
        BY <1>5, <4>2 DEF Delivery, SentNumbers
      <4>6. sent[s][k].n <= published /\ \A j \in 1..Len(udp) : sent[s][k].n < udp[j].n
        BY DEF Delivery, SentNumbers
      <4>7. sent[s][k].n < published + 1 /\ sent[s][k].n <= published + 1
        BY <4>3, <4>6
      <4>8. \A j \in 1..Len(udp') : j \in 1..Len(udp) \/ j = Len(udp) + 1
        BY <4>3, <4>5
      <4> QED BY <4>4, <4>5, <4>6, <4>7, <4>8
    <3>5. CASE /\ ~RecvDatagram /\ ~UdpDrained /\ \A c \in Ids : ~RouteTo(c)
               /\ \A topic \in Topics : ~Publish(topic)
      <4>1. UNCHANGED <<udp, published, message, matching_ids>>
        BY <3>5, NumbersStay
      <4> QED BY <1>5, <4>1, NoMessageSent
    <3> QED BY <3>1, <3>2, <3>3, <3>4, <3>5
  <2> QED BY <1>1, <2>1, <2>2 DEF Delivery
<1>6. UNCHANGED sent
      \/ (\E c \in Ids : RouteTo(c) /\ subscribers[c].connected)
      \/ (HandleRequest /\ Applies(ThisId, Head(up[ThisSub])))
  BY StreamsChange
<1>7. UNCHANGED client_id \/ \E s \in Subs, c \in Ids : Start(s, c)
  BY IdsStay
<1> QED BY <1>2, <1>3, <1>4, <1>5, <1>6, <1>7

LEMMA DeliveryInit == Init => Delivery
<1> SUFFICES ASSUME Init PROVE Delivery
  OBVIOUS
<1>1. /\ Len(udp) = 0 /\ message = None /\ matching_ids = {}
      /\ \A s \in Subs : Len(sent[s]) = 0
  BY EmptySeq DEF Init
<1> QED BY <1>1 DEF Delivery, Numbers, SentNumbers, DeliveredOnceInOrder

LEMMA DeliveryInvariance == Spec => []Delivery
  BY DeliveryInit, DeliveryKeeps, Inductive, RoutingInvariance, PTL DEF Spec

\* Every stream carries messages in the order their datagrams arrived and none
\* twice, and two connections of one id never carry the same one
\* (server.cpp:115-132), for any clients, constants and reconnections.
THEOREM OnceInOrder == Spec => []DeliveredOnceInOrder
<1>1. Delivery => DeliveredOnceInOrder
  BY DEF Delivery
<1> QED BY <1>1, DeliveryInvariance, PTL

------------------------------------------------------------------------------
(* The abstract broker *)

\* Every step of the loop, of the clients and of the operator is a step of the
\* abstract broker or leaves everything the broker promises as it is.  What of
\* the server's state the broker reads:

Session == [s \in Subs |-> SessionOf(s)]
Held    == [c \in Ids |-> subscribers[c].topics]
Gone    == {s \in Subs : phase[s] = "closed"}
Stream  == [s \in Subs |-> IF InLine(s) THEN Append(sent[s], MessageFrame(message)) ELSE sent[s]]

\* PubSub reads topics and sequences the way the server does.
LEMMA SameBrokerOperators ==
    /\ \A topic : Broker!SplitTopic(topic) = SplitTopic(topic)
    /\ \A node, tokens : Broker!Reaches(node, tokens) <=> Reaches(node, tokens)
    /\ \A frames : Broker!Front(frames) = Front(frames)
<1>1. \A topic : Broker!SplitTopic(topic) = SplitTopic(topic)
  BY DEF Broker!SplitTopic, SplitTopic, Broker!Last, Last, Broker!Front, Front
<1>2. \A node, tokens : Broker!Reaches(node, tokens) <=> Reaches(node, tokens)
  BY DEF Broker!Reaches, Reaches
<1>3. \A frames : Broker!Front(frames) = Front(frames)
  BY DEF Broker!Front, Front
<1> QED BY <1>1, <1>2, <1>3

LEMMA BrokerWants ==
    ASSUME NEW c \in Ids, NEW topic PROVE Broker!Wants(c, topic) <=> Wants(c, topic)
  BY SameBrokerOperators DEF Broker!Wants, Broker!Covers, Wants, Covers

\* A connection is a session of the id that is connected over it.
SessionsRead ==
    /\ \A s \in Subs : SessionOf(s) \in Ids \cup {None}
    /\ \A s \in Subs, c \in Ids :
          SessionOf(s) = c <=> subscribers[c].connected /\ sockets[subscribers[c].sockfd] = s
    /\ \A fd \in Fds : sockets[fd] # None => SessionOf(sockets[fd]) = connected_subscribers[fd]
    /\ \A s \in Subs : InLine(s) <=> pc = "udp" /\ SessionOf(s) \in matching_ids

LEMMA ReadSessions == IInv /\ Connections => SessionsRead
<1> SUFFICES ASSUME IInv, Connections PROVE SessionsRead
  OBVIOUS
<1>1. ASSUME NEW fd \in Fds, sockets[fd] # None
      PROVE  SessionOf(sockets[fd]) = connected_subscribers[fd]
  <2>1. (CHOOSE f \in Fds : sockets[f] = sockets[fd]) = fd
    BY <1>1 DEF Connections, Opened
  <2>2. \A f \in Fds : sockets[f] = sockets[fd] => f = fd
    BY <1>1 DEF Connections, Opened
  <2> QED BY <1>1, <2>1, <2>2 DEF SessionOf
<1>2. \A s \in Subs : (\A fd \in Fds : sockets[fd] # s) => SessionOf(s) = None
  BY DEF SessionOf
<1>3. /\ connected_subscribers \in [Fds -> Ids \cup {None}] /\ None \notin Ids
      /\ sockets \in [Fds -> Subs \cup {None}] /\ None \notin Subs
      /\ matching_ids \subseteq Ids
  BY ConstantsAssumption DEF IInv, TypeOK, TableTypes, KernelTypes, LoopTypes
<1>4. \A s \in Subs : SessionOf(s) \in Ids \cup {None}
  BY <1>1, <1>2, <1>3
<1>5. ASSUME NEW s \in Subs, NEW c \in Ids
      PROVE  SessionOf(s) = c
                <=> subscribers[c].connected /\ sockets[subscribers[c].sockfd] = s
  <2>1. ASSUME SessionOf(s) = c
        PROVE  subscribers[c].connected /\ sockets[subscribers[c].sockfd] = s
    <3>1. PICK fd \in Fds : sockets[fd] = s
      BY <1>2, <1>3, <2>1
    <3>2. connected_subscribers[fd] = c
      BY <1>1, <1>3, <2>1, <3>1
    <3> QED BY <3>1, <3>2 DEF IInv, SessionTables, IdsMatchFds
  <2>2. ASSUME subscribers[c].connected, sockets[subscribers[c].sockfd] = s
        PROVE  SessionOf(s) = c
    BY <1>1, <2>2, ConnectedClient DEF Connections
  <2> QED BY <2>1, <2>2
<1>6. \A s \in Subs : InLine(s) <=> pc = "udp" /\ SessionOf(s) \in matching_ids
  BY <1>3, <1>5 DEF InLine
<1> QED BY <1>1, <1>4, <1>5, <1>6 DEF SessionsRead

LEMMA ReadSessionsAfter == IInv' /\ Connections' => SessionsRead'
  BY ReadSessions, PTL

LEMMA LeaveIsLeave ==
    ASSUME NEW s \in Subs, ~Down, ~Down', Session[s] # None,
           Session' = [Session EXCEPT ![s] = None], Held' = Held, Stream' = Stream,
           Gone' = Gone
    PROVE  Broker!Leave(s)
  BY DEF Broker!Leave, Session, Held, Stream, Gone

------------------------------------------------------------------------------
(* The steps of the broker, and the steps nobody sees *)

Unseen == UNCHANGED <<Down, Session, Held, Stream, Gone>>

LEMMA UnseenIsStutter == Unseen => UNCHANGED Broker!vars
  BY DEF Unseen, Broker!vars, Session, Held, Stream, Gone

LEMMA GoneStays == ASSUME UNCHANGED phase PROVE Gone' = Gone
  BY DEF Gone

LEMMA Sessions ==
    ASSUME SessionsRead, SessionsRead',
           \A s \in Subs, c \in Ids :
               (subscribers'[c].connected /\ sockets'[subscribers'[c].sockfd] = s)
                  <=> (subscribers[c].connected /\ sockets[subscribers[c].sockfd] = s)
    PROVE  /\ \A s \in Subs : SessionOf(s)' = SessionOf(s)
           /\ Session' = Session
<1>1. ASSUME NEW s \in Subs PROVE SessionOf(s)' = SessionOf(s)
  <2>1. SessionOf(s) \in Ids \cup {None} /\ SessionOf(s)' \in Ids \cup {None}
    BY DEF SessionsRead
  <2>2. \A c \in Ids : SessionOf(s)' = c <=> SessionOf(s) = c
    BY DEF SessionsRead
  <2> QED BY <2>1, <2>2
<1> QED BY <1>1 DEF Session

\* No message is in the middle of its routing.
LEMMA NobodyInLine ==
    ASSUME SessionsRead, matching_ids = {} \/ pc # "udp"
    PROVE  /\ \A s \in Subs : ~InLine(s)
           /\ Stream = [s \in Subs |-> sent[s]]
<1>1. \A s \in Subs : ~InLine(s)
  BY DEF SessionsRead
<1> QED BY <1>1 DEF Stream

LEMMA NobodyInLineAfter ==
    ASSUME SessionsRead', matching_ids' = {} \/ pc' # "udp"
    PROVE  /\ \A s \in Subs : ~InLine(s)'
           /\ Stream' = [s \in Subs |-> sent'[s]]
<1>1. \A s \in Subs : ~InLine(s)'
  BY DEF SessionsRead
<1> QED BY <1>1 DEF Stream

LEMMA HeldStays ==
    ASSUME \A c \in Ids : subscribers'[c].topics = subscribers[c].topics
    PROVE  Held' = Held
  BY DEF Held

\* Steps that send nothing and give and take no session.
LEMMA NothingSeen ==
    ASSUME SessionsRead, SessionsRead', UNCHANGED sent,
           \A c \in Ids : subscribers'[c].topics = subscribers[c].topics,
           \A s \in Subs, c \in Ids :
               (subscribers'[c].connected /\ sockets'[subscribers'[c].sockfd] = s)
                  <=> (subscribers[c].connected /\ sockets[subscribers[c].sockfd] = s),
           \/ UNCHANGED <<pc, matching_ids, message>>
           \/ (matching_ids = {} \/ pc # "udp") /\ (matching_ids' = {} \/ pc' # "udp")
    PROVE  Session' = Session /\ Held' = Held /\ Stream' = Stream
<1>1. Session' = Session /\ \A s \in Subs : SessionOf(s)' = SessionOf(s)
  BY Sessions
<1>2. Held' = Held
  BY HeldStays
<1>3. Stream' = Stream
  <2>1. CASE UNCHANGED <<pc, matching_ids, message>>
    <3>1. \A s \in Subs : InLine(s)' <=> InLine(s)
      BY <1>1, <2>1 DEF SessionsRead
    <3> QED BY <2>1, <3>1 DEF Stream, MessageFrame
  <2>2. CASE (matching_ids = {} \/ pc # "udp") /\ (matching_ids' = {} \/ pc' # "udp")
    BY <2>2, NobodyInLine, NobodyInLineAfter
  <2> QED BY <2>1, <2>2
<1> QED BY <1>1, <1>2, <1>3

LEMMA StepUnseen ==
    ASSUME SessionsRead, SessionsRead', UNCHANGED <<sent, phase>>, Down' = Down,
           \A c \in Ids : subscribers'[c].topics = subscribers[c].topics,
           \A s \in Subs, c \in Ids :
               (subscribers'[c].connected /\ sockets'[subscribers'[c].sockfd] = s)
                  <=> (subscribers[c].connected /\ sockets[subscribers[c].sockfd] = s),
           \/ UNCHANGED <<pc, matching_ids, message>>
           \/ (matching_ids = {} \/ pc # "udp") /\ (matching_ids' = {} \/ pc' # "udp")
    PROVE  Unseen
  BY NothingSeen, GoneStays DEF Unseen

LEMMA QuietUnseen ==
    ASSUME IInv, Connections, Routing, SessionsRead, SessionsRead',
           \/ Poll \/ NoInput \/ UdpDrained \/ NoAccept \/ NextClient \/ ScanDone
           \/ \E s \in Subs, request \in Requests : Request(s, request)
           \/ \E topic \in Topics : Publish(topic)
           \/ \E line \in Lines : TypeLine(line)
           \/ UNCHANGED vars
    PROVE  Unseen
<1>1. UNCHANGED <<subscribers, sockets, sent>>
  BY QuietKeeps
<1>2. CASE Poll \/ NoInput \/ UdpDrained \/ NoAccept \/ NextClient \/ ScanDone
  <2>1. /\ matching_ids = {} \/ pc # "udp"
        /\ matching_ids' = {} \/ pc' # "udp"
        /\ pc \notin {"stopped", "killed"} /\ pc' \notin {"stopped", "killed"}
        /\ UNCHANGED phase
    BY <1>2 DEF Routing, Poll, NoInput, UdpDrained, NoAccept, NextClient, ScanDone, Scanning
  <2>2. Down' = Down
    BY <2>1 DEF Down
  <2> QED BY <1>1, <2>1, <2>2, StepUnseen
<1>3. CASE \/ \E s \in Subs, request \in Requests : Request(s, request)
           \/ \E topic \in Topics : Publish(topic)
           \/ \E line \in Lines : TypeLine(line)
           \/ UNCHANGED vars
  <2>1. UNCHANGED <<pc, matching_ids, message, phase>>
    BY <1>3 DEF Request, Publish, TypeLine, vars
  <2> QED BY <1>1, <2>1, StepUnseen DEF Down
<1> QED BY <1>2, <1>3

\* A subscriber that connects or sends its id has not gone.
LEMMA ComingUnseen ==
    ASSUME IInv, SessionsRead, SessionsRead', NEW s \in Subs,
           SendId(s) \/ \E c \in Ids : Start(s, c)
    PROVE  Unseen
<1>1. /\ UNCHANGED <<subscribers, sockets, sent, pc, matching_ids, message>>
      /\ phase[s] # "closed"
      /\ phase' = [phase EXCEPT ![s] = "connecting"] \/ phase' = [phase EXCEPT ![s] = "up"]
  BY DEF Start, SendId
<1>2. phase \in [Subs -> {"off", "connecting", "up", "closed"}]
  BY DEF IInv, TypeOK, ClientTypes
<1>3. \A t \in Subs : phase'[t] = "closed" <=> phase[t] = "closed"
  BY <1>1, <1>2
<1>4. Gone' = Gone
  BY <1>3 DEF Gone
<1> QED BY <1>1, <1>4, NothingSeen DEF Down, Unseen

\* A connection before its id was read, and after it was refused, is nobody's.
LEMMA AcceptUnseen ==
    ASSUME IInv, Connections, SessionsRead, SessionsRead', Accept PROVE Unseen
<1>1. /\ UNCHANGED <<subscribers, sent, matching_ids, message, phase>>
      /\ pc = "listen" /\ pc' = "readid"
  BY DEF Accept
<1>2. PICK fd \in FreeFds : sockets' = [sockets EXCEPT ![fd] = Head(backlog)]
  BY DEF Accept
<1>3. \A f \in Fds : f # fd => sockets'[f] = sockets[f]
  BY <1>2 DEF FreeFds, IInv, TypeOK, KernelTypes
<1>4. \A c \in Ids : subscribers[c].connected =>
        subscribers[c].sockfd \in Fds /\ subscribers[c].sockfd # fd
  BY <1>2, ConnectedClient DEF FreeFds, Connections
<1>5. Down' = Down
  BY <1>1 DEF Down
<1> QED BY <1>1, <1>3, <1>4, <1>5, StepUnseen

LEMMA RefuseClientUnseen ==
    ASSUME IInv, Connections, SessionsRead, SessionsRead', RefuseClient PROVE Unseen
<1>1. /\ UNCHANGED <<subscribers, sent, matching_ids, message, phase>>
      /\ pc = "readid" /\ pc' = "scan"
  BY DEF RefuseClient
<1>2. /\ new_socket \in Fds /\ connected_subscribers[new_socket] = None
      /\ sockets' = [sockets EXCEPT ![new_socket] = None]
  BY Handshaking DEF RefuseClient, CloseNewSocket
<1>3. \A f \in Fds : f # new_socket => sockets'[f] = sockets[f]
  BY <1>2 DEF IInv, TypeOK, KernelTypes
<1>4. \A c \in Ids : subscribers[c].connected =>
        subscribers[c].sockfd \in Fds /\ subscribers[c].sockfd # new_socket
  BY <1>2, ConnectedClient, ConstantsAssumption DEF Connections
<1>5. Down' = Down
  BY <1>1 DEF Down
<1> QED BY <1>1, <1>3, <1>4, <1>5, StepUnseen

------------------------------------------------------------------------------
(* The steps that clients see *)

LEMMA FrontAppend ==
    ASSUME NEW S, NEW seq \in Seq(S), NEW elt \in S
    PROVE  Front(Append(seq, elt)) = seq
<1> DEFINE more == Append(seq, elt)
           n == Len(seq)
<1>1. /\ n \in Nat /\ more \in Seq(S) /\ Len(more) = n + 1
      /\ \A k \in 1..n : more[k] = seq[k] /\ more[k] \in S
  BY LenProperties, AppendProperties, ElementOfSeq
<1> HIDE DEF more
<1>2. Front(more) = SubSeq(more, 1, n)
  <2>1. Len(more) - 1 = n
    BY <1>1
  <2> QED BY <2>1 DEF Front
<1> HIDE DEF n
<1>3. /\ SubSeq(more, 1, n) \in Seq(S)
      /\ Len(SubSeq(more, 1, n)) = IF 1 <= n THEN n - 1 + 1 ELSE 0
      /\ \A k \in 1..n-1+1 : SubSeq(more, 1, n)[k] = more[1+k-1]
  <2>1. PICK m \in Int : m = 1
    OBVIOUS
  <2>2. \A k \in m..n : more[k] \in S
    BY <1>1, <2>1
  <2>3. /\ SubSeq(more, m, n) \in Seq(S)
        /\ Len(SubSeq(more, m, n)) = IF m <= n THEN n - m + 1 ELSE 0
        /\ \A k \in 1..n-m+1 : SubSeq(more, m, n)[k] = more[m+k-1]
    BY <1>1, <2>2, SubSeqProperties
  <2> QED BY <2>1, <2>3
<1>4. Len(SubSeq(more, 1, n)) = n
  BY <1>1, <1>3
<1>5. \A k \in 1..n : SubSeq(more, 1, n)[k] = seq[k]
  <2>1. \A k \in 1..n : k \in 1..n-1+1 /\ 1+k-1 = k
    BY <1>1
  <2> QED BY <1>1, <1>3, <2>1
<1>6. SubSeq(more, 1, n) = seq
  BY <1>3, <1>4, <1>5, SeqEqual DEF n
<1> QED BY <1>2, <1>6 DEF more

\* The broker's message is sent already, or was lost with the client.
LEMMA RouteToSeen ==
    ASSUME IInv, Connections, SessionsRead, SessionsRead', NEW c \in Ids, RouteTo(c)
    PROVE  Unseen \/ \E s \in Subs : Broker!Lose(s)
<1>1. /\ UNCHANGED <<pc, subscribers, sockets, message, phase>> /\ pc = "udp" /\ c \in matching_ids
      /\ matching_ids' = matching_ids \ {c}
  BY DEF RouteTo
<1>2. Session' = Session /\ \A s \in Subs : SessionOf(s)' = SessionOf(s)
  BY <1>1, Sessions
<1>3. \A s \in Subs : SessionOf(s) # c => (InLine(s)' <=> InLine(s))
  BY <1>1, <1>2 DEF SessionsRead
<1>4. Held' = Held /\ Gone' = Gone /\ Down' = Down
  BY <1>1, HeldStays, GoneStays DEF Down
<1>5. CASE ~subscribers[c].connected
  <2>1. UNCHANGED sent /\ \A s \in Subs : SessionOf(s) # c
    BY <1>5 DEF RouteTo, Skipped, SessionsRead
  <2>2. Stream' = Stream
    BY <1>1, <1>3, <2>1 DEF Stream, MessageFrame
  <2> QED BY <1>2, <1>4, <2>2 DEF Unseen
<1>6. CASE subscribers[c].connected
  <2> DEFINE fd == subscribers[c].sockfd
             frame == MessageFrame(message)
  <2>1. fd \in Fds /\ sockets[fd] \in Subs /\ frame \in Frames /\ Send(fd, frame)
    BY <1>6, RoutedMessage DEF Connections
  <2>2. PICK r \in Subs : r = sockets[fd]
    BY <2>1
  <2>3. frame' = frame /\ \A s \in Subs : SessionOf(s) = c <=> s = r
    BY <1>1, <1>6, <2>2 DEF SessionsRead, MessageFrame
  <2>4. InLine(r) /\ ~InLine(r)'
    BY <1>1, <1>2, <2>3 DEF SessionsRead
  <2>5. \A s \in Subs : s # r => (InLine(s)' <=> InLine(s))
    BY <1>3, <2>3
  <2> HIDE DEF fd, frame
  <2>6. CASE Put(fd, frame)
    <3>1. /\ \A t \in Subs : t # r => sent'[t] = sent[t]
          /\ sent'[r] = Append(sent[r], frame)
      BY <2>1, <2>2, <2>6, SendEffect
    <3>2. \A s \in Subs : (IF InLine(s)' THEN Append(sent'[s], frame') ELSE sent'[s])
                              = IF InLine(s) THEN Append(sent[s], frame) ELSE sent[s]
      BY <2>3, <2>4, <2>5, <3>1
    <3>3. Stream' = Stream
      BY <3>2 DEF Stream, frame
    <3> QED BY <1>2, <1>4, <3>3 DEF Unseen
  <2>7. CASE Broken(fd) /\ UNCHANGED sent
    <3>1. r \in Gone
      BY <2>2, <2>7 DEF Broken, Gone
    <3>2. Stream[r] = Append(sent[r], frame) /\ sent[r] \in Seq(Frames)
      BY <2>4 DEF Stream, frame, IInv, TypeOK, StreamTypes
    <3>3. Stream[r] # <<>> /\ Broker!Front(Stream[r]) = sent[r]
      BY <2>1, <3>2, AppendProperties, FrontAppend, SameBrokerOperators
    <3>4. \A s \in Subs : (IF InLine(s)' THEN Append(sent'[s], frame') ELSE sent'[s])
                              = IF s = r THEN Broker!Front(Stream[r]) ELSE Stream[s]
      BY <2>3, <2>4, <2>5, <2>7, <3>3 DEF Stream, frame
    <3>5. Stream' = [Stream EXCEPT ![r] = Broker!Front(@)]
      BY <3>4 DEF Stream, frame
    <3>6. ~Down
      BY <1>1 DEF Down
    <3>7. Broker!Lose(r)
      BY <1>2, <1>4, <3>1, <3>3, <3>5, <3>6 DEF Broker!Lose, Session, Held, Stream, Gone
    <3> QED BY <3>7
  <2> QED BY <2>1, <2>6, <2>7 DEF Send
<1> QED BY <1>5, <1>6

LEMMA Departs ==
    ASSUME IInv, Connections, SessionsRead, SessionsRead', NEW s \in Subs, ServerGone(s) \/ Exit(s)
    PROVE  Broker!Depart(s)
<1>1. /\ UNCHANGED <<subscribers, sockets, sent, pc, matching_ids, message>>
      /\ phase[s] # "closed" /\ phase' = [phase EXCEPT ![s] = "closed"]
  BY DEF ServerGone, Exit
<1>2. Session' = Session /\ Held' = Held /\ Stream' = Stream
  BY <1>1, NothingSeen
<1>3. phase \in [Subs -> {"off", "connecting", "up", "closed"}]
  BY DEF IInv, TypeOK, ClientTypes
<1>4. \A t \in Subs : phase'[t] = "closed" <=> t = s \/ phase[t] = "closed"
  BY <1>1, <1>3
<1>5. s \notin Gone /\ Gone' = Gone \cup {s}
  BY <1>1, <1>4 DEF Gone
<1>6. Down' = Down
  BY <1>1 DEF Down
<1> QED BY <1>2, <1>5, <1>6 DEF Broker!Depart, Session, Held, Stream, Gone

LEMMA HandleStdinStops ==
    ASSUME IInv, Connections, Routing, SessionsRead, SessionsRead', HandleStdin
    PROVE  Broker!Stop \/ Unseen
<1>1. /\ UNCHANGED <<subscribers, sockets, sent, matching_ids, message, phase>> /\ pc = "stdin"
      /\ pc' \in {"stopped", "udp"}
  BY DEF HandleStdin
<1>2. matching_ids = {} /\ matching_ids' = {}
  BY <1>1 DEF Routing
<1>3. Session' = Session /\ Held' = Held /\ Stream' = Stream /\ Gone' = Gone
  BY <1>1, <1>2, Sessions, HeldStays, GoneStays, NobodyInLine, NobodyInLineAfter
<1>4. CASE pc' = "udp"
  <2>1. Down' = Down
    BY <1>1, <1>4 DEF Down
  <2> QED BY <1>3, <2>1 DEF Unseen
<1>5. CASE pc' = "stopped"
  <2>1. ~Down /\ Down'
    BY <1>1, <1>5 DEF Down
  <2> QED BY <1>3, <2>1 DEF Broker!Stop, Session, Held, Stream, Gone
<1> QED BY <1>1, <1>4, <1>5

\* The message the broker was sending is lost to those still in line.
LEMMA KilledDies ==
    ASSUME IInv, Connections, Routing, SessionsRead, SessionsRead', Killed
    PROVE  Broker!Die \/ Broker!Stop
<1>1. /\ UNCHANGED <<subscribers, sockets, sent, matching_ids, message, phase>>
      /\ pc \in {"udp", "scan"} /\ pc' = "killed"
  BY DEF Killed, HasRequest, Scanning
<1>2. ~Down /\ Down'
  BY <1>1 DEF Down
<1>3. Session' = Session /\ Held' = Held /\ Stream' = [s \in Subs |-> sent[s]]
      /\ Gone' = Gone
  BY <1>1, Sessions, HeldStays, GoneStays, NobodyInLineAfter
<1>4. CASE pc = "scan"
  <2>1. Stream' = Stream
    BY <1>3, <1>4, NobodyInLine
  <2> QED BY <1>2, <1>3, <2>1 DEF Broker!Stop, Session, Held, Stream, Gone
<1>5. CASE pc = "udp"
  <2> DEFINE missing == {s \in Subs : InLine(s)}
  <2>1. ASSUME NEW s \in Subs, InLine(s)
        PROVE  /\ Stream[s] # <<>> /\ Broker!Front(Stream[s]) = sent[s]
    <3> DEFINE frame == MessageFrame(message)
    <3>1. sent[s] \in Seq(Frames) /\ frame \in Frames
      <4>1. message \in Messages
        BY <2>1 DEF InLine, IInv, TurnState
      <4>2. frame \in Frames
        BY <4>1 DEF Messages, MessageFrame, Frames
      <4> QED BY <4>2 DEF IInv, TypeOK, StreamTypes
    <3>2. Stream[s] = Append(sent[s], frame)
      BY <2>1 DEF Stream
    <3> HIDE DEF frame
    <3>3. Append(sent[s], frame) # <<>> /\ Front(Append(sent[s], frame)) = sent[s]
      BY <3>1, AppendProperties, FrontAppend
    <3> QED BY <3>2, <3>3, SameBrokerOperators
  <2>2. missing \in SUBSET {s \in Subs : Stream[s] # <<>>}
    BY <2>1
  <2>3. Stream' = [s \in Subs |-> IF s \in missing THEN Broker!Front(Stream[s]) ELSE Stream[s]]
    BY <1>3, <2>1 DEF Stream
  <2> HIDE DEF missing
  <2>4. \E lost \in SUBSET {s \in Subs : Stream[s] # <<>>} :
           Stream' = [s \in Subs |-> IF s \in lost THEN Broker!Front(Stream[s]) ELSE Stream[s]]
    BY <2>2, <2>3
  <2> QED BY <1>2, <1>3, <2>4 DEF Broker!Die, Session, Held, Stream, Gone
<1> QED BY <1>1, <1>4, <1>5

LEMMA DisconnectLeaves ==
    ASSUME IInv, Connections, SessionsRead, SessionsRead', Disconnect
    PROVE  \E s \in Subs : Broker!Leave(s)
<1> DEFINE Entry == [connected : BOOLEAN, sockfd : Fds \cup {0}, topics : SUBSET Patterns]
<1>1. /\ pc = "scan" /\ pc' = "scan" /\ UNCHANGED <<sent, matching_ids, message, phase>>
      /\ sockets' = [sockets EXCEPT ![ThisFd] = None]
      /\ subscribers' = [subscribers EXCEPT ![ThisId].connected = FALSE]
      /\ ThisFd \in Fds /\ ThisId \in Ids /\ ThisSub \in Subs /\ ThisSub = sockets[ThisFd]
  BY ScannedClient DEF Disconnect, Scanning, MarkDisconnected, ThisSub
<1>2. PICK s \in Subs : s = sockets[ThisFd]
  BY <1>1
<1>3. /\ SessionOf(s) = ThisId
      /\ subscribers[ThisId].connected /\ subscribers[ThisId].sockfd = ThisFd
  <2>1. SessionOf(s) = ThisId
    BY <1>1, <1>2, ConstantsAssumption DEF SessionsRead, ThisId
  <2> QED BY <1>1, <2>1 DEF IInv, SessionTables, IdsMatchFds, ThisId
<1>4. subscribers \in [Ids -> Entry]
  BY DEF IInv, TypeOK, TableTypes
<1>5. /\ \A c \in Ids : c # ThisId => subscribers'[c] = subscribers[c]
      /\ ~subscribers'[ThisId].connected /\ subscribers'[ThisId].topics = subscribers[ThisId].topics
  BY <1>1, <1>4
<1>6. \A f \in Fds : f # ThisFd => sockets'[f] = sockets[f]
  BY <1>1 DEF IInv, TypeOK, KernelTypes
<1>7. ASSUME NEW t \in Subs PROVE SessionOf(t)' = IF t = s THEN None ELSE SessionOf(t)
  <2>1. SessionOf(t) \in Ids \cup {None} /\ SessionOf(t)' \in Ids \cup {None}
    BY DEF SessionsRead
  <2>2. \A c \in Ids : c # ThisId => (SessionOf(t)' = c <=> SessionOf(t) = c)
    <3> SUFFICES ASSUME NEW c \in Ids, c # ThisId PROVE SessionOf(t)' = c <=> SessionOf(t) = c
      OBVIOUS
    <3>1. subscribers[c].connected => /\ subscribers[c].sockfd \in Fds
                                      /\ subscribers[c].sockfd # ThisFd
      BY <1>1, <1>3, TwoClients, ConnectedClient DEF Connections
    <3> QED BY <1>5, <1>6, <3>1 DEF SessionsRead
  <2>3. SessionOf(t)' # ThisId
    BY <1>1, <1>5 DEF SessionsRead
  <2>4. SessionOf(t) = ThisId <=> t = s
    BY <1>1, <1>2, <1>3 DEF SessionsRead
  <2> QED BY <1>1, <2>1, <2>2, <2>3, <2>4, ConstantsAssumption
<1>8. Session' = [Session EXCEPT ![s] = None]
  BY <1>7 DEF Session
<1>9. Session[s] # None
  BY <1>1, <1>3, ConstantsAssumption DEF Session
<1>10. Held' = Held /\ Stream' = Stream /\ Gone' = Gone
  <2>1. \A c \in Ids : subscribers'[c].topics = subscribers[c].topics
    BY <1>5
  <2> QED BY <1>1, <2>1, HeldStays, GoneStays, NobodyInLine, NobodyInLineAfter
<1>11. ~Down /\ ~Down'
  BY <1>1 DEF Down
<1> QED BY <1>8, <1>9, <1>10, <1>11, LeaveIsLeave

LEMMA RegisterClientConnects ==
    ASSUME IInv, Connections, SessionsRead, SessionsRead', RegisterClient
    PROVE  \E s \in Subs, c \in Ids : Broker!Connect(s, c)
<1>1. PICK c \in Ids : c = client_id[NewSub]
  BY Registered
<1>2. PICK s \in Subs : s = NewSub
  BY Registered
<1>3. /\ new_socket \in Fds /\ s = sockets[new_socket]
      /\ ~subscribers[c].connected /\ connected_subscribers[new_socket] = None
      /\ \A d \in Ids : d # c => subscribers'[d] = subscribers[d]
      /\ subscribers'[c].connected /\ subscribers'[c].sockfd = new_socket
      /\ subscribers'[c].topics = subscribers[c].topics
      /\ pc = "readid" /\ pc' = "scan"
      /\ UNCHANGED <<sockets, sent, message, matching_ids, phase>>
  BY <1>1, <1>2, Registered
<1>4. SessionOf(s) = None /\ sent[s] = <<>>
  BY <1>2, <1>3, ConstantsAssumption DEF SessionsRead, Connections, NothingSentYet
<1>5. \A t \in Subs : SessionOf(t) # c
  BY <1>3 DEF SessionsRead
<1>6. ASSUME NEW t \in Subs PROVE SessionOf(t)' = IF t = s THEN c ELSE SessionOf(t)
  <2>1. SessionOf(t) \in Ids \cup {None} /\ SessionOf(t)' \in Ids \cup {None}
    BY DEF SessionsRead
  <2>2. \A d \in Ids : d # c => (SessionOf(t)' = d <=> SessionOf(t) = d)
    BY <1>3 DEF SessionsRead
  <2>3. SessionOf(t)' = c <=> t = s
    BY <1>3 DEF SessionsRead
  <2> QED BY <1>4, <1>5, <2>1, <2>2, <2>3
<1>7. Session' = [Session EXCEPT ![s] = c]
  BY <1>6 DEF Session
<1>8. /\ Session[s] = None /\ \A t \in Subs : Session[t] # c
  BY <1>4, <1>5 DEF Session
<1>9. /\ Held' = Held /\ Stream' = Stream /\ Gone' = Gone /\ Stream[s] = <<>>
  <2>1. \A d \in Ids : subscribers'[d].topics = subscribers[d].topics
    BY <1>3
  <2>2. Stream' = Stream /\ Stream = [t \in Subs |-> sent[t]]
    BY <1>3, NobodyInLine, NobodyInLineAfter
  <2> QED BY <1>3, <1>4, <2>1, <2>2, HeldStays, GoneStays
<1>10. ~Down /\ ~Down'
  BY <1>3 DEF Down
<1>11. Broker!Connect(s, c)
  BY <1>7, <1>8, <1>9, <1>10 DEF Broker!Connect, Session, Held, Stream, Gone
<1> QED BY <1>11

\* An applied request changes the topics and acknowledges at once; another
\* one is dropped.
LEMMA HandleRequestSeen ==
    ASSUME IInv, Connections, SessionsRead, SessionsRead', HandleRequest
    PROVE  \/ Unseen
           \/ \E s \in Subs, p \in Patterns : Broker!Subscribe(s, p) \/ Broker!Unsubscribe(s, p)
<1>1. /\ pc = "scan" /\ pc' = "scan" /\ UNCHANGED <<sockets, message, matching_ids, phase>>
  BY DEF HandleRequest, HasRequest, Scanning
<1>2. CASE ~Applies(ThisId, Head(up[ThisSub]))
  <2>1. UNCHANGED <<subscribers, sent>>
    BY <1>2 DEF HandleRequest
  <2> QED BY <1>1, <2>1, StepUnseen DEF Down
<1>3. CASE Applies(ThisId, Head(up[ThisSub]))
  <2> DEFINE request == Head(up[ThisSub])
             frame == AckFrame(request)
             Update(set) == IF request.op = "subscribe" THEN set \cup {request.topic}
                                                        ELSE set \ {request.topic}
  <2>1. /\ request \in Requests
        /\ subscribers[ThisId].connected /\ subscribers[ThisId].sockfd = ThisFd
        /\ ThisFd \in Fds /\ sockets[ThisFd] \in Subs /\ frame \in Frames /\ Send(ThisFd, frame)
        /\ UpdateTopics(ThisId, request)
        /\ Applies(ThisId, request)
    BY <1>3, Acknowledged, AppliedRequest DEF Connections
  <2>2. PICK s \in Subs : s = sockets[ThisFd]
    BY <2>1
  <2>3. PICK c \in Ids : c = ThisId
    BY <1>3, Acknowledged DEF Connections
  <2>4. PICK p \in Patterns : p = request.topic
    BY <2>1 DEF Requests
  <2>5. PICK r \in Requests : r = request
    BY <2>1
  <2>6. /\ \A d \in Ids \ {c} : subscribers'[d] = subscribers[d]
        /\ subscribers'[c].topics = Update(subscribers[c].topics)
        /\ subscribers'[c].connected = subscribers[c].connected
        /\ subscribers'[c].sockfd = subscribers[c].sockfd
    BY <2>1, <2>3, TopicsChange
  <2> HIDE DEF request, frame
  <2>7. \/ /\ \A t \in Subs : t # s => sent'[t] = sent[t]
           /\ sent'[s] = Append(sent[s], frame)
        \/ s \in Gone /\ UNCHANGED sent
    BY <2>1, <2>2, SendEffect DEF Send, Broken, Gone
  <2>8. Session' = Session
    BY <1>1, <2>6, Sessions
  <2>9. Session[s] = c
    BY <2>1, <2>2, <2>3 DEF SessionsRead, Session
  <2>10. Held' = [Held EXCEPT ![c] = Update(@)]
    BY <2>6 DEF Held
  <2>11. \/ Stream' = [Stream EXCEPT ![s] = Append(@, frame)]
         \/ s \in Gone /\ Stream' = Stream
    <3>1. Stream = [t \in Subs |-> sent[t]] /\ Stream' = [t \in Subs |-> sent'[t]]
      BY <1>1, NobodyInLine, NobodyInLineAfter
    <3> QED BY <2>7, <3>1
  <2>12. ~Down /\ ~Down' /\ Gone' = Gone
    BY <1>1, GoneStays DEF Down
  <2>13. Held[c] = subscribers[c].topics /\ c # None
    BY ConstantsAssumption DEF Held
  <2>14. CASE r.op = "subscribe"
    <3>1. /\ frame = [kind |-> "ack_sub", topic |-> p, n |-> 0]
          /\ p \notin Held[Session[s]] /\ Session[s] # None
          /\ Held' = [Held EXCEPT ![Session[s]] = @ \cup {p}]
      BY <2>1, <2>3, <2>4, <2>5, <2>9, <2>10, <2>13, <2>14 DEF frame, AckFrame, Applies
    <3>2. Broker!Subscribe(s, p)
      BY <2>8, <2>11, <2>12, <3>1 DEF Broker!Subscribe, Broker!Ack, Session, Held, Stream, Gone
    <3> QED BY <3>2
  <2>15. CASE r.op # "subscribe"
    <3>1. /\ frame = [kind |-> "ack_unsub", topic |-> p, n |-> 0]
          /\ p \in Held[Session[s]] /\ Session[s] # None
          /\ Held' = [Held EXCEPT ![Session[s]] = @ \ {p}]
      BY <2>1, <2>3, <2>4, <2>5, <2>9, <2>10, <2>13, <2>15 DEF frame, AckFrame, Applies
    <3>2. Broker!Unsubscribe(s, p)
      BY <2>8, <2>11, <2>12, <3>1 DEF Broker!Unsubscribe, Broker!Ack, Session, Held, Stream, Gone
    <3> QED BY <3>2
  <2> QED BY <2>14, <2>15
<1> QED BY <1>2, <1>3

\* The broker's message is sent to everybody at the start of its routing.
LEMMA RecvDatagramPublishes ==
    ASSUME IInv, TrieInv, TrieMirrorsTopics, Delivery, SessionsRead, SessionsRead', RecvDatagram
    PROVE  \E topic \in Topics, n \in 1..MaxMessages : Broker!Publish(topic, n)
<1>1. /\ message' \in Messages /\ message' = udp[1] /\ 1 \in 1..Len(udp)
      /\ matching_ids' = FindSubscribers(trie, message'.topic)
      /\ pc = "udp" /\ pc' = "udp" /\ matching_ids = {}
      /\ UNCHANGED <<subscribers, sockets, sent>>
  BY Received
<1>2. PICK m \in Messages : m = message'
  BY <1>1
<1>3. PICK topic \in Topics : topic = m.topic
  BY DEF Messages
<1>4. PICK n \in 1..MaxMessages : n = m.n
  BY DEF Messages
<1>5. Session' = Session /\ Held' = Held /\ Gone' = Gone
  <2>1. UNCHANGED phase
    BY DEF RecvDatagram
  <2> QED BY <1>1, <2>1, Sessions, HeldStays, GoneStays
<1>6. Stream = [s \in Subs |-> sent[s]]
  BY <1>1, NobodyInLine
<1>7. \A s \in Subs : \A k \in 1..Len(Stream[s]) : Stream[s][k].n < n
  <2> SUFFICES ASSUME NEW s \in Subs, NEW k \in 1..Len(sent[s]) PROVE sent[s][k].n < n
    BY <1>6
  <2>1. sent[s][k] \in Frames
    BY NumbersAreNat
  <2>2. CASE IsMessage(sent[s][k])
    BY <1>1, <1>2, <1>4, <2>2 DEF Delivery, SentNumbers
  <2>3. CASE ~IsMessage(sent[s][k])
    <3>1. sent[s][k].n = 0
      BY <2>1, <2>3 DEF Frames, IsMessage
    <3> QED BY <3>1
  <2> QED BY <2>2, <2>3
<1>8. ASSUME NEW s \in Subs
      PROVE  InLine(s)' <=> Session[s] # None /\ Broker!Wants(Session[s], topic)
  <2>1. InLine(s)' <=> SessionOf(s) \in FindSubscribers(trie, topic)
    <3>1. SessionOf(s)' = SessionOf(s)
      BY <1>1, Sessions
    <3> QED BY <1>1, <1>2, <1>3, <3>1 DEF SessionsRead
  <2>2. SessionOf(s) \in Ids \cup {None}
    BY DEF SessionsRead
  <2>3. SessionOf(s) \in FindSubscribers(trie, topic)
           <=> SessionOf(s) # None /\ Wants(SessionOf(s), topic)
    BY <2>2, FoundWant, WantersFound, ConstantsAssumption
  <2> QED BY <2>1, <2>2, <2>3, BrokerWants DEF Session
<1>9. Stream' = [s \in Subs |->
                   IF Session[s] # None /\ Broker!Wants(Session[s], topic)
                      THEN Append(Stream[s], [kind |-> "message", topic |-> topic, n |-> n])
                      ELSE Stream[s]]
  <2>1. MessageFrame(message)' = [kind |-> "message", topic |-> topic, n |-> n]
    BY <1>2, <1>3, <1>4 DEF MessageFrame
  <2> QED BY <1>1, <1>6, <1>8, <2>1 DEF Stream
<1>10. ~Down /\ ~Down'
  BY <1>1 DEF Down
<1>11. Broker!Publish(topic, n)
  BY <1>5, <1>7, <1>9, <1>10 DEF Broker!Publish, Broker!Fresh, Session, Held, Stream, Gone
<1> QED BY <1>11

------------------------------------------------------------------------------
(* The refinement *)

LEMMA BrokerInit == Init => Broker!Init
<1> SUFFICES ASSUME Init PROVE Broker!Init
  OBVIOUS
<1>1. /\ pc = "poll" /\ sent = [s \in Subs |-> <<>>] /\ matching_ids = {}
      /\ connected_subscribers = [fd \in Fds |-> None]
      /\ \A c \in Ids : subscribers[c].topics = {}
      /\ phase = [s \in Subs |-> "off"]
  BY DEF Init
<1>2. ~Down /\ \A s \in Subs : ~InLine(s)
  BY <1>1 DEF Down, InLine
<1>3. \A s \in Subs : SessionOf(s) = None
  BY <1>1 DEF SessionOf
<1> QED BY <1>1, <1>2, <1>3 DEF Broker!Init

\* Every step is one of the broker's or leaves its variables alone.
LEMMA StepRefines ==
    ASSUME IInv, TrieInv, TrieMirrorsTopics, Connections, Routing, Delivery,
           IInv', Connections', [Next]_vars
    PROVE  [Broker!Next]_(Broker!vars)
<1>1. SessionsRead /\ SessionsRead'
  BY ReadSessions, ReadSessionsAfter
<1>2. CASE \/ Poll \/ NoInput \/ UdpDrained \/ NoAccept \/ NextClient \/ ScanDone
           \/ \E s \in Subs, request \in Requests : Request(s, request)
           \/ \E topic \in Topics : Publish(topic)
           \/ \E line \in Lines : TypeLine(line)
           \/ UNCHANGED vars
  BY <1>1, <1>2, QuietUnseen, UnseenIsStutter
<1>3. CASE \/ \E s \in Subs : SendId(s) \/ \E c \in Ids : Start(s, c)
           \/ Accept \/ RefuseClient
  BY <1>1, <1>3, ComingUnseen, AcceptUnseen, RefuseClientUnseen, UnseenIsStutter
<1>10. CASE \E s \in Subs : ServerGone(s) \/ Exit(s)
  BY <1>1, <1>10, Departs DEF Broker!Next
<1>11. CASE \E c \in Ids : RouteTo(c)
  BY <1>1, <1>11, RouteToSeen, UnseenIsStutter DEF Broker!Next
<1>4. CASE HandleStdin
  BY <1>1, <1>4, HandleStdinStops, UnseenIsStutter DEF Broker!Next
<1>5. CASE Killed
  BY <1>1, <1>5, KilledDies DEF Broker!Next
<1>6. CASE Disconnect
  BY <1>1, <1>6, DisconnectLeaves DEF Broker!Next
<1>7. CASE RegisterClient
  BY <1>1, <1>7, RegisterClientConnects DEF Broker!Next
<1>8. CASE HandleRequest
  BY <1>1, <1>8, HandleRequestSeen, UnseenIsStutter DEF Broker!Next
<1>9. CASE RecvDatagram
  BY <1>1, <1>9, RecvDatagramPublishes DEF Broker!Next
<1> QED BY <1>2, <1>3, <1>4, <1>5, <1>6, <1>7, <1>8, <1>9, <1>10, <1>11
        DEF Next, ServerStep, Environment

\* The server implements PubSub (server.cpp:54-152, 154-255) for any clients,
\* topics, descriptors and bounds and any patterns of which no two are texts of
\* one path: routing a datagram to many clients looks like one step, an id
\* keeps its topics while it is away, no acknowledgement is repeated, and a frame
\* is only lost when its client has gone.
THEOREM ServerIsBroker == ASSUME NoAliases PROVE Spec => ImplementsPubSub
<1>1. IInv /\ TrieInv /\ TrieMirrorsTopics /\ Connections /\ Routing /\ Delivery
         /\ IInv' /\ Connections' /\ [Next]_vars => [Broker!Next]_(Broker!vars)
  BY StepRefines
<1> QED BY <1>1, BrokerInit, Inductive, TrieInvariance, TrieAgrees, RoutingInvariance,
           DeliveryInvariance, PTL DEF Spec, ImplementsPubSub, Broker!Spec

==============================================================================
