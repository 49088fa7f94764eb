---------------------------- MODULE ServerProofs ----------------------------
(***************************************************************************)
(* Proofs about Server, for any ids, clients, patterns, topics and bounds: *)
(* the types of its variables, that its session tables agree, and that it  *)
(* uses its trie as TopicTrie describes.                                   *)
(***************************************************************************)
EXTENDS ServerProperties, SequenceTheorems, TLAPS

------------------------------------------------------------------------------
(* The inductive invariant *)

\* A client in the backlog or behind a descriptor has chosen its id.
ClientsKnown ==
    /\ \A s \in Subs : phase[s] = "off" => client_id[s] = None
    /\ \A k \in 1..Len(backlog) : client_id[backlog[k]] # None
    /\ \A fd \in Fds : sockets[fd] # None => client_id[sockets[fd]] # None

\* While the loop waits for an id, the new socket is open and nobody's; while
\* a datagram is routed, it is there; a listener reported ready has a client.
TurnState ==
    /\ pc = "readid" => /\ new_socket \in Fds
                        /\ sockets[new_socket] # None
                        /\ connected_subscribers[new_socket] = None
    /\ pc \in {"stdin", "udp", "listen"} /\ revents.listener => backlog # <<>>
    /\ matching_ids # {} => message \in Messages

IInv == TypeOK /\ SessionTables /\ ClientsKnown /\ TurnState

USE DEF server, kernel, clients

------------------------------------------------------------------------------
(* What a step that leaves variables alone leaves true *)

\* Every part of SessionTables is about the descriptors polled, the tables and
\* the clients' ids.
LEMMA SameDescriptors ==
    ASSUME SessionTables,
           Len(poll_fds') = Len(poll_fds),
           \A k \in 1..Len(poll_fds) : poll_fds'[k].fd = poll_fds[k].fd,
           \A c \in Ids : /\ subscribers'[c].connected = subscribers[c].connected
                          /\ subscribers'[c].sockfd = subscribers[c].sockfd,
           UNCHANGED <<connected_subscribers, sockets, client_id>>
    PROVE  SessionTables'
<1>1. PolledOnce'
  BY DEF SessionTables, PolledOnce
<1>2. PolledFds' = PolledFds
  BY DEF PolledFds
<1>3. PolledAreConnected'
  BY <1>2 DEF SessionTables, PolledAreConnected
<1>4. IdsMatchFds'
  BY DEF SessionTables, IdsMatchFds
<1>5. FdsMatchClients'
  BY DEF SessionTables, FdsMatchClients
<1> QED BY <1>1, <1>3, <1>4, <1>5 DEF SessionTables

LEMMA SameSessions ==
    ASSUME SessionTables,
           UNCHANGED <<poll_fds, subscribers, connected_subscribers, sockets, client_id>>
    PROVE  SessionTables'
  BY SameDescriptors

LEMMA SameClients ==
    ASSUME ClientsKnown, UNCHANGED <<backlog, sockets, phase, client_id>>
    PROVE  ClientsKnown'
  BY DEF ClientsKnown

\* A function on 1..n is a sequence.
LEMMA TupleIsSeq ==
    ASSUME NEW S, NEW n \in Nat, NEW f \in [1..n -> S]
    PROVE  f \in Seq(S) /\ Len(f) = n
  OBVIOUS

\* What a query returns is a set of ids.
LEMMA FindType ==
    ASSUME NEW t \in [DOMAIN trie -> SUBSET Ids], NEW topic
    PROVE  FindSubscribers(t, topic) \in SUBSET Ids
  BY DEF FindSubscribers

------------------------------------------------------------------------------
(* poll() and stdin *)

LEMMA PollKeeps == IInv /\ Poll => IInv'
<1> SUFFICES ASSUME IInv, Poll PROVE IInv'
  OBVIOUS
<1>1. LoopTypes'
  <2>1. Ready \in [stdin : BOOLEAN, udp : BOOLEAN, listener : BOOLEAN]
    BY DEF Ready
  <2> QED BY <2>1 DEF IInv, TypeOK, LoopTypes, Poll
<1>2. /\ Len(poll_fds') = Len(poll_fds) 
      /\ \A k \in 1..Len(poll_fds) : poll_fds'[k].fd = poll_fds[k].fd
      /\ poll_fds' \in Seq(PollEntries)
  <2>1. poll_fds \in Seq(PollEntries) /\ Len(poll_fds) \in Nat
    BY LenProperties DEF IInv, TypeOK, TableTypes
  <2>2. \A k \in 1..Len(poll_fds) : poll_fds[k] \in PollEntries
    BY <2>1, ElementOfSeq
  <2>3. \A fd : Readable(fd) \in BOOLEAN
    BY DEF Readable
  <2>4. \A k \in 1..Len(poll_fds) : 
          [fd |-> poll_fds[k].fd, revents |-> Readable(poll_fds[k].fd)] \in PollEntries
    BY <2>2, <2>3 DEF PollEntries
  <2>5. poll_fds' \in [1..Len(poll_fds) -> PollEntries]
    BY <2>4 DEF Poll
  <2>6. poll_fds' \in Seq(PollEntries) /\ Len(poll_fds') = Len(poll_fds)
    BY <2>1, <2>5, TupleIsSeq
  <2> QED BY <2>6 DEF Poll
<1>3. TypeOK'
  BY <1>1, <1>2 DEF IInv, TypeOK, TableTypes, KernelTypes, StreamTypes, ClientTypes, Poll
<1>4. SessionTables'
  BY <1>2, SameDescriptors DEF IInv, Poll
<1>5. ClientsKnown'
  BY SameClients DEF IInv, Poll
<1>6. TurnState'
  BY DEF IInv, TurnState, Poll, Ready
<1> QED BY <1>3, <1>4, <1>5, <1>6 DEF IInv

\* Reading a line moves lines between the descriptor and the buffer.
LEMMA GetLineType ==
    ASSUME KernelTypes, GetLine
    PROVE  stdin' \in [waiting : Seq(Lines), buffered : Seq(Lines)]
<1>1. stdin \in [waiting : Seq(Lines), buffered : Seq(Lines)]
  BY DEF KernelTypes
<1>2. CASE stdin.buffered # <<>>
  BY <1>1, <1>2, HeadTailProperties DEF GetLine
<1>3. CASE stdin.buffered = <<>>
  <2>1. PICK n \in 1..Len(stdin.waiting) :
           stdin' = [waiting  |-> SubSeq(stdin.waiting, n+1, Len(stdin.waiting)),
                     buffered |-> SubSeq(stdin.waiting, 2, n)]
    BY <1>3 DEF GetLine
  <2> QED BY <1>1, <2>1, SubSeqProperties, LenProperties
<1> QED BY <1>2, <1>3

LEMMA HandleStdinKeeps == IInv /\ HandleStdin => IInv'
<1> SUFFICES ASSUME IInv, HandleStdin PROVE IInv'
  OBVIOUS
<1>1. LoopTypes'
  BY DEF IInv, TypeOK, LoopTypes, HandleStdin
<1>2. KernelTypes'
  <2>1. link' \in [Subs -> {"none", "queued", "open", "closed"}]
    BY DEF IInv, TypeOK, KernelTypes, HandleStdin, CloseAll
  <2>2. stdin' \in [waiting : Seq(Lines), buffered : Seq(Lines)]
    BY GetLineType DEF IInv, TypeOK, HandleStdin
  <2> QED BY <2>1, <2>2 DEF IInv, TypeOK, KernelTypes, HandleStdin
<1>3. TypeOK'
  BY <1>1, <1>2 DEF IInv, TypeOK, TableTypes, StreamTypes, ClientTypes, HandleStdin
<1>4. SessionTables'
  BY SameSessions DEF IInv, HandleStdin
<1>5. ClientsKnown'
  BY SameClients DEF IInv, HandleStdin
<1>6. TurnState'
  BY DEF IInv, TurnState, HandleStdin
<1> QED BY <1>3, <1>4, <1>5, <1>6 DEF IInv

LEMMA NoInputKeeps == IInv /\ NoInput => IInv'
<1> SUFFICES ASSUME IInv, NoInput PROVE IInv'
  OBVIOUS
<1>1. TypeOK'
  BY DEF IInv, TypeOK, LoopTypes, TableTypes, KernelTypes, StreamTypes, ClientTypes, NoInput
<1>2. SessionTables' /\ ClientsKnown'
  BY SameSessions, SameClients DEF IInv, NoInput
<1>3. TurnState'
  BY DEF IInv, TurnState, NoInput
<1> QED BY <1>1, <1>2, <1>3 DEF IInv

------------------------------------------------------------------------------
(* The UDP loop *)

LEMMA RecvDatagramKeeps == IInv /\ RecvDatagram => IInv'
<1> SUFFICES ASSUME IInv, RecvDatagram PROVE IInv'
  OBVIOUS
<1>1. Head(udp) \in Messages /\ Tail(udp) \in Seq(Messages)
  BY HeadTailProperties DEF IInv, TypeOK, KernelTypes, RecvDatagram
<1>2. FindSubscribers(trie, Head(udp).topic) \in SUBSET Ids
  BY FindType DEF IInv, TypeOK, TableTypes
<1>3. LoopTypes'
  BY <1>1, <1>2 DEF IInv, TypeOK, LoopTypes, RecvDatagram
<1>4. KernelTypes'
  BY <1>1 DEF IInv, TypeOK, KernelTypes, RecvDatagram
<1>5. TypeOK'
  BY <1>3, <1>4 DEF IInv, TypeOK, TableTypes, StreamTypes, ClientTypes, RecvDatagram
<1>6. SessionTables'
  BY SameSessions DEF IInv, RecvDatagram
<1>7. ClientsKnown'
  BY SameClients DEF IInv, RecvDatagram
<1>8. TurnState'
  BY <1>1 DEF IInv, TurnState, RecvDatagram
<1> QED BY <1>5, <1>6, <1>7, <1>8 DEF IInv

LEMMA UdpDrainedKeeps == IInv /\ UdpDrained => IInv'
<1> SUFFICES ASSUME IInv, UdpDrained PROVE IInv'
  OBVIOUS
<1>1. LoopTypes'
  BY DEF IInv, TypeOK, LoopTypes, UdpDrained
<1>2. TypeOK'
  BY <1>1 DEF IInv, TypeOK, TableTypes, KernelTypes, StreamTypes, ClientTypes, UdpDrained
<1>3. SessionTables'
  BY SameSessions DEF IInv, UdpDrained
<1>4. ClientsKnown'
  BY SameClients DEF IInv, UdpDrained
<1>5. TurnState'
  BY DEF IInv, TurnState, UdpDrained
<1> QED BY <1>2, <1>3, <1>4, <1>5 DEF IInv

\* A send appends one frame to a stream or fails.
LEMMA SendType ==
    ASSUME StreamTypes, NEW fd, NEW frame \in Frames, Send(fd, frame), UNCHANGED up
    PROVE  StreamTypes'
<1>1. \A s \in Subs : Append(sent[s], frame) \in Seq(Frames)
  BY AppendProperties DEF StreamTypes
<1>2. sent' \in [Subs -> Seq(Frames)]
  BY <1>1 DEF StreamTypes, Send, Put
<1> QED BY <1>2 DEF StreamTypes

LEMMA RouteToKeeps == ASSUME NEW c \in Ids PROVE IInv /\ RouteTo(c) => IInv'
<1> SUFFICES ASSUME IInv, RouteTo(c) PROVE IInv'
  OBVIOUS
<1>1. LoopTypes'
  BY DEF IInv, TypeOK, LoopTypes, RouteTo
<1>2. MessageFrame(message) \in Frames
  <2>1. message \in Messages
    BY DEF IInv, TurnState, RouteTo
  <2> QED BY <2>1 DEF Messages, MessageFrame, Frames
<1>3. StreamTypes'
  <2>1. CASE UNCHANGED sent
    BY <2>1 DEF IInv, TypeOK, StreamTypes, RouteTo
  <2>2. CASE Send(subscribers[c].sockfd, MessageFrame(message))
    BY <2>2, <1>2, SendType DEF IInv, TypeOK, RouteTo
  <2> QED BY <2>1, <2>2 DEF RouteTo
<1>4. TypeOK'
  BY <1>1, <1>3 DEF IInv, TypeOK, TableTypes, KernelTypes, ClientTypes, RouteTo
<1>5. SessionTables'
  BY SameSessions DEF IInv, RouteTo
<1>6. ClientsKnown'
  BY SameClients DEF IInv, RouteTo
<1>7. TurnState'
  BY DEF IInv, TurnState, RouteTo
<1> QED BY <1>4, <1>5, <1>6, <1>7 DEF IInv

------------------------------------------------------------------------------
(* New connections *)

LEMMA AcceptKeeps == IInv /\ Accept => IInv'
<1> SUFFICES ASSUME IInv, Accept PROVE IInv'
  OBVIOUS
<1> DEFINE s == Head(backlog)
<1>1. PICK fd \in FreeFds : new_socket' = fd /\ sockets' = [sockets EXCEPT ![fd] = s]
  BY DEF Accept
<1>2. fd \in Fds /\ sockets[fd] = None
  BY <1>1 DEF FreeFds
<1>3. backlog \in Seq(Subs) /\ backlog # <<>>
  BY DEF IInv, TypeOK, KernelTypes, TurnState, Accept
<1>4. /\ s \in Subs /\ Tail(backlog) \in Seq(Subs)
      /\ Len(Tail(backlog)) = Len(backlog) - 1
      /\ \A k \in 1..Len(Tail(backlog)) : Tail(backlog)[k] = backlog[k+1]
      /\ Len(backlog) \in Nat \ {0}
  BY <1>3, HeadTailProperties, EmptySeq
<1>5. client_id[s] # None /\ \A k \in 1..Len(Tail(backlog)) : client_id[Tail(backlog)[k]] # None
  <2>1. s = backlog[1]
    BY <1>3
  <2> QED BY <1>4, <2>1 DEF IInv, ClientsKnown
<1>6. connected_subscribers[fd] = None
  BY <1>2, ConstantsAssumption DEF IInv, SessionTables, FdsMatchClients
<1> HIDE DEF s
<1>7. LoopTypes'
  BY <1>1, <1>2 DEF IInv, TypeOK, LoopTypes, Accept
<1>8. KernelTypes'
  BY <1>1, <1>2, <1>4 DEF IInv, TypeOK, KernelTypes, Accept, s
<1>9. TypeOK'
  BY <1>7, <1>8 DEF IInv, TypeOK, TableTypes, StreamTypes, ClientTypes, Accept
<1>10. SessionTables'
  <2>1. PolledOnce'
    BY DEF IInv, SessionTables, PolledOnce, Accept
  <2>2. PolledAreConnected'
    BY DEF IInv, SessionTables, PolledAreConnected, PolledFds, Accept
  <2>3. IdsMatchFds'
    BY DEF IInv, SessionTables, IdsMatchFds, Accept
  <2>4. FdsMatchClients'
    <3>1. \A g \in Fds : connected_subscribers[g] # None => sockets'[g] = sockets[g]
      BY <1>1, <1>6 DEF IInv, TypeOK, KernelTypes
    <3> QED BY <3>1 DEF IInv, SessionTables, FdsMatchClients, Accept
  <2> QED BY <2>1, <2>2, <2>3, <2>4 DEF SessionTables
<1>11. ClientsKnown'
  BY <1>1, <1>5 DEF IInv, ClientsKnown, TypeOK, KernelTypes, Accept
<1>12. TurnState'
  <2>1. sockets'[fd] # None
    BY <1>1, <1>2, <1>4, ConstantsAssumption DEF IInv, TypeOK, KernelTypes
  <2> QED BY <1>1, <1>2, <1>6, <2>1 DEF IInv, TurnState, Accept
<1> QED BY <1>9, <1>10, <1>11, <1>12 DEF IInv

LEMMA NoAcceptKeeps == IInv /\ NoAccept => IInv'
<1> SUFFICES ASSUME IInv, NoAccept PROVE IInv'
  OBVIOUS
<1>1. LoopTypes'
  <2>1. revents' \in [stdin : BOOLEAN, udp : BOOLEAN, listener : BOOLEAN]
    BY DEF IInv, TypeOK, LoopTypes, NoAccept
  <2> QED BY <2>1 DEF IInv, TypeOK, LoopTypes, NoAccept
<1>2. TypeOK'
  BY <1>1 DEF IInv, TypeOK, TableTypes, KernelTypes, StreamTypes, ClientTypes, NoAccept
<1>3. SessionTables'
  BY SameSessions DEF IInv, NoAccept
<1>4. ClientsKnown'
  BY SameClients DEF IInv, NoAccept
<1>5. TurnState'
  BY DEF IInv, TurnState, NoAccept
<1> QED BY <1>2, <1>3, <1>4, <1>5 DEF IInv

\* While the loop waits for an id, the new socket leads to a client that is
\* known and has no session on that socket.
LEMMA Handshaking ==
    ASSUME IInv, pc = "readid"
    PROVE  /\ new_socket \in Fds /\ connected_subscribers[new_socket] = None
           /\ NewSub \in Subs /\ client_id[NewSub] \in Ids
<1>1. new_socket \in Fds /\ sockets[new_socket] # None /\ connected_subscribers[new_socket] = None
  BY DEF IInv, TurnState
<1>2. NewSub \in Subs
  BY <1>1 DEF NewSub, IInv, TypeOK, KernelTypes
<1>3. client_id[NewSub] \in Ids
  BY <1>1, <1>2 DEF NewSub, IInv, TypeOK, ClientTypes, ClientsKnown
<1> QED BY <1>1, <1>2, <1>3

\* Taking the first entry from what a connection holds for the server.
LEMMA TakeType ==
    ASSUME StreamTypes, NEW s \in Subs, up[s] # <<>>, up' = [up EXCEPT ![s] = Tail(@)]
    PROVE  /\ up' \in [Subs -> Seq(Requests \cup {Hello})]
           /\ Head(up[s]) \in Requests \cup {Hello}
<1>1. up[s] \in Seq(Requests \cup {Hello})
  BY DEF StreamTypes
<1>2. Head(up[s]) \in Requests \cup {Hello} /\ Tail(up[s]) \in Seq(Requests \cup {Hello})
  BY <1>1, HeadTailProperties
<1> QED BY <1>2 DEF StreamTypes

LEMMA RefuseClientKeeps == IInv /\ RefuseClient => IInv'
<1> SUFFICES ASSUME IInv, RefuseClient PROVE IInv'
  OBVIOUS
<1>1. /\ new_socket \in Fds /\ connected_subscribers[new_socket] = None /\ NewSub \in Subs
  BY Handshaking DEF RefuseClient
<1>2. /\ sockets' = [sockets EXCEPT ![new_socket] = None]
      /\ link' = [link EXCEPT ![NewSub] = "closed"]
  BY DEF RefuseClient, CloseNewSocket
<1>3. LoopTypes'
  BY DEF IInv, TypeOK, LoopTypes, RefuseClient
<1>4. KernelTypes'
  BY <1>1, <1>2 DEF IInv, TypeOK, KernelTypes, RefuseClient
<1>5. StreamTypes'
  BY <1>1, TakeType DEF IInv, TypeOK, StreamTypes, RefuseClient
<1>6. TypeOK'
  BY <1>3, <1>4, <1>5 DEF IInv, TypeOK, TableTypes, ClientTypes, RefuseClient
<1>7. SessionTables'
  <2>1. PolledOnce'
    BY DEF IInv, SessionTables, PolledOnce, RefuseClient
  <2>2. PolledAreConnected'
    BY DEF IInv, SessionTables, PolledAreConnected, PolledFds, RefuseClient
  <2>3. IdsMatchFds'
    BY DEF IInv, SessionTables, IdsMatchFds, RefuseClient
  <2>4. FdsMatchClients'
    <3>1. \A g \in Fds : connected_subscribers[g] # None => sockets'[g] = sockets[g]
      BY <1>1, <1>2 DEF IInv, TypeOK, KernelTypes
    <3> QED BY <3>1 DEF IInv, SessionTables, FdsMatchClients, RefuseClient
  <2> QED BY <2>1, <2>2, <2>3, <2>4 DEF SessionTables
<1>8. ClientsKnown'
  BY <1>2 DEF IInv, ClientsKnown, TypeOK, KernelTypes, RefuseClient
<1>9. TurnState'
  BY DEF IInv, TurnState, RefuseClient
<1> QED BY <1>6, <1>7, <1>8, <1>9 DEF IInv

LEMMA RegisterClientKeeps == IInv /\ RegisterClient => IInv'
<1> SUFFICES ASSUME IInv, RegisterClient PROVE IInv'
  OBVIOUS
<1> DEFINE c == client_id[NewSub]
<1>1. /\ new_socket \in Fds /\ connected_subscribers[new_socket] = None
      /\ NewSub \in Subs /\ c \in Ids
  BY Handshaking DEF RegisterClient
<1>2. /\ ~subscribers[c].connected
      /\ subscribers' = [subscribers EXCEPT ![c].connected = TRUE, ![c].sockfd = new_socket]
      /\ connected_subscribers' = [connected_subscribers EXCEPT ![new_socket] = c]
      /\ UNCHANGED <<sockets, client_id, trie>>
  BY DEF RegisterClient, Taken
<1>3. PICK garbage \in BOOLEAN :
        poll_fds' = Append(poll_fds, [fd |-> new_socket, revents |-> garbage])
  BY DEF RegisterClient
<1> DEFINE entry == [fd |-> new_socket, revents |-> garbage]
<1>4. /\ poll_fds' \in Seq(PollEntries)
      /\ Len(poll_fds') = Len(poll_fds) + 1 /\ Len(poll_fds) \in Nat
      /\ \A k \in 1..Len(poll_fds) : poll_fds'[k] = poll_fds[k]
      /\ poll_fds'[Len(poll_fds) + 1].fd = new_socket
  <2>1. entry \in PollEntries /\ poll_fds \in Seq(PollEntries)
    BY <1>1 DEF PollEntries, IInv, TypeOK, TableTypes
  <2>2. Len(poll_fds) \in Nat
    BY <2>1, LenProperties
  <2>3. poll_fds' = Append(poll_fds, entry) /\ entry.fd = new_socket
    BY <1>3
  <2> HIDE DEF entry
  <2> QED BY <2>1, <2>2, <2>3, AppendProperties
<1> HIDE DEF c, entry
<1>5. LoopTypes'
  BY DEF IInv, TypeOK, LoopTypes, RegisterClient
<1>6. TableTypes'
  <2> DEFINE Entry == [connected : BOOLEAN, sockfd : Fds \cup {0}, topics : SUBSET Patterns]
  <2>1. subscribers \in [Ids -> Entry]
    BY DEF IInv, TypeOK, TableTypes
  <2>2. subscribers' = [subscribers EXCEPT ![c] = [@ EXCEPT !.connected = TRUE, !.sockfd = new_socket]]
    BY <1>2
  <2>3. [subscribers[c] EXCEPT !.connected = TRUE, !.sockfd = new_socket] \in Entry
    BY <1>1, <2>1
  <2>4. subscribers' \in [Ids -> Entry]
    BY <2>1, <2>2, <2>3
  <2>5. connected_subscribers' \in [Fds -> Ids \cup {None}]
    BY <1>1, <1>2 DEF IInv, TypeOK, TableTypes
  <2> QED BY <1>2, <1>4, <2>4, <2>5 DEF IInv, TypeOK, TableTypes
<1>7. StreamTypes'
  BY <1>1, TakeType DEF IInv, TypeOK, StreamTypes, RegisterClient
<1>8. TypeOK'
  BY <1>5, <1>6, <1>7 DEF IInv, TypeOK, KernelTypes, ClientTypes, RegisterClient
<1>9. SessionTables'
  <2>1. new_socket \notin PolledFds
    BY <1>1 DEF IInv, SessionTables, PolledAreConnected
  <2>2. PolledOnce'
    <3>1. \A k \in 1..Len(poll_fds) : poll_fds'[k].fd # poll_fds'[Len(poll_fds) + 1].fd
      BY <1>4, <2>1 DEF PolledFds
    <3>2. \A j, k \in 1..Len(poll_fds) : poll_fds'[j].fd = poll_fds'[k].fd => j = k
      BY <1>4 DEF IInv, SessionTables, PolledOnce
    <3>3. \A k \in 1..Len(poll_fds') : k \in 1..Len(poll_fds) \/ k = Len(poll_fds) + 1
      BY <1>4
    <3> QED BY <3>1, <3>2, <3>3 DEF PolledOnce
  <2>3. PolledAreConnected'
    <3>1. PolledFds' = PolledFds \cup {new_socket}
      BY <1>4 DEF PolledFds
    <3>2. \A fd \in Fds : connected_subscribers'[fd] # None
                            <=> connected_subscribers[fd] # None \/ fd = new_socket
      BY <1>1, <1>2, ConstantsAssumption DEF IInv, TypeOK, TableTypes
    <3> QED BY <1>1, <3>1, <3>2 DEF IInv, SessionTables, PolledAreConnected
  <2>4. IdsMatchFds'
    <3> SUFFICES ASSUME NEW fd \in Fds, NEW d \in Ids
                 PROVE  connected_subscribers'[fd] = d
                          <=> subscribers'[d].connected /\ subscribers'[d].sockfd = fd
      BY DEF IdsMatchFds
    <3>1. CASE d = c
      <4>1. subscribers'[d].connected /\ subscribers'[d].sockfd = new_socket
        BY <1>1, <1>2, <3>1 DEF IInv, TypeOK, TableTypes
      <4>2. connected_subscribers[fd] # c
        BY <1>1, <1>2 DEF IInv, SessionTables, IdsMatchFds
      <4> QED BY <1>1, <1>2, <3>1, <4>1, <4>2 DEF IInv, TypeOK, TableTypes
    <3>2. CASE d # c
      <4>1. subscribers'[d] = subscribers[d]
        BY <1>2, <3>2 DEF IInv, TypeOK, TableTypes
      <4>2. connected_subscribers'[fd] = d <=> connected_subscribers[fd] = d
        BY <1>1, <1>2, <3>2, ConstantsAssumption DEF IInv, TypeOK, TableTypes
      <4> QED BY <4>1, <4>2 DEF IInv, SessionTables, IdsMatchFds
    <3> QED BY <3>1, <3>2
  <2>5. FdsMatchClients'
    <3>1. \A fd \in Fds : IF fd = new_socket THEN connected_subscribers'[fd] = c
                             ELSE connected_subscribers'[fd] = connected_subscribers[fd]
      BY <1>1, <1>2 DEF IInv, TypeOK, TableTypes
    <3>2. NewSub = sockets[new_socket]
      BY DEF NewSub
    <3> QED BY <1>1, <1>2, <3>1, <3>2 DEF IInv, SessionTables, FdsMatchClients, c
  <2> QED BY <2>2, <2>3, <2>4, <2>5 DEF SessionTables
<1>10. ClientsKnown'
  BY SameClients DEF IInv, RegisterClient
<1>11. TurnState'
  BY DEF IInv, TurnState, RegisterClient
<1> QED BY <1>8, <1>9, <1>10, <1>11 DEF IInv

------------------------------------------------------------------------------
(* The scan of the connected clients *)

LEMMA NextClientKeeps == IInv /\ NextClient => IInv'
<1> SUFFICES ASSUME IInv, NextClient PROVE IInv'
  OBVIOUS
<1>1. LoopTypes'
  BY DEF IInv, TypeOK, LoopTypes, NextClient
<1>2. TypeOK'
  BY <1>1 DEF IInv, TypeOK, TableTypes, KernelTypes, StreamTypes, ClientTypes, NextClient
<1>3. SessionTables'
  BY SameSessions DEF IInv, NextClient
<1>4. ClientsKnown'
  BY SameClients DEF IInv, NextClient
<1>5. TurnState'
  BY DEF IInv, TurnState, NextClient
<1> QED BY <1>2, <1>3, <1>4, <1>5 DEF IInv

LEMMA ScanDoneKeeps == IInv /\ ScanDone => IInv'
<1> SUFFICES ASSUME IInv, ScanDone PROVE IInv'
  OBVIOUS
<1>1. LoopTypes'
  BY DEF IInv, TypeOK, LoopTypes, ScanDone
<1>2. /\ Len(poll_fds') = Len(poll_fds)
      /\ \A k \in 1..Len(poll_fds) : poll_fds'[k].fd = poll_fds[k].fd
      /\ poll_fds' \in Seq(PollEntries)
  <2>1. poll_fds \in Seq(PollEntries) /\ Len(poll_fds) \in Nat
    BY LenProperties DEF IInv, TypeOK, TableTypes
  <2>2. \A k \in 1..Len(poll_fds) : [fd |-> poll_fds[k].fd, revents |-> FALSE] \in PollEntries
    BY <2>1, ElementOfSeq DEF PollEntries
  <2>3. poll_fds' \in [1..Len(poll_fds) -> PollEntries]
    BY <2>2 DEF ScanDone
  <2>4. poll_fds' \in Seq(PollEntries) /\ Len(poll_fds') = Len(poll_fds)
    BY <2>1, <2>3, TupleIsSeq
  <2> QED BY <2>4 DEF ScanDone
<1>3. TypeOK'
  BY <1>1, <1>2 DEF IInv, TypeOK, TableTypes, KernelTypes, StreamTypes, ClientTypes, ScanDone
<1>4. SessionTables'
  BY <1>2, SameDescriptors DEF IInv, ScanDone
<1>5. ClientsKnown'
  BY SameClients DEF IInv, ScanDone
<1>6. TurnState'
  BY DEF IInv, TurnState, ScanDone
<1> QED BY <1>3, <1>4, <1>5, <1>6 DEF IInv

\* The entry the scan has reached leads to a connected id and to its client.
LEMMA ScannedClient ==
    ASSUME IInv, Scanning
    PROVE  /\ i \in 1..Len(poll_fds) /\ poll_fds \in Seq(PollEntries)
           /\ ThisFd \in Fds /\ ThisFd \in PolledFds
           /\ ThisId \in Ids /\ ThisSub \in Subs
<1>1. i \in 1..Len(poll_fds) /\ poll_fds \in Seq(PollEntries)
  BY DEF Scanning, IInv, TypeOK, LoopTypes, TableTypes
<1>2. ThisFd \in PolledFds
  BY <1>1 DEF ThisFd, PolledFds
<1>3. ThisFd \in Fds /\ ThisId # None
  BY <1>2 DEF ThisId, IInv, SessionTables, PolledAreConnected
<1>4. ThisId \in Ids
  BY <1>3 DEF ThisId, IInv, TypeOK, TableTypes
<1>5. ThisSub \in Subs
  BY <1>3 DEF ThisSub, ThisId, IInv, SessionTables, FdsMatchClients
<1> QED BY <1>1, <1>2, <1>3, <1>4, <1>5

\* Both operations of the trie return a trie.
LEMMA TrieType ==
    ASSUME NEW t, t \in [DOMAIN t -> SUBSET Ids], NEW topic, NEW c \in Ids
    PROVE  /\ AddSubscription(t, topic, c) \in
                [DOMAIN AddSubscription(t, topic, c) -> SUBSET Ids]
           /\ RemoveSubscription(t, topic, c) \in
                [DOMAIN RemoveSubscription(t, topic, c) -> SUBSET Ids]
<1>1. \A node : IdsAt(t, node) \in SUBSET Ids
  BY DEF IdsAt
<1>2. AddSubscription(t, topic, c) \in [DOMAIN AddSubscription(t, topic, c) -> SUBSET Ids]
  BY <1>1 DEF AddSubscription
<1>3. RemoveSubscription(t, topic, c) \in [DOMAIN RemoveSubscription(t, topic, c) -> SUBSET Ids]
  <2> DEFINE tokens == SplitTopic(topic)
             erased == [t EXCEPT ![tokens] = @ \ {c}]
             kept == {node \in DOMAIN t :
                        \A gone \in Pruned(erased, tokens) : ~IsPrefix(gone, node)}
  <2>1. erased \in [DOMAIN t -> SUBSET Ids]
    OBVIOUS
  <2>2. kept \subseteq DOMAIN t
    OBVIOUS
  <2>3. [node \in kept |-> erased[node]] \in [kept -> SUBSET Ids]
    BY <2>1, <2>2
  <2>4. RemoveSubscription(t, topic, c) =
          IF tokens \in DOMAIN t THEN [node \in kept |-> erased[node]] ELSE t
    BY DEF RemoveSubscription
  <2> HIDE DEF erased, kept
  <2> QED BY <2>3, <2>4
<1> QED BY <1>2, <1>3

LEMMA HandleRequestKeeps == IInv /\ HandleRequest => IInv'
<1> SUFFICES ASSUME IInv, HandleRequest PROVE IInv'
  OBVIOUS
<1> DEFINE request == Head(up[ThisSub])
<1>1. ThisId \in Ids /\ ThisSub \in Subs
  BY ScannedClient DEF HandleRequest, HasRequest
<1>2. /\ up[ThisSub] # <<>> /\ up' = [up EXCEPT ![ThisSub] = Tail(@)]
      /\ \/ /\ Applies(ThisId, request)
            /\ UpdateTopics(ThisId, request)
            /\ UpdateTrie(ThisId, request)
            /\ Send(subscribers[ThisId].sockfd, AckFrame(request))
         \/ UNCHANGED <<subscribers, trie, sent>>
  BY DEF HandleRequest, HasRequest
<1>3. /\ up' \in [Subs -> Seq(Requests \cup {Hello})]
      /\ request \in Requests \cup {Hello}
  BY <1>1, <1>2, TakeType DEF IInv, TypeOK
<1> HIDE DEF request
<1> DEFINE Entry == [connected : BOOLEAN, sockfd : Fds \cup {0}, topics : SUBSET Patterns]
<1>4. subscribers \in [Ids -> Entry]
  BY DEF IInv, TypeOK, TableTypes
<1>5. Applies(ThisId, request) => request \in Requests
  <2>1. <<>> \notin Patterns
    BY TopicsAssumption
  <2>2. subscribers[ThisId].topics \subseteq Patterns
    BY <1>1, <1>4
  <2> QED BY <1>3, <2>1, <2>2 DEF Applies, Hello
<1>6. ASSUME request \in Requests, UpdateTopics(ThisId, request)
      PROVE  /\ subscribers' \in [Ids -> Entry]
             /\ \A c \in Ids : /\ subscribers'[c].connected = subscribers[c].connected
                               /\ subscribers'[c].sockfd = subscribers[c].sockfd
  <2> DEFINE topics == IF request.op = "subscribe"
                          THEN subscribers[ThisId].topics \cup {request.topic}
                          ELSE subscribers[ThisId].topics \ {request.topic}
  <2>1. topics \in SUBSET Patterns
    BY <1>1, <1>4, <1>6 DEF Requests
  <2>2. subscribers' = [subscribers EXCEPT ![ThisId] = [@ EXCEPT !.topics = topics]]
    BY <1>6 DEF UpdateTopics
  <2> HIDE DEF topics
  <2>3. [subscribers[ThisId] EXCEPT !.topics = topics] \in Entry
    BY <1>1, <1>4, <2>1
  <2> QED BY <1>1, <1>4, <2>2, <2>3
<1>7. /\ subscribers' \in [Ids -> Entry]
      /\ \A c \in Ids : /\ subscribers'[c].connected = subscribers[c].connected
                        /\ subscribers'[c].sockfd = subscribers[c].sockfd
  BY <1>2, <1>4, <1>5, <1>6
<1>8. trie' \in [DOMAIN trie' -> SUBSET Ids]
  <2>1. trie \in [DOMAIN trie -> SUBSET Ids]
    BY DEF IInv, TypeOK, TableTypes
  <2>2. CASE UpdateTrie(ThisId, request)
    BY <1>1, <2>1, <2>2, TrieType DEF UpdateTrie
  <2>3. CASE UNCHANGED trie
    BY <2>1, <2>3
  <2> QED BY <1>2, <2>2, <2>3
<1>9. sent' \in [Subs -> Seq(Frames)]
  <2>1. sent \in [Subs -> Seq(Frames)]
    BY DEF IInv, TypeOK, StreamTypes
  <2>2. ASSUME request \in Requests, Send(subscribers[ThisId].sockfd, AckFrame(request))
        PROVE  sent' \in [Subs -> Seq(Frames)]
    <3>1. AckFrame(request) \in Frames
      BY <2>2 DEF AckFrame, Requests, Frames
    <3>2. \A s \in Subs : Append(sent[s], AckFrame(request)) \in Seq(Frames)
      BY <2>1, <3>1, AppendProperties
    <3> QED BY <2>1, <2>2, <3>2 DEF Send, Put
  <2> QED BY <1>2, <1>5, <2>1, <2>2
<1>10. LoopTypes'
  BY DEF IInv, TypeOK, LoopTypes, HandleRequest
<1>11. TypeOK'
  BY <1>3, <1>7, <1>8, <1>9, <1>10
     DEF IInv, TypeOK, TableTypes, KernelTypes, StreamTypes, ClientTypes, HandleRequest
<1>12. SessionTables'
  BY <1>7, SameDescriptors DEF IInv, HandleRequest
<1>13. ClientsKnown'
  BY SameClients DEF IInv, HandleRequest
<1>14. TurnState'
  BY DEF IInv, TurnState, HandleRequest
<1> QED BY <1>11, <1>12, <1>13, <1>14 DEF IInv

\* Removing an entry keeps the others, and their order.
LEMMA Removal ==
    ASSUME NEW S, NEW seq \in Seq(S), NEW n \in 1..Len(seq)
    PROVE  /\ RemoveAt(seq, n) \in Seq(S)
           /\ Len(RemoveAt(seq, n)) = Len(seq) - 1
           /\ \A k \in 1..Len(seq)-1 :
                RemoveAt(seq, n)[k] = IF k < n THEN seq[k] ELSE seq[k+1]
<1>1. Len(seq) \in Nat /\ \A k \in 1..Len(seq) : seq[k] \in S
  BY LenProperties, ElementOfSeq
<1>2. /\ SubSeq(seq, 1, n-1) \in Seq(S) /\ Len(SubSeq(seq, 1, n-1)) = n - 1
      /\ \A k \in 1..n-1 : SubSeq(seq, 1, n-1)[k] = seq[k]
  BY <1>1, SubSeqProperties
<1>3. /\ SubSeq(seq, n+1, Len(seq)) \in Seq(S)
      /\ Len(SubSeq(seq, n+1, Len(seq))) = Len(seq) - n
      /\ \A k \in 1..Len(seq)-n : SubSeq(seq, n+1, Len(seq))[k] = seq[n+k]
  BY <1>1, SubSeqProperties
<1> DEFINE front == SubSeq(seq, 1, n-1)
           rest == SubSeq(seq, n+1, Len(seq))
<1>4. RemoveAt(seq, n) = front \o rest
  BY DEF RemoveAt
<1>5. /\ front \in Seq(S) /\ Len(front) = n - 1
      /\ \A k \in 1..n-1 : front[k] = seq[k]
      /\ rest \in Seq(S) /\ Len(rest) = Len(seq) - n
      /\ \A k \in 1..Len(seq)-n : rest[k] = seq[n+k]
  BY <1>2, <1>3
<1> HIDE DEF front, rest
<1>6. /\ front \o rest \in Seq(S) /\ Len(front \o rest) = Len(front) + Len(rest)
      /\ \A k \in 1..Len(front) + Len(rest) :
           (front \o rest)[k] = IF k <= Len(front) THEN front[k] ELSE rest[k - Len(front)]
  BY <1>5, ConcatProperties
<1>7. ASSUME NEW k \in 1..Len(seq)-1
      PROVE  (front \o rest)[k] = IF k < n THEN seq[k] ELSE seq[k+1]
  <2>1. (front \o rest)[k] = IF k <= n-1 THEN front[k] ELSE rest[k - (n-1)]
    BY <1>1, <1>5, <1>6
  <2>2. CASE k < n
    BY <1>1, <1>5, <2>1, <2>2
  <2>3. CASE ~(k < n)
    <3>1. k - (n-1) \in 1..Len(seq)-n /\ n + (k - (n-1)) = k + 1
      BY <1>1, <2>3
    <3>2. rest[k - (n-1)] = seq[n + (k - (n-1))]
      BY <1>5, <3>1
    <3>3. rest[k - (n-1)] = seq[k+1]
      BY <3>1, <3>2
    <3>4. ~(k <= n-1)
      BY <1>1, <2>3
    <3>5. (front \o rest)[k] = rest[k - (n-1)]
      BY <2>1, <3>4
    <3> QED BY <2>3, <3>3, <3>5
  <2> QED BY <2>2, <2>3
<1>8. Len(front \o rest) = Len(seq) - 1
  BY <1>1, <1>5, <1>6
<1> QED BY <1>4, <1>6, <1>7, <1>8

LEMMA DisconnectKeeps == IInv /\ Disconnect => IInv'
<1> SUFFICES ASSUME IInv, Disconnect PROVE IInv'
  OBVIOUS
<1>1. /\ i \in 1..Len(poll_fds) /\ poll_fds \in Seq(PollEntries)
      /\ ThisFd \in Fds /\ ThisFd \in PolledFds /\ ThisId \in Ids /\ ThisSub \in Subs
  BY ScannedClient DEF Disconnect
<1>2. /\ subscribers' = [subscribers EXCEPT ![ThisId].connected = FALSE]
      /\ connected_subscribers' = [connected_subscribers EXCEPT ![ThisFd] = None]
      /\ poll_fds' = RemoveAt(poll_fds, i)
      /\ sockets' = [sockets EXCEPT ![ThisFd] = None]
      /\ link' = [link EXCEPT ![ThisSub] = "closed"]
      /\ UNCHANGED <<trie, client_id, phase, backlog, stdin, udp>>
  BY DEF Disconnect, MarkDisconnected
<1>3. /\ poll_fds' \in Seq(PollEntries)
      /\ Len(poll_fds') = Len(poll_fds) - 1 /\ Len(poll_fds) \in Nat
      /\ \A k \in 1..Len(poll_fds)-1 :
           poll_fds'[k] = IF k < i THEN poll_fds[k] ELSE poll_fds[k+1]
  BY <1>1, <1>2, Removal, LenProperties
<1>4. TableTypes'
  <2> DEFINE Entry == [connected : BOOLEAN, sockfd : Fds \cup {0}, topics : SUBSET Patterns]
  <2>1. subscribers \in [Ids -> Entry]
    BY DEF IInv, TypeOK, TableTypes
  <2>2. [subscribers[ThisId] EXCEPT !.connected = FALSE] \in Entry
    BY <1>1, <2>1
  <2>3. subscribers' \in [Ids -> Entry]
    BY <1>2, <2>1, <2>2
  <2>4. connected_subscribers' \in [Fds -> Ids \cup {None}]
    BY <1>1, <1>2 DEF IInv, TypeOK, TableTypes
  <2> QED BY <1>2, <1>3, <2>3, <2>4 DEF IInv, TypeOK, TableTypes
<1>5. KernelTypes'
  BY <1>1, <1>2 DEF IInv, TypeOK, KernelTypes
<1>6. LoopTypes'
  BY DEF IInv, TypeOK, LoopTypes, Disconnect
<1>7. TypeOK'
  BY <1>4, <1>5, <1>6 DEF IInv, TypeOK, StreamTypes, ClientTypes, Disconnect
<1>8. SessionTables'
  <2>1. \A j, k \in 1..Len(poll_fds) : poll_fds[j].fd = poll_fds[k].fd => j = k
    BY DEF IInv, SessionTables, PolledOnce
  <2>2. PolledOnce'
    BY <1>1, <1>3, <2>1 DEF PolledOnce
  <2>3. PolledFds' = PolledFds \ {ThisFd}
    <3>1. ASSUME NEW k \in 1..Len(poll_fds) - 1
          PROVE  poll_fds'[k].fd \in PolledFds \ {ThisFd}
      BY <1>1, <1>3, <2>1 DEF PolledFds, ThisFd
    <3>2. ASSUME NEW k \in 1..Len(poll_fds), poll_fds[k].fd # ThisFd
          PROVE  \E j \in 1..Len(poll_fds) - 1 : poll_fds'[j].fd = poll_fds[k].fd
      <4>1. CASE k < i
        BY <1>1, <1>3, <4>1
      <4>2. CASE k > i
        <5>1. k - 1 \in 1..Len(poll_fds) - 1 /\ poll_fds'[k-1] = poll_fds[k]
          BY <1>1, <1>3, <4>2
        <5> QED BY <5>1
      <4> QED BY <1>1, <3>2, <4>1, <4>2 DEF ThisFd
    <3> QED BY <1>3, <3>1, <3>2 DEF PolledFds
  <2>4. PolledAreConnected'
    <3>1. \A fd \in Fds : connected_subscribers'[fd] # None
                            <=> connected_subscribers[fd] # None /\ fd # ThisFd
      BY <1>1, <1>2 DEF IInv, TypeOK, TableTypes
    <3> QED BY <2>3, <3>1 DEF IInv, SessionTables, PolledAreConnected
  <2>5. IdsMatchFds'
    <3> SUFFICES ASSUME NEW fd \in Fds, NEW d \in Ids
                 PROVE  connected_subscribers'[fd] = d
                          <=> subscribers'[d].connected /\ subscribers'[d].sockfd = fd
      BY DEF IdsMatchFds
    <3>1. connected_subscribers[ThisFd] = ThisId
      BY DEF ThisId
    <3>2. connected_subscribers[fd] = d <=> subscribers[d].connected /\ subscribers[d].sockfd = fd
      BY DEF IInv, SessionTables, IdsMatchFds
    <3>3. CASE d = ThisId
      <4>1. ~subscribers'[d].connected
        BY <1>1, <1>2, <3>3 DEF IInv, TypeOK, TableTypes
      <4>2. subscribers[d].sockfd = ThisFd
        BY <1>1, <3>1, <3>3 DEF IInv, SessionTables, IdsMatchFds
      <4>3. connected_subscribers'[fd] # d
        BY <1>1, <1>2, <3>2, <4>2, ConstantsAssumption DEF IInv, TypeOK, TableTypes
      <4> QED BY <4>1, <4>3
    <3>4. CASE d # ThisId
      <4>1. subscribers'[d] = subscribers[d]
        BY <1>2, <3>4 DEF IInv, TypeOK, TableTypes
      <4>2. connected_subscribers'[fd] = d <=> connected_subscribers[fd] = d
        BY <1>1, <1>2, <3>1, <3>4, ConstantsAssumption DEF IInv, TypeOK, TableTypes
      <4> QED BY <3>2, <4>1, <4>2
    <3> QED BY <3>3, <3>4
  <2>6. FdsMatchClients'
    <3>1. \A fd \in Fds : connected_subscribers'[fd] # None =>
            /\ connected_subscribers'[fd] = connected_subscribers[fd]
            /\ sockets'[fd] = sockets[fd]
      BY <1>1, <1>2 DEF IInv, TypeOK, TableTypes, KernelTypes
    <3> QED BY <1>2, <3>1 DEF IInv, SessionTables, FdsMatchClients
  <2> QED BY <2>2, <2>4, <2>5, <2>6 DEF SessionTables
<1>9. ClientsKnown'
  BY <1>2 DEF IInv, ClientsKnown, TypeOK, KernelTypes
<1>10. TurnState'
  BY DEF IInv, TurnState, Disconnect, Scanning
<1> QED BY <1>7, <1>8, <1>9, <1>10 DEF IInv

LEMMA KilledKeeps == IInv /\ Killed => IInv'
<1> SUFFICES ASSUME IInv, Killed PROVE IInv'
  OBVIOUS
<1>1. LoopTypes'
  BY DEF IInv, TypeOK, LoopTypes, Killed
<1>2. KernelTypes'
  BY DEF IInv, TypeOK, KernelTypes, Killed, CloseAll
<1>3. TypeOK'
  BY <1>1, <1>2 DEF IInv, TypeOK, TableTypes, StreamTypes, ClientTypes, Killed
<1>4. SessionTables'
  BY SameSessions DEF IInv, Killed
<1>5. ClientsKnown'
  BY SameClients DEF IInv, Killed
<1>6. TurnState'
  BY DEF IInv, TurnState, Killed
<1> QED BY <1>3, <1>4, <1>5, <1>6 DEF IInv

------------------------------------------------------------------------------
(* The subscriber processes *)

\* One more entry at the end of what a connection holds for the server.
LEMMA PutType ==
    ASSUME StreamTypes, NEW s \in Subs, NEW e \in Requests \cup {Hello},
           up' = [up EXCEPT ![s] = Append(@, e)], UNCHANGED sent
    PROVE  StreamTypes'
<1>1. Append(up[s], e) \in Seq(Requests \cup {Hello})
  BY AppendProperties DEF StreamTypes
<1> QED BY <1>1 DEF StreamTypes

LEMMA StartKeeps ==
    ASSUME NEW s \in Subs, NEW c \in Ids PROVE IInv /\ Start(s, c) => IInv'
<1> SUFFICES ASSUME IInv, Start(s, c) PROVE IInv'
  OBVIOUS
<1>1. /\ phase[s] = "off" /\ phase' = [phase EXCEPT ![s] = "connecting"]
      /\ client_id' = [client_id EXCEPT ![s] = c]
      /\ link' = [link EXCEPT ![s] = "queued"]
      /\ backlog' = Append(backlog, s)
      /\ UNCHANGED <<server, stdin, udp, sockets, up, sent, published, requested>>
  BY DEF Start
<1>2. /\ backlog \in Seq(Subs)
      /\ phase \in [Subs -> {"off", "connecting", "up", "closed"}]
      /\ client_id \in [Subs -> Ids \cup {None}]
      /\ sockets \in [Fds -> Subs \cup {None}]
  BY DEF IInv, TypeOK, KernelTypes, ClientTypes
<1>3. /\ backlog' \in Seq(Subs) /\ backlog' # <<>>
      /\ Len(backlog') = Len(backlog) + 1 /\ Len(backlog) \in Nat
      /\ \A k \in 1..Len(backlog) : backlog'[k] = backlog[k] /\ backlog[k] \in Subs
      /\ backlog'[Len(backlog) + 1] = s
  BY <1>1, <1>2, AppendProperties, LenProperties, ElementOfSeq
<1>4. client_id[s] = None
  BY <1>1 DEF IInv, ClientsKnown
<1>5. c # None
  BY ConstantsAssumption
<1>6. \A t \in Subs : client_id[t] # None => client_id'[t] = client_id[t] /\ client_id'[t] # None
  BY <1>1, <1>2, <1>4
<1>7. KernelTypes'
  BY <1>1, <1>3 DEF IInv, TypeOK, KernelTypes
<1>8. ClientTypes'
  BY <1>1 DEF IInv, TypeOK, ClientTypes
<1>9. TypeOK'
  BY <1>1, <1>7, <1>8 DEF IInv, TypeOK, LoopTypes, TableTypes, StreamTypes
<1>10. SessionTables'
  <2>1. PolledOnce' /\ PolledAreConnected' /\ IdsMatchFds'
    BY <1>1 DEF IInv, SessionTables, PolledOnce, PolledAreConnected, PolledFds, IdsMatchFds
  <2>2. FdsMatchClients'
    <3> SUFFICES ASSUME NEW fd \in Fds, connected_subscribers[fd] # None
                 PROVE  \E t \in Subs : t = sockets[fd] /\ client_id'[t] = connected_subscribers[fd]
      BY <1>1 DEF FdsMatchClients
    <3>1. PICK t \in Subs : t = sockets[fd] /\ client_id[t] = connected_subscribers[fd]
      BY DEF IInv, SessionTables, FdsMatchClients
    <3> QED BY <1>6, <3>1
  <2> QED BY <2>1, <2>2 DEF SessionTables
<1>11. ClientsKnown'
  <2>1. \A t \in Subs : phase'[t] = "off" => client_id'[t] = None
    BY <1>1, <1>2 DEF IInv, ClientsKnown
  <2>2. \A k \in 1..Len(backlog') : client_id'[backlog'[k]] # None
    <3>1. client_id'[s] # None
      BY <1>1, <1>2, <1>5
    <3>2. \A k \in 1..Len(backlog) : client_id'[backlog'[k]] # None
      BY <1>3, <1>6 DEF IInv, ClientsKnown
    <3>3. \A k \in 1..Len(backlog') : k \in 1..Len(backlog) \/ k = Len(backlog) + 1
      BY <1>3
    <3> QED BY <1>3, <3>1, <3>2, <3>3
  <2>3. \A fd \in Fds : sockets[fd] # None => client_id'[sockets[fd]] # None
    BY <1>2, <1>6 DEF IInv, ClientsKnown
  <2> QED BY <1>1, <2>1, <2>2, <2>3 DEF ClientsKnown
<1>12. TurnState'
  BY <1>1, <1>3 DEF IInv, TurnState
<1> QED BY <1>9, <1>10, <1>11, <1>12 DEF IInv

LEMMA SendIdKeeps == ASSUME NEW s \in Subs PROVE IInv /\ SendId(s) => IInv'
<1> SUFFICES ASSUME IInv, SendId(s) PROVE IInv'
  OBVIOUS
<1>1. StreamTypes'
  BY PutType DEF IInv, TypeOK, SendId
<1>2. ClientTypes'
  BY DEF IInv, TypeOK, ClientTypes, SendId
<1>3. TypeOK'
  BY <1>1, <1>2 DEF IInv, TypeOK, LoopTypes, TableTypes, KernelTypes, SendId
<1>4. SessionTables'
  BY SameSessions DEF IInv, SendId
<1>5. ClientsKnown'
  BY DEF IInv, TypeOK, ClientTypes, ClientsKnown, SendId
<1>6. TurnState'
  BY DEF IInv, TurnState, SendId
<1> QED BY <1>3, <1>4, <1>5, <1>6 DEF IInv

LEMMA RequestKeeps ==
    ASSUME NEW s \in Subs, NEW request \in Requests
    PROVE  IInv /\ Request(s, request) => IInv'
<1> SUFFICES ASSUME IInv, Request(s, request) PROVE IInv'
  OBVIOUS
<1>1. StreamTypes'
  BY PutType DEF IInv, TypeOK, Request
<1>2. ClientTypes'
  BY ConstantsAssumption DEF IInv, TypeOK, ClientTypes, Request
<1>3. TypeOK'
  BY <1>1, <1>2 DEF IInv, TypeOK, LoopTypes, TableTypes, KernelTypes, Request
<1>4. SessionTables'
  BY SameSessions DEF IInv, Request
<1>5. ClientsKnown'
  BY SameClients DEF IInv, Request
<1>6. TurnState'
  BY DEF IInv, TurnState, Request
<1> QED BY <1>3, <1>4, <1>5, <1>6 DEF IInv

LEMMA ServerGoneKeeps == ASSUME NEW s \in Subs PROVE IInv /\ ServerGone(s) => IInv'
<1> SUFFICES ASSUME IInv, ServerGone(s) PROVE IInv'
  OBVIOUS
<1>1. ClientTypes'
  BY DEF IInv, TypeOK, ClientTypes, ServerGone
<1>2. TypeOK'
  BY <1>1 DEF IInv, TypeOK, LoopTypes, TableTypes, KernelTypes, StreamTypes, ServerGone
<1>3. SessionTables'
  BY SameSessions DEF IInv, ServerGone
<1>4. ClientsKnown'
  BY DEF IInv, TypeOK, ClientTypes, ClientsKnown, ServerGone
<1>5. TurnState'
  BY DEF IInv, TurnState, ServerGone
<1> QED BY <1>2, <1>3, <1>4, <1>5 DEF IInv

LEMMA ExitKeeps == ASSUME NEW s \in Subs PROVE IInv /\ Exit(s) => IInv'
<1> SUFFICES ASSUME IInv, Exit(s) PROVE IInv'
  OBVIOUS
<1>1. PICK arrived \in 0..Len(up[s]) : up' = [up EXCEPT ![s] = SubSeq(@, 1, arrived)]
  BY DEF Exit
<1>2. SubSeq(up[s], 1, arrived) \in Seq(Requests \cup {Hello})
  <2>1. up[s] \in Seq(Requests \cup {Hello})
    BY DEF IInv, TypeOK, StreamTypes
  <2>2. \A k \in 1..arrived : up[s][k] \in Requests \cup {Hello}
    BY <2>1, ElementOfSeq, LenProperties
  <2> QED BY <2>1, <2>2, LenProperties, SubSeqProperties
<1>3. StreamTypes'
  BY <1>1, <1>2 DEF IInv, TypeOK, StreamTypes, Exit
<1>4. ClientTypes'
  BY DEF IInv, TypeOK, ClientTypes, Exit
<1>5. TypeOK'
  BY <1>3, <1>4 DEF IInv, TypeOK, LoopTypes, TableTypes, KernelTypes, Exit
<1>6. SessionTables'
  BY SameSessions DEF IInv, Exit
<1>7. ClientsKnown'
  BY DEF IInv, TypeOK, ClientTypes, ClientsKnown, Exit
<1>8. TurnState'
  BY DEF IInv, TurnState, Exit
<1> QED BY <1>5, <1>6, <1>7, <1>8 DEF IInv

LEMMA PublishKeeps == ASSUME NEW topic \in Topics PROVE IInv /\ Publish(topic) => IInv'
<1> SUFFICES ASSUME IInv, Publish(topic) PROVE IInv'
  OBVIOUS
<1>1. published \in 0..MaxMessages /\ published < MaxMessages /\ udp \in Seq(Messages)
  BY DEF IInv, TypeOK, KernelTypes, ClientTypes, Publish
<1>2. published + 1 \in 1..MaxMessages
  BY <1>1, ConstantsAssumption
<1>3. Append(udp, [topic |-> topic, n |-> published + 1]) \in Seq(Messages)
  BY <1>1, <1>2, AppendProperties DEF Messages
<1>4. KernelTypes'
  BY <1>3 DEF IInv, TypeOK, KernelTypes, Publish
<1>5. ClientTypes'
  BY <1>2 DEF IInv, TypeOK, ClientTypes, Publish
<1>6. TypeOK'
  BY <1>4, <1>5 DEF IInv, TypeOK, LoopTypes, TableTypes, StreamTypes, Publish
<1>7. SessionTables'
  BY SameSessions DEF IInv, Publish
<1>8. ClientsKnown'
  BY SameClients DEF IInv, Publish
<1>9. TurnState'
  BY DEF IInv, TurnState, Publish
<1> QED BY <1>6, <1>7, <1>8, <1>9 DEF IInv

LEMMA TypeLineKeeps == ASSUME NEW line \in Lines PROVE IInv /\ TypeLine(line) => IInv'
<1> SUFFICES ASSUME IInv, TypeLine(line) PROVE IInv'
  OBVIOUS
<1>1. KernelTypes'
  <2>1. stdin' \in [waiting : Seq(Lines), buffered : Seq(Lines)]
    BY AppendProperties DEF IInv, TypeOK, KernelTypes, TypeLine
  <2> QED BY <2>1 DEF IInv, TypeOK, KernelTypes, TypeLine
<1>2. TypeOK'
  BY <1>1 DEF IInv, TypeOK, LoopTypes, TableTypes, StreamTypes, ClientTypes, TypeLine
<1>3. SessionTables'
  BY SameSessions DEF IInv, TypeLine
<1>4. ClientsKnown'
  BY SameClients DEF IInv, TypeLine
<1>5. TurnState'
  BY DEF IInv, TurnState, TypeLine
<1> QED BY <1>2, <1>3, <1>4, <1>5 DEF IInv

------------------------------------------------------------------------------
(* The theorems *)

LEMMA InitHolds == Init => IInv
<1> SUFFICES ASSUME Init PROVE IInv
  OBVIOUS
<1>1. Len(poll_fds) = 0 /\ poll_fds \in Seq(PollEntries) /\ Len(backlog) = 0
  BY EmptySeq DEF Init
<1>2. LoopTypes
  <2>1. revents \in [stdin : BOOLEAN, udp : BOOLEAN, listener : BOOLEAN]
    BY DEF Init
  <2>2. pc = "poll" /\ i = 1 /\ message = None /\ matching_ids = {} /\ new_socket = 0
    BY DEF Init
  <2> QED BY <2>1, <2>2 DEF LoopTypes
<1>3. TableTypes
  BY <1>1 DEF Init, TableTypes, EmptyTrie
<1>4. KernelTypes
  BY EmptySeq DEF Init, KernelTypes
<1>5. StreamTypes
  BY EmptySeq DEF Init, StreamTypes
<1>6. ClientTypes
  <2>1. /\ phase = [s \in Subs |-> "off"] /\ client_id = [s \in Subs |-> None]
        /\ published = 0 /\ requested = 0
    BY DEF Init
  <2> QED BY <2>1, ConstantsAssumption DEF ClientTypes
<1>7. SessionTables
  <2>1. PolledOnce /\ PolledFds = {}
    BY <1>1 DEF PolledOnce, PolledFds
  <2>2. PolledAreConnected
    BY <2>1 DEF Init, PolledAreConnected
  <2>3. IdsMatchFds
    BY ConstantsAssumption DEF Init, IdsMatchFds
  <2>4. FdsMatchClients
    BY DEF Init, FdsMatchClients
  <2> QED BY <2>1, <2>2, <2>3, <2>4 DEF SessionTables
<1>8. ClientsKnown
  <2>1. client_id = [s \in Subs |-> None] /\ sockets = [fd \in Fds |-> None]
    BY DEF Init
  <2> QED BY <1>1, <2>1 DEF ClientsKnown
<1>9. TurnState
  BY DEF Init, TurnState
<1> QED BY <1>2, <1>3, <1>4, <1>5, <1>6, <1>7, <1>8, <1>9 DEF IInv, TypeOK

LEMMA StutterKeeps == IInv /\ UNCHANGED vars => IInv'
<1> SUFFICES ASSUME IInv, UNCHANGED vars PROVE IInv'
  OBVIOUS
<1>1. TypeOK'
  BY DEF vars, IInv, TypeOK, LoopTypes, TableTypes, KernelTypes, StreamTypes, ClientTypes
<1>2. SessionTables' /\ ClientsKnown'
  BY SameSessions, SameClients DEF vars, IInv
<1>3. TurnState'
  BY DEF vars, IInv, TurnState
<1> QED BY <1>1, <1>2, <1>3 DEF IInv

LEMMA ServerStepKeeps == IInv /\ ServerStep => IInv'
  BY PollKeeps, HandleStdinKeeps, NoInputKeeps, RecvDatagramKeeps, UdpDrainedKeeps, RouteToKeeps,
     AcceptKeeps, NoAcceptKeeps, RefuseClientKeeps, RegisterClientKeeps, NextClientKeeps,
     ScanDoneKeeps, HandleRequestKeeps, DisconnectKeeps, KilledKeeps DEF ServerStep

LEMMA EnvironmentKeeps == IInv /\ Environment => IInv'
  BY StartKeeps, SendIdKeeps, RequestKeeps, ServerGoneKeeps, ExitKeeps, PublishKeeps,
     TypeLineKeeps DEF Environment

LEMMA Inductive == Spec => []IInv
<1>1. IInv /\ [Next]_vars => IInv'
  BY ServerStepKeeps, EnvironmentKeeps, StutterKeeps DEF Next
<1> QED BY InitHolds, <1>1, PTL DEF Spec

\* Every variable of the server, the kernel and the clients keeps its type, for
\* any number of clients, descriptors, patterns and messages.
THEOREM ServerTypes == Spec => []TypeOK
<1>1. IInv => TypeOK
  BY DEF IInv
<1> QED BY Inductive, <1>1, PTL

\* poll_fds, subscribers, connected_subscribers and the kernel's sockets agree
\* at every step of the loop, for any number of clients and descriptors: an id
\* has one connection at most, and a descriptor that was reused never leads
\* from one id to another id's client.
THEOREM SessionsAgree == Spec => []SessionTables
<1>1. IInv => SessionTables
  BY DEF IInv
<1> QED BY Inductive, <1>1, PTL

------------------------------------------------------------------------------
(* The trie: the server uses it as TopicTrie describes, and the trie and the
   clients' sets of topics say the same. *)

\* The trie of the server, with what is proved about it.
Trie == INSTANCE TopicTrieProofs WITH Clients <- Ids

------------------------------------------------------------------------------
(* The operators of the instance are those of the server's module. *)

LEMMA SameOperators ==
    /\ Trie!EmptyTrie = EmptyTrie
    /\ \A topic : Trie!SplitTopic(topic) = SplitTopic(topic)
    /\ \A t, node : Trie!IdsAt(t, node) = IdsAt(t, node)
    /\ \A t, p, c : Trie!AddSubscription(t, p, c) = AddSubscription(t, p, c)
    /\ \A t, p, c : Trie!RemoveSubscription(t, p, c) = RemoveSubscription(t, p, c)
<1>1. \A topic : Trie!SplitTopic(topic) = SplitTopic(topic)
  BY DEF Trie!SplitTopic, SplitTopic, Trie!Last, Last, Trie!Front, Front
<1>2. \A t, node : Trie!IdsAt(t, node) = IdsAt(t, node)
  BY DEF Trie!IdsAt, IdsAt
<1>3. \A s : Trie!Prefixes(s) = Prefixes(s)
  BY DEF Trie!Prefixes, Prefixes
<1>4. \A s, t : Trie!IsPrefix(s, t) = IsPrefix(s, t)
  BY DEF Trie!IsPrefix, IsPrefix
<1>5. \A t, p, c : Trie!AddSubscription(t, p, c) = AddSubscription(t, p, c)
  BY <1>1, <1>2, <1>3 DEF Trie!AddSubscription, AddSubscription
<1>6. \A t, s : Trie!Pruned(t, s) = Pruned(t, s)
  BY <1>3, <1>4 DEF Trie!Pruned, Pruned
<1>7. ASSUME NEW t, NEW p, NEW c
      PROVE  Trie!RemoveSubscription(t, p, c) = RemoveSubscription(t, p, c)
  <2> DEFINE tokens == SplitTopic(p)
             erased == [t EXCEPT ![tokens] = @ \ {c}]
             kept == {node \in DOMAIN t :
                        \A gone \in Pruned(erased, tokens) : ~IsPrefix(gone, node)}
  <2>1. RemoveSubscription(t, p, c) =
          IF tokens \in DOMAIN t THEN [node \in kept |-> erased[node]] ELSE t
    BY DEF RemoveSubscription
  <2>2. Trie!Pruned(erased, tokens) = Pruned(erased, tokens)
    BY <1>6
  <2>3. Trie!RemoveSubscription(t, p, c) =
          IF tokens \in DOMAIN t
             THEN [node \in {n \in DOMAIN t :
                      \A gone \in Trie!Pruned(erased, tokens) : ~Trie!IsPrefix(gone, n)}
                   |-> erased[node]]
             ELSE t
    BY <1>1 DEF Trie!RemoveSubscription
  <2>4. {n \in DOMAIN t :
            \A gone \in Trie!Pruned(erased, tokens) : ~Trie!IsPrefix(gone, n)} = kept
    BY <1>4, <2>2
  <2> QED BY <2>1, <2>3, <2>4
<1>8. Trie!EmptyTrie = EmptyTrie
  BY DEF Trie!EmptyTrie, EmptyTrie
<1> QED BY <1>1, <1>2, <1>5, <1>7, <1>8

\* The patterns are what TopicTrie assumes they are.
LEMMA PatternsFit == Trie!PatternsAssumption
  BY TopicsAssumption DEF Trie!PatternsAssumption

------------------------------------------------------------------------------
(* What requests do to the trie and to the clients' topics *)

\* A request that applies is a subscription to a pattern the id does not hold,
\* or an unsubscription from one it does.
LEMMA AppliedRequest ==
    ASSUME IInv, HandleRequest, Applies(ThisId, Head(up[ThisSub]))
    PROVE  LET request == Head(up[ThisSub]) IN
           /\ request \in Requests /\ ThisId \in Ids /\ ThisSub \in Subs
           /\ UpdateTopics(ThisId, request) /\ UpdateTrie(ThisId, request)
           /\ Send(subscribers[ThisId].sockfd, AckFrame(request))
<1> DEFINE request == Head(up[ThisSub])
<1>1. ThisId \in Ids /\ ThisSub \in Subs
  BY ScannedClient DEF HandleRequest, HasRequest
<1>2. /\ UpdateTopics(ThisId, request) /\ UpdateTrie(ThisId, request)
      /\ Send(subscribers[ThisId].sockfd, AckFrame(request))
  BY DEF HandleRequest
<1>3. request \in Requests \cup {Hello}
  <2>1. up[ThisSub] # <<>> /\ up' = [up EXCEPT ![ThisSub] = Tail(@)]
    BY DEF HandleRequest, HasRequest
  <2> QED BY <1>1, <2>1, TakeType DEF IInv, TypeOK
<1>4. request # Hello
  <2>1. <<>> \notin Patterns
    BY TopicsAssumption
  <2>2. subscribers[ThisId].topics \subseteq Patterns
    BY <1>1 DEF IInv, TypeOK, TableTypes
  <2>3. Applies(ThisId, request)
    OBVIOUS
  <2> HIDE DEF request
  <2> QED BY <2>1, <2>2, <2>3 DEF Applies, Hello
<1> QED BY <1>1, <1>2, <1>3, <1>4

\* How the topics of the ids change.
LEMMA TopicsChange ==
    ASSUME IInv, NEW c \in Ids, NEW request \in Requests, UpdateTopics(c, request)
    PROVE  /\ \A d \in Ids \ {c} : subscribers'[d] = subscribers[d]
           /\ subscribers'[c].topics = IF request.op = "subscribe"
                 THEN subscribers[c].topics \cup {request.topic}
                 ELSE subscribers[c].topics \ {request.topic}
           /\ subscribers'[c].connected = subscribers[c].connected
           /\ subscribers'[c].sockfd = subscribers[c].sockfd
<1> DEFINE Entry == [connected : BOOLEAN, sockfd : Fds \cup {0}, topics : SUBSET Patterns]
           topics == IF request.op = "subscribe"
                        THEN subscribers[c].topics \cup {request.topic}
                        ELSE subscribers[c].topics \ {request.topic}
<1>1. subscribers \in [Ids -> Entry]
  BY DEF IInv, TypeOK, TableTypes
<1>2. subscribers' = [subscribers EXCEPT ![c] = [@ EXCEPT !.topics = topics]]
  BY DEF UpdateTopics
<1> HIDE DEF topics
<1>3. /\ \A d \in Ids \ {c} : subscribers'[d] = subscribers[d]
      /\ subscribers'[c] = [subscribers[c] EXCEPT !.topics = topics]
  BY <1>1, <1>2
<1>4. subscribers[c] \in Entry
  BY <1>1
<1> QED BY <1>3, <1>4 DEF topics

\* No other step changes a topic or the trie.
LEMMA TopicsStay ==
    ASSUME IInv, [Next]_vars,
           ~(HandleRequest /\ Applies(ThisId, Head(up[ThisSub])))
    PROVE  /\ UNCHANGED trie
           /\ \A c \in Ids : subscribers'[c].topics = subscribers[c].topics
<1> DEFINE Entry == [connected : BOOLEAN, sockfd : Fds \cup {0}, topics : SUBSET Patterns]
<1>0. subscribers \in [Ids -> Entry]
  BY DEF IInv, TypeOK, TableTypes
<1> HIDE DEF Entry
<1>1. CASE HandleRequest
  BY <1>1 DEF HandleRequest
<1>2. CASE RegisterClient
  <2>1. PICK c : /\ subscribers' = [subscribers EXCEPT ![c].connected = TRUE,
                                                      ![c].sockfd = new_socket]
                 /\ UNCHANGED trie
    BY <1>2 DEF RegisterClient
  <2>2. ASSUME NEW d \in Ids PROVE subscribers'[d].topics = subscribers[d].topics
    <3>1. CASE d # c
      BY <1>0, <2>1, <3>1
    <3>2. CASE d = c
      BY <1>0, <2>1, <3>2 DEF Entry
    <3> QED BY <3>1, <3>2
  <2> QED BY <2>1, <2>2
<1>3. CASE Disconnect
  <2>1. subscribers' = [subscribers EXCEPT ![ThisId].connected = FALSE] /\ UNCHANGED trie
    BY <1>3 DEF Disconnect, MarkDisconnected
  <2>2. ASSUME NEW d \in Ids PROVE subscribers'[d].topics = subscribers[d].topics
    <3>1. CASE d # ThisId
      BY <1>0, <2>1, <3>1
    <3>2. CASE d = ThisId
      BY <1>0, <2>1, <3>2 DEF Entry
    <3> QED BY <3>1, <3>2
  <2> QED BY <2>1, <2>2
<1>4. CASE \/ Poll \/ NoInput \/ HandleStdin \/ RecvDatagram \/ UdpDrained \/ \E c \in Ids : RouteTo(c)
           \/ Accept \/ NoAccept \/ RefuseClient \/ NextClient \/ ScanDone \/ Killed
  <2>1. UNCHANGED <<trie, subscribers>>
    BY <1>4 DEF Poll, NoInput, HandleStdin, RecvDatagram, UdpDrained, RouteTo, Accept, NoAccept,
                RefuseClient, NextClient, ScanDone, Killed
  <2> QED BY <2>1
<1>5. CASE Environment
  <2>1. UNCHANGED <<trie, subscribers>>
    <3>1. ASSUME NEW s \in Subs, NEW c \in Ids, Start(s, c) PROVE UNCHANGED <<trie, subscribers>>
      BY <3>1 DEF Start
    <3>2. ASSUME NEW s \in Subs, SendId(s) \/ ServerGone(s) \/ Exit(s)
          PROVE  UNCHANGED <<trie, subscribers>>
      BY <3>2 DEF SendId, ServerGone, Exit
    <3>3. ASSUME NEW s \in Subs, NEW request \in Requests, Request(s, request)
          PROVE  UNCHANGED <<trie, subscribers>>
      BY <3>3 DEF Request
    <3>4. ASSUME NEW topic \in Topics, Publish(topic) PROVE UNCHANGED <<trie, subscribers>>
      BY <3>4 DEF Publish
    <3>5. ASSUME NEW line \in Lines, TypeLine(line) PROVE UNCHANGED <<trie, subscribers>>
      BY <3>5 DEF TypeLine
    <3> QED BY <1>5, <3>1, <3>2, <3>3, <3>4, <3>5 DEF Environment
  <2> QED BY <2>1
<1>6. CASE UNCHANGED vars
  BY <1>6 DEF vars
<1> QED BY <1>1, <1>2, <1>3, <1>4, <1>5, <1>6 DEF Next, ServerStep

------------------------------------------------------------------------------
(* The server uses its trie as TopicTrie describes. *)

LEMMA RequestUsesTrie ==
    ASSUME NEW c \in Ids, NEW request \in Requests, UpdateTrie(c, request)
    PROVE  /\ request.topic \in Patterns
           /\ request.op = "subscribe" => Trie!Add(request.topic, c)
           /\ request.op # "subscribe" => Trie!Drop(request.topic, c)
  BY SameOperators DEF UpdateTrie, Requests, Trie!Add, Trie!Drop

LEMMA StepUsesTrie == IInv /\ [Next]_vars => [Trie!Next]_trie
<1> SUFFICES ASSUME IInv, [Next]_vars PROVE [Trie!Next]_trie
  OBVIOUS
<1>1. CASE HandleRequest /\ Applies(ThisId, Head(up[ThisSub]))
  <2> DEFINE request == Head(up[ThisSub])
             c == ThisId
  <2>1. request \in Requests /\ c \in Ids /\ UpdateTrie(c, request)
    BY <1>1, AppliedRequest
  <2> HIDE DEF request, c
  <2>2. request.topic \in Patterns /\ (Trie!Add(request.topic, c) \/ Trie!Drop(request.topic, c))
    BY <2>1, RequestUsesTrie
  <2> QED BY <2>1, <2>2 DEF Trie!Next
<1>2. CASE ~(HandleRequest /\ Applies(ThisId, Head(up[ThisSub])))
  BY <1>2, TopicsStay
<1> QED BY <1>1, <1>2

\* Whatever clients come and go and whatever they ask for, the server calls
\* add_subscription and remove_subscription only, with a client's id and a
\* pattern: its trie is a TopicTrie (server.cpp:93-94, 105-106).
THEOREM ServerUsesTrie == Spec => Trie!Spec
<1>1. Init => Trie!Init
  BY SameOperators DEF Init, Trie!Init
<1> QED BY <1>1, StepUsesTrie, Inductive, PTL DEF Spec, Trie!Spec

\* So the server's trie keeps its types and its shape, and every step of the
\* server changes one subscription in it at most.
THEOREM ServerTrieIsTable ==
    Spec => []Trie!TypeOK /\ []Trie!TrieShape /\ Trie!ImplementsTable
<1>1. Trie!Spec => []Trie!TypeOK
  BY PatternsFit, Trie!TypeCorrect
<1>2. Trie!Spec => []Trie!TrieShape
  BY PatternsFit, Trie!ShapeCorrect
<1>3. Trie!Spec => Trie!ImplementsTable
  BY PatternsFit, Trie!TrieImplementsTable
<1> QED BY <1>1, <1>2, <1>3, ServerUsesTrie, PTL

------------------------------------------------------------------------------
(* The trie and the topics *)

\* The ids at the path of a pattern, after a request that applies.
LEMMA IdsChange ==
    ASSUME Trie!TypeOK, NEW c \in Ids, NEW request \in Requests, UpdateTrie(c, request),
           NEW p \in Patterns
    PROVE  IdsAt(trie', SplitTopic(p)) =
             IF SplitTopic(p) # SplitTopic(request.topic) THEN IdsAt(trie, SplitTopic(p))
             ELSE IF request.op = "subscribe" THEN IdsAt(trie, SplitTopic(p)) \cup {c}
                                              ELSE IdsAt(trie, SplitTopic(p)) \ {c}
<1> DEFINE path == SplitTopic(p)
           tokens == SplitTopic(request.topic)
           table == [x \in Trie!Paths |-> Trie!IdsAt(trie, x)]
           after == [x \in Trie!Paths |-> Trie!IdsAt(trie', x)]
<1>1. request.topic \in Patterns /\ path \in Trie!Paths /\ tokens \in Trie!Paths
  BY SameOperators DEF Requests, Trie!Paths
<1>2. after[path] = IdsAt(trie', path) /\ table[path] = IdsAt(trie, path)
  BY <1>1, SameOperators
<1>3. Trie!SplitTopic(request.topic) = tokens
  BY SameOperators
<1>4. CASE request.op = "subscribe"
  <2>1. Trie!Table!Add(Trie!SplitTopic(request.topic), c)
    BY <1>1, <1>4, PatternsFit, RequestUsesTrie, Trie!AddRefines
  <2>2. after = [table EXCEPT ![tokens] = @ \cup {c}]
    BY <1>3, <2>1 DEF Trie!Table!Add
  <2> HIDE DEF path, tokens, table, after
  <2>3. after[path] = IF path = tokens THEN table[path] \cup {c} ELSE table[path]
    BY <1>1, <2>2 DEF table
  <2> QED BY <1>2, <1>4, <2>3 DEF path, tokens
<1>5. CASE request.op # "subscribe"
  <2>1. Trie!Table!Remove(Trie!SplitTopic(request.topic), c)
    BY <1>1, <1>5, PatternsFit, RequestUsesTrie, Trie!DropRefines
  <2>2. after = [table EXCEPT ![tokens] = @ \ {c}]
    BY <1>3, <2>1 DEF Trie!Table!Remove
  <2> HIDE DEF path, tokens, table, after
  <2>3. after[path] = IF path = tokens THEN table[path] \ {c} ELSE table[path]
    BY <1>1, <2>2 DEF table
  <2> QED BY <1>2, <1>5, <2>3 DEF path, tokens
<1> QED BY <1>4, <1>5

\* Only the end of a pattern's path holds ids.
IdsOnPaths == \A node \in DOMAIN trie : trie[node] # {} => \E p \in Patterns : SplitTopic(p) = node

\* An id in the trie has a pattern with that path; this holds for any patterns.
TrieWithinTopics ==
    \A p \in Patterns : \A c \in IdsAt(trie, SplitTopic(p)) :
        \E q \in subscribers[c].topics : SplitTopic(q) = SplitTopic(p)

\* No two patterns are texts of one path, as "a" and "a/" are.
NoAliases == \A p, q \in Patterns : SplitTopic(p) = SplitTopic(q) => p = q

TrieInv ==
    /\ Trie!TypeOK
    /\ IdsOnPaths
    /\ TrieWithinTopics
    /\ NoAliases => TrieMirrorsTopics

LEMMA PathsKeep ==
    ASSUME IInv, Trie!TypeOK, IdsOnPaths, NEW c \in Ids, NEW request \in Requests,
           UpdateTrie(c, request)
    PROVE  IdsOnPaths'
<1> DEFINE tokens == SplitTopic(request.topic)
<1>1. request.topic \in Patterns /\ Trie!SplitTopic(request.topic) = tokens
  BY SameOperators DEF Requests
<1>2. \A node \in DOMAIN trie' : node # tokens =>
          trie'[node] = {} \/ (node \in DOMAIN trie /\ trie'[node] = trie[node])
  <2>1. CASE request.op = "subscribe"
    <3>1. \A node \in DOMAIN trie' \ {tokens} : trie'[node] = Trie!IdsAt(trie, node)
      BY <1>1, <2>1, PatternsFit, RequestUsesTrie, Trie!AddResult
    <3> QED BY <3>1, SameOperators DEF IdsAt
  <2>2. CASE request.op # "subscribe"
    <3>1. Trie!Drop(request.topic, c)
      BY <2>2, RequestUsesTrie
    <3>2. CASE tokens \notin DOMAIN trie
      <4>1. trie' = trie
        BY <1>1, <3>1, <3>2, PatternsFit, Trie!DropResult
      <4> QED BY <4>1
    <3>3. CASE tokens \in DOMAIN trie
      <4>1. PICK p \in Patterns : p = request.topic
        BY <1>1
      <4>2. Trie!SplitTopic(p) \in DOMAIN trie /\ Trie!Drop(p, c)
        BY <1>1, <3>1, <3>3, <4>1
      <4>3. /\ DOMAIN trie' \subseteq DOMAIN trie
            /\ \A node \in DOMAIN trie' : trie'[node] = Trie!Left(p, c, node)
        BY <4>2, PatternsFit, Trie!DropResult
      <4> QED BY <1>1, <4>1, <4>3 DEF Trie!Left
    <3> QED BY <3>2, <3>3
  <2> QED BY <2>1, <2>2
<1> QED BY <1>1, <1>2 DEF IdsOnPaths

LEMMA WithinKeeps ==
    ASSUME IInv, Trie!TypeOK, TrieWithinTopics, NEW c \in Ids, NEW request \in Requests,
           UpdateTopics(c, request), UpdateTrie(c, request)
    PROVE  TrieWithinTopics'
<1> SUFFICES ASSUME NEW p \in Patterns, NEW d \in IdsAt(trie', SplitTopic(p))
             PROVE  \E q \in subscribers'[d].topics : SplitTopic(q) = SplitTopic(p)
  BY DEF TrieWithinTopics
<1> DEFINE path == SplitTopic(p)
           tokens == SplitTopic(request.topic)
<1>0. d \in Ids
  <2>1. IdsAt(trie, path) \subseteq Ids
    BY DEF IdsAt, IInv, TypeOK, TableTypes
  <2> QED BY <2>1, IdsChange
<1>1. CASE d # c
  <2>1. d \in IdsAt(trie, path)
    BY <1>1, IdsChange
  <2>2. subscribers'[d] = subscribers[d]
    BY <1>0, <1>1, TopicsChange
  <2> QED BY <2>1, <2>2 DEF TrieWithinTopics
<1>2. CASE d = c /\ path # tokens
  <2>1. d \in IdsAt(trie, path)
    BY <1>2, IdsChange
  <2>2. PICK q \in subscribers[c].topics : SplitTopic(q) = path
    BY <1>2, <2>1 DEF TrieWithinTopics
  <2>3. q # request.topic
    BY <1>2, <2>2
  <2>4. q \in subscribers'[c].topics
    BY <2>2, <2>3, TopicsChange
  <2> QED BY <1>2, <2>2, <2>4
<1>3. CASE d = c /\ path = tokens
  <2>1. request.op = "subscribe"
    BY <1>3, IdsChange
  <2>2. request.topic \in subscribers'[c].topics
    BY <2>1, TopicsChange
  <2> QED BY <1>3, <2>2
<1> QED BY <1>1, <1>2, <1>3

LEMMA MirrorKeeps ==
    ASSUME IInv, Trie!TypeOK, NoAliases, TrieMirrorsTopics, NEW c \in Ids,
           NEW request \in Requests, UpdateTopics(c, request), UpdateTrie(c, request)
    PROVE  TrieMirrorsTopics'
<1> SUFFICES ASSUME NEW p \in Patterns, NEW d \in Ids
             PROVE  d \in IdsAt(trie', SplitTopic(p)) <=> p \in subscribers'[d].topics
  BY DEF TrieMirrorsTopics
<1>1. d \in IdsAt(trie, SplitTopic(p)) <=> p \in subscribers[d].topics
  BY DEF TrieMirrorsTopics
<1>2. SplitTopic(p) = SplitTopic(request.topic) <=> p = request.topic
  <2>1. request.topic \in Patterns
    BY DEF Requests
  <2> QED BY <2>1 DEF NoAliases
<1>3. CASE d # c
  <2>1. subscribers'[d] = subscribers[d]
    BY <1>3, TopicsChange
  <2> QED BY <1>1, <1>3, <2>1, IdsChange
<1>4. CASE d = c
  <2>1. subscribers'[d].topics = IF request.op = "subscribe"
                                    THEN subscribers[d].topics \cup {request.topic}
                                    ELSE subscribers[d].topics \ {request.topic}
    BY <1>4, TopicsChange
  <2> QED BY <1>1, <1>2, <1>4, <2>1, IdsChange
<1> QED BY <1>3, <1>4

LEMMA TrieInvKeeps == IInv /\ TrieInv /\ [Next]_vars /\ Trie!TypeOK' => TrieInv'
<1> SUFFICES ASSUME IInv, TrieInv, [Next]_vars, Trie!TypeOK' PROVE TrieInv'
  OBVIOUS
<1>1. CASE HandleRequest /\ Applies(ThisId, Head(up[ThisSub]))
  <2> DEFINE request == Head(up[ThisSub])
             c == ThisId
  <2>1. /\ request \in Requests /\ c \in Ids
        /\ UpdateTopics(c, request) /\ UpdateTrie(c, request)
    BY <1>1, AppliedRequest
  <2> HIDE DEF request, c
  <2>2. IdsOnPaths'
    BY <2>1, PathsKeep DEF TrieInv
  <2>3. TrieWithinTopics'
    BY <2>1, WithinKeeps DEF TrieInv
  <2>4. NoAliases => TrieMirrorsTopics'
    BY <2>1, MirrorKeeps DEF TrieInv
  <2> QED BY <2>2, <2>3, <2>4 DEF TrieInv, NoAliases
<1>2. CASE ~(HandleRequest /\ Applies(ThisId, Head(up[ThisSub])))
  <2>1. UNCHANGED trie /\ \A c \in Ids : subscribers'[c].topics = subscribers[c].topics
    BY <1>2, TopicsStay
  <2>2. IdsOnPaths'
    BY <2>1 DEF TrieInv, IdsOnPaths
  <2>3. TrieWithinTopics'
    <3>1. \A p \in Patterns : IdsAt(trie, SplitTopic(p)) \subseteq Ids
      BY DEF IdsAt, IInv, TypeOK, TableTypes
    <3> QED BY <2>1, <3>1 DEF TrieInv, TrieWithinTopics
  <2>4. NoAliases => TrieMirrorsTopics'
    BY <2>1 DEF TrieInv, TrieMirrorsTopics
  <2> QED BY <2>2, <2>3, <2>4 DEF TrieInv, NoAliases
<1> QED BY <1>1, <1>2

LEMMA TrieInvInit == Init /\ Trie!TypeOK => TrieInv
<1> SUFFICES ASSUME Init, Trie!TypeOK PROVE TrieInv
  OBVIOUS
<1>1. \A node : IdsAt(trie, node) = {}
  BY DEF Init, EmptyTrie, IdsAt
<1>2. IdsOnPaths
  BY DEF Init, EmptyTrie, IdsOnPaths
<1>3. TrieWithinTopics
  BY <1>1 DEF TrieWithinTopics
<1>4. TrieMirrorsTopics
  BY <1>1 DEF Init, TrieMirrorsTopics
<1> QED BY <1>2, <1>3, <1>4 DEF TrieInv

LEMMA TrieInvariance == Spec => []TrieInv
<1>1. Spec => []Trie!TypeOK
  BY ServerTrieIsTable, PTL
<1> QED BY <1>1, TrieInvInit, TrieInvKeeps, Inductive, PTL DEF Spec

\* When no two patterns are texts of one path, the trie holds an id at the path
\* of a pattern exactly when the id's own set holds the pattern, for any
\* patterns, clients and bounds (server.cpp:93-94, 105-106).  Where there are
\* such texts it does not hold.
THEOREM TrieAgrees == ASSUME NoAliases PROVE Spec => []TrieMirrorsTopics
<1>1. TrieInv => TrieMirrorsTopics
  BY DEF TrieInv
<1> QED BY <1>1, TrieInvariance, PTL

==============================================================================
