-------------------------- MODULE ServerProperties --------------------------
(***************************************************************************)
(* What makes the server of server.cpp correct: its tables agree, streams  *)
(* carry each message once and in order, and nobody waits for ever.        *)
(***************************************************************************)
EXTENDS Server

PollEntries == [fd : Fds, revents : BOOLEAN]

LoopTypes ==
    /\ pc \in {"poll", "stdin", "udp", "listen", "readid", "scan", "stopped", "killed"}
    /\ revents \in [stdin : BOOLEAN, udp : BOOLEAN, listener : BOOLEAN]
    /\ i \in Nat \ {0}
    /\ message \in Messages \cup {None}
    /\ matching_ids \in SUBSET Ids
    /\ new_socket \in Fds \cup {0}

TableTypes ==
    /\ poll_fds \in Seq(PollEntries)
    /\ subscribers \in [Ids -> [connected : BOOLEAN, sockfd : Fds \cup {0},
                                topics : SUBSET Patterns]]
    /\ connected_subscribers \in [Fds -> Ids \cup {None}]
    /\ trie \in [DOMAIN trie -> SUBSET Ids]

KernelTypes ==
    /\ stdin \in [waiting : Seq(Lines), buffered : Seq(Lines)]
    /\ udp \in Seq(Messages)
    /\ backlog \in Seq(Subs)
    /\ sockets \in [Fds -> Subs \cup {None}]
    /\ link \in [Subs -> {"none", "queued", "open", "closed"}]

StreamTypes ==
    /\ up \in [Subs -> Seq(Requests \cup {Hello})]
    /\ sent \in [Subs -> Seq(Frames)]

ClientTypes ==
    /\ phase \in [Subs -> {"off", "connecting", "up", "closed"}]
    /\ client_id \in [Subs -> Ids \cup {None}]
    /\ published \in 0..MaxMessages
    /\ requested \in 0..MaxRequests

\* Every variable keeps to its set of values.
TypeOK == LoopTypes /\ TableTypes /\ KernelTypes /\ StreamTypes /\ ClientTypes

------------------------------------------------------------------------------
(* The session tables *)

PolledFds == {poll_fds[k].fd : k \in 1..Len(poll_fds)}

\* No descriptor is polled twice.
PolledOnce == \A j, k \in 1..Len(poll_fds) : poll_fds[j].fd = poll_fds[k].fd => j = k

\* The descriptors polled are those that belong to a connected id.
PolledAreConnected == PolledFds = {fd \in Fds : connected_subscribers[fd] # None}

\* An id is marked connected exactly when its descriptor leads back to it.
IdsMatchFds ==
    \A fd \in Fds, c \in Ids :
        connected_subscribers[fd] = c
            <=> subscribers[c].connected /\ subscribers[c].sockfd = fd

\* The connection behind the descriptor of an id is a client that sent that id.
FdsMatchClients ==
    \A fd \in Fds :
        connected_subscribers[fd] # None
            => \E s \in Subs : s = sockets[fd] /\ client_id[s] = connected_subscribers[fd]

\* The three tables and the kernel's sockets agree at every step of the loop,
\* over refusals, disconnections in the middle of the scan and reuse of a
\* descriptor number (server.cpp:67-76, 232-236): an id has one connection at
\* most, and requests and sends never go to another client's.
SessionTables == PolledOnce /\ PolledAreConnected /\ IdsMatchFds /\ FdsMatchClients

\* The trie holds an id at the path of a pattern exactly when the id's own set
\* holds the pattern (server.cpp:93-94, 105-106), whatever other ids subscribe to.
TrieMirrorsTopics ==
    \A p \in Patterns, c \in Ids :
        c \in IdsAt(trie, SplitTopic(p)) <=> p \in subscribers[c].topics

------------------------------------------------------------------------------
(* What clients receive *)

IsMessage(frame) == frame.kind = "message"

\* Messages enter a stream in the order their datagrams arrived, none twice,
\* and no datagram goes to two connections of one id, even when the client
\* reconnects while datagrams are being routed.
DeliveredOnceInOrder ==
    /\ \A s \in Subs : \A j, k \in 1..Len(sent[s]) :
          j < k /\ IsMessage(sent[s][j]) /\ IsMessage(sent[s][k])
              => sent[s][j].n < sent[s][k].n
    /\ \A s, t \in Subs : s # t /\ client_id[s] = client_id[t] =>
          \A j \in 1..Len(sent[s]), k \in 1..Len(sent[t]) :
              IsMessage(sent[s][j]) /\ IsMessage(sent[t][k]) => sent[s][j].n # sent[t][k].n

Covers(pattern, topic) == Reaches(SplitTopic(pattern), SplitTopic(topic))

Wants(c, topic) == \E p \in subscribers[c].topics : Covers(p, topic)

\* While a datagram is routed (server.cpp:121-132), every connected id that
\* holds a covering pattern is still in line for it, has it in its stream, or
\* has a client that closed the connection.
RoutedToEverySubscriber ==
    message # None =>
        \A c \in Ids \ matching_ids :
            subscribers[c].connected /\ Wants(c, message.topic) =>
                \E s \in Subs :
                    /\ s = sockets[subscribers[c].sockfd]
                    /\ \/ phase[s] = "closed"
                       \/ \E k \in 1..Len(sent[s]) : sent[s][k] = MessageFrame(message)

\* A message is only ever put on a connection whose client's id holds a
\* covering pattern: a descriptor recorded for an id that has left is never
\* used after the kernel gave its number to another client.
MessagesReachSubscribersOnly ==
    [][\A s \in Subs :
          sent'[s] # sent[s] /\ IsMessage(Last(sent'[s])) =>
              client_id[s] # None /\ Wants(client_id[s], Last(sent'[s]).topic)]_vars

IsAck(frame, p) == ~IsMessage(frame) /\ frame.topic = p

\* None of the frames ks is an acknowledgement for p.
NoAck(frames, ks, p) == \A k \in ks : ~IsAck(frames[k], p)

\* The last acknowledgement for p says whether it is held, and of two with none
\* between them one is for a subscription and one for its end.
TrueAcks(frames, p, held) ==
    /\ \A k \in 1..Len(frames) :
          IsAck(frames[k], p) /\ NoAck(frames, k+1..Len(frames), p)
              => (frames[k].kind = "ack_sub" <=> held)
    /\ \A j, k \in 1..Len(frames) :
          j < k /\ IsAck(frames[j], p) /\ IsAck(frames[k], p) /\ NoAck(frames, j+1..k-1, p)
              => frames[j].kind # frames[k].kind

\* A connection of id c other than s has ended.
EndedRun(c, s) == \E t \in Subs \ {s} : client_id[t] = c /\ link[t] = "closed"

\* The acknowledgements on a connection, read in order, tell the client what the
\* server does for it (server.cpp:91-112), as long as the client is there to read
\* them: the last one for a pattern agrees with the topics of the id, they
\* alternate, and a topic was acknowledged on this connection unless another one of
\* the id has ended.  A missing acknowledgement, a repeated one, or one of the
\* wrong kind breaks it.
AcksTellTheTruth ==
    \A c \in Ids, s \in Subs :
        subscribers[c].connected /\ s = sockets[subscribers[c].sockfd] /\ phase[s] # "closed" =>
            \A p \in Patterns :
                /\ TrueAcks(sent[s], p, p \in subscribers[c].topics)
                /\ p \in subscribers[c].topics /\ NoAck(sent[s], 1..Len(sent[s]), p)
                      => EndedRun(c, s)

------------------------------------------------------------------------------
(* The server implements PubSub.  A message counts as sent to everybody who is
   in line for it when its routing starts. *)

SessionOf(s) ==
    IF \E fd \in Fds : sockets[fd] = s /\ connected_subscribers[fd] # None
       THEN connected_subscribers[CHOOSE fd \in Fds : sockets[fd] = s]
       ELSE None

InLine(s) ==
    /\ pc = "udp"
    /\ \E c \in matching_ids : subscribers[c].connected /\ sockets[subscribers[c].sockfd] = s

Broker == INSTANCE PubSub
    WITH running <- ~Down,
         session <- [s \in Subs |-> SessionOf(s)],
         topics  <- [c \in Ids |-> subscribers[c].topics],
         stream  <- [s \in Subs |-> IF InLine(s) THEN Append(sent[s], MessageFrame(message))
                                                 ELSE sent[s]],
         gone    <- {s \in Subs : phase[s] = "closed"}

\* Every step of the loop is a step of the abstract broker or invisible to it:
\* routing one datagram to many clients looks atomic, disconnecting keeps an
\* id's topics, no acknowledgement is lost or repeated as long as the client is
\* there to read it.
ImplementsPubSub == Broker!Spec

------------------------------------------------------------------------------
(* Progress, under FairSpec *)

HasSession(s) == \E fd \in Fds : sockets[fd] = s /\ connected_subscribers[fd] # None

\* From now on every descriptor belongs to a session.
NoneToSpare == [](\A fd \in Fds : connected_subscribers[fd] # None)

\* A client that connects is given a session or an end of its connection: the
\* accept of one client per turn and the scan starve nobody.  It waits for ever
\* only while every descriptor is in use by a session that does not end, with
\* the loop turning and accept() failing (server.cpp:46-50, 211-213).
ClientsAnswered ==
    \A s \in Subs :
        link[s] = "queued" ~> HasSession(s) \/ link[s] = "closed" \/ NoneToSpare

\* Every request that arrives is taken from the connection, or the connection
\* is closed with it; requests that arrive after poll() returned, in one segment
\* with the id, or before the connection is accepted, included.
RequestsServed ==
    \A s \in Subs :
        up[s] # <<>> ~> up[s] = <<>> \/ link[s] = "closed" \/ (link[s] = "queued" /\ NoneToSpare)

\* Every datagram that arrives is routed to the end, or the server ends.
DatagramsRouted ==
    \A n \in 1..MaxMessages :
        published >= n ~> (published - Len(udp) >= n /\ matching_ids = {}) \/ Down

\* "exit" in the server's stdin ends the server and every subscriber process
\* (server.cpp:187-188, 246-249, subscriber.cpp:189-191), unless fgets() has read
\* it ahead and nothing is ever typed after it (server.cpp:184-186).
ExitReachesEveryone ==
    "exit" \in Range(stdin.waiting) ~>
        \/ Down /\ \A s \in Subs : phase[s] \in {"off", "closed"}
        \/ [](stdin.waiting = <<>> /\ "exit" \in Range(stdin.buffered))

------------------------------------------------------------------------------
(* What a comment or the README says and the code does not do *)

\* Clients may disconnect at any time without ending the server (README.md:13,
\* server.cpp:129).
SurvivesDisconnects == pc # "killed"

==============================================================================
