------------------------------- MODULE PubSub -------------------------------
(***************************************************************************)
(* What the broker promises its subscribers: a client id keeps its topics  *)
(* while it is away, a subscription is acknowledged once, and a message    *)
(* goes, at one instant, to every connected client with a covering topic   *)
(* and to nobody else.  Frames are only lost on connections whose client   *)
(* has gone.                                                               *)
(***************************************************************************)
EXTENDS TrieOps

CONSTANTS Ids, Subs, Patterns, Topics, MaxMessages, None

VARIABLES running,  \* the broker has not ended
          session,  \* the id each connection is a session of, or None
          topics,   \* the topics each id is subscribed to
          stream,   \* the frames each connection is sent
          gone      \* the connections whose client has ended

vars == <<running, session, topics, stream, gone>>

Init ==
    /\ running = TRUE
    /\ session = [s \in Subs |-> None]
    /\ topics = [c \in Ids |-> {}]
    /\ stream = [s \in Subs |-> <<>>]
    /\ gone = {}

Covers(pattern, topic) == Reaches(SplitTopic(pattern), SplitTopic(topic))

Wants(c, topic) == \E p \in topics[c] : Covers(p, topic)

\* An id has one session at a time, and a session starts with an empty stream.
Connect(s, c) ==
    /\ running
    /\ session[s] = None /\ stream[s] = <<>>
    /\ \A t \in Subs : session[t] # c
    /\ session' = [session EXCEPT ![s] = c]
    /\ UNCHANGED <<running, topics, stream, gone>>

\* The topics of the id stay.
Leave(s) ==
    /\ running
    /\ session[s] # None
    /\ session' = [session EXCEPT ![s] = None]
    /\ UNCHANGED <<running, topics, stream, gone>>

Ack(s, kind, p) ==
    \/ stream' = [stream EXCEPT ![s] = Append(@, [kind |-> kind, topic |-> p, n |-> 0])]
    \/ s \in gone /\ UNCHANGED stream

Subscribe(s, p) ==
    /\ running
    /\ session[s] # None /\ p \notin topics[session[s]]
    /\ topics' = [topics EXCEPT ![session[s]] = @ \cup {p}]
    /\ Ack(s, "ack_sub", p)
    /\ UNCHANGED <<running, session, gone>>

Unsubscribe(s, p) ==
    /\ running
    /\ session[s] # None /\ p \in topics[session[s]]
    /\ topics' = [topics EXCEPT ![session[s]] = @ \ {p}]
    /\ Ack(s, "ack_unsub", p)
    /\ UNCHANGED <<running, session, gone>>

\* Message n comes after every message that any connection was sent.
Fresh(n) ==
    \A s \in Subs : \A k \in 1..Len(stream[s]) : stream[s][k].n < n

Publish(topic, n) ==
    /\ running
    /\ Fresh(n)
    /\ stream' = [s \in Subs |->
                    IF session[s] # None /\ Wants(session[s], topic)
                       THEN Append(stream[s], [kind |-> "message", topic |-> topic, n |-> n])
                       ELSE stream[s]]
    /\ UNCHANGED <<running, session, topics, gone>>

\* The client of a connection ends, before or after its session does.
Depart(s) ==
    /\ s \notin gone
    /\ gone' = gone \cup {s}
    /\ UNCHANGED <<running, session, topics, stream>>

\* Nobody is left to read what a connection was sent last.
Lose(s) ==
    /\ running
    /\ s \in gone /\ stream[s] # <<>>
    /\ stream' = [stream EXCEPT ![s] = Front(@)]
    /\ UNCHANGED <<running, session, topics, gone>>

\* The broker ends.
Stop ==
    /\ running
    /\ running' = FALSE
    /\ UNCHANGED <<session, topics, stream, gone>>

\* The broker ends while it is sending: some connections miss their last frame.
Die ==
    /\ running
    /\ running' = FALSE
    /\ \E missing \in SUBSET {s \in Subs : stream[s] # <<>>} :
          stream' = [s \in Subs |-> IF s \in missing THEN Front(stream[s]) ELSE stream[s]]
    /\ UNCHANGED <<session, topics, gone>>

Next ==
    \/ \E s \in Subs : \/ \E c \in Ids : Connect(s, c)
                       \/ Leave(s) \/ Depart(s) \/ Lose(s)
                       \/ \E p \in Patterns : Subscribe(s, p) \/ Unsubscribe(s, p)
    \/ \E topic \in Topics, n \in 1..MaxMessages : Publish(topic, n)
    \/ Stop \/ Die

Spec == Init /\ [][Next]_vars

==============================================================================
