------------------------ MODULE PublicationProperties ------------------------
(***************************************************************************)
(* What a publication looks like at its end, against the descriptions the  *)
(* authors of the payloads gave them.  A description is a topic, a type    *)
(* and a value: number / 10^scale, or a text.                              *)
(***************************************************************************)
EXTENDS Publication

CONSTANTS ExactUpTo,  \* the greatest power of ten that a word holds, 9 in the code
          WordBits    \* the bits of a word, 32 in the code

Power[e \in Nat] == IF e = 0 THEN 1 ELSE 10 * Power[e-1]

TwoTo[e \in Nat] == IF e = 0 THEN 1 ELSE 2 * TwoTo[e-1]

ASSUME ExactAssumption ==
    /\ ExactUpTo \in Nat /\ WordBits \in Nat
    /\ Power[ExactUpTo] < WordSize /\ WordSize < Power[ExactUpTo + 1]
    /\ WordSize = TwoTo[WordBits]

------------------------------------------------------------------------------
(* What a payload file says of its payloads *)

Size(d) == IF d.number < 0 THEN -d.number ELSE d.number

SignedWord(d, sign, word) == word = Size(d) /\ (word # 0 => (sign = 1 <=> d.number < 0))

\* The bytes of a datagram carry the topic, padded with a NUL, the type and the
\* value of a description: a text may come without its NUL.
Encodes(bytes, d) ==
    LET At(k) == bytes[MAX_TOPIC_LENGTH + 1 + k]
        Brings(n) == Len(bytes) >= MAX_TOPIC_LENGTH + 1 + n
    IN  /\ d.topic \in Seq(Byte \ {0}) /\ Len(d.topic) <= MAX_TOPIC_LENGTH
        /\ \A k \in 1..Len(d.topic) : bytes[k] = d.topic[k]
        /\ Len(d.topic) < MAX_TOPIC_LENGTH => bytes[Len(d.topic) + 1] = 0
        /\ Brings(0) /\ TypeName(bytes) = d.type
        /\ d.type # "STRING" => d.number \in Int /\ d.scale \in Nat
        /\ d.type = "INT" =>
               Brings(5) /\ d.scale = 0 /\ SignedWord(d, At(1), Word(At(2), At(3), At(4), At(5)))
        /\ d.type = "SHORT_REAL" =>
               Brings(2) /\ d.scale = 2 /\ d.number = Half(At(1), At(2))
        /\ d.type = "FLOAT" =>
               Brings(6) /\ d.scale = At(6) /\ SignedWord(d, At(1), Word(At(2), At(3), At(4), At(5)))
        /\ d.type = "INVALID" => d.number = 0 /\ d.scale = 0
        /\ d.type = "STRING" =>
               /\ d.text \in Seq(Byte \ {0})
               /\ \A k \in 1..Len(d.text) : At(k) = d.text[k]
               /\ \/ /\ Len(bytes) = MAX_TOPIC_LENGTH + 1 + Len(d.text)
                     /\ Len(d.text) <= MAX_CONTENT_LENGTH
                  \/ /\ Brings(Len(d.text) + 1) /\ At(Len(d.text) + 1) = 0
                     /\ Len(d.text) < MAX_CONTENT_LENGTH

\* A payload is what its author described; one without a description is no FLOAT.
ASSUME DescriptionsAssumption ==
    \A p \in Payloads : p.bytes # None =>
        IF p.description = None
        THEN Len(p.bytes) > MAX_TOPIC_LENGTH /\ TypeName(p.bytes) # "FLOAT"
        ELSE Encodes(p.bytes, p.description)

PathTypeOK ==
    /\ ClientTypeOK
    /\ queue \in Seq([n : 1..Len(sent), bytes : Seq(Byte)])
    /\ dropped \subseteq 1..Len(sent)
    /\ received_message \in Message
    /\ frames \in Seq([n : 1..Len(sent), msg : Message])
    /\ subscriber \in {"up", "crashed"}
    /\ \A k \in DOMAIN shown : shown[k].n \in 1..Len(sent)

------------------------------------------------------------------------------
\* What was shown as item k was sent with this description, or None.
Description(k) == File[sent[shown[k].n]].description

\* The datagram of item k holds a NUL after its type.
Terminated(k) ==
    LET bytes == File[sent[shown[k].n]].bytes
    IN  \E j \in (MAX_TOPIC_LENGTH + 2)..Len(bytes) : bytes[j] = 0

\* The decimals on the screen are worth the number of a description.
IsWorth(c, d) ==
    /\ c.width = d.scale
    /\ c.fraction < Power[d.scale]
    /\ c.whole * Power[d.scale] + c.fraction = Size(d)
    /\ Size(d) # 0 => (c.minus <=> d.number < 0)

ShowsNumber(k) == IsWorth(shown[k].content, Description(k))

ShowsText(k) == shown[k].content.text = Description(k).text

\* Every message is shown under its topic and type and with the value its author
\* described, whatever datagram or other data the struct held before: numbers
\* whose power of ten fits in a word, texts that bring their NUL along.  A text
\* that brings none is shown too, with other characters after it, which is why
\* test.py, looking for a part of the line, does not see them
\* (server.cpp:196-205, utils.cpp:92-147).
ShownAsDescribed ==
    \A k \in DOMAIN shown : Description(k) # None =>
        LET d == Description(k)
        IN  /\ shown[k].topic = d.topic /\ shown[k].type = d.type
            /\ d.type # "STRING" /\ d.scale <= ExactUpTo => ShowsNumber(k)
            /\ d.type = "STRING" => IsPrefix(d.text, shown[k].content.text)
            /\ d.type = "STRING" /\ Terminated(k) => ShowsText(k)

\* The claim of the payload files: what is sent as value{Ana are mere} is shown
\* as that and nothing else (sample_payloads.json).
TextsShownExactly ==
    \A k \in DOMAIN shown :
        Description(k) # None /\ Description(k).type = "STRING" => ShowsText(k)

\* Datagrams are shown once and in the order they were sent, and one that is
\* missing between them was dropped at the server's socket, however the client
\* ends (server.cpp:191-208, subscriber.cpp:61-88).
ShownInOrder ==
    \A k \in DOMAIN shown :
        LET before == IF k = 1 THEN 0 ELSE shown[k-1].n
        IN  before < shown[k].n /\ (before+1)..(shown[k].n - 1) \subseteq dropped

\* A FLOAT kills the subscriber that displays it exactly when its exponent is at
\* least the number of bits of a word, where the wrapped power is 0; smaller
\* ones never do (utils.cpp:129-136).
OnlyLargeExponentsKill ==
    LET Exponents(n) == LET d == File[sent[n]].description
                        IN  IF d # None /\ d.type = "FLOAT" THEN {d.scale} ELSE {}
    IN  /\ \A k \in DOMAIN shown : \A e \in Exponents(shown[k].n) : e < WordBits
        /\ subscriber = "crashed" =>
               \E e \in Exponents(Head(frames).n) : e >= WordBits

\* A datagram that finds room at the server is shown, also when the client ends
\* without a report of it, as long as the subscriber lives (udp_client.py:70).
SentIsShown ==
    \A n \in 1..MaxSent :
        Len(sent) >= n ~> \/ n \in dropped
                          \/ \E k \in DOMAIN shown : shown[k].n = n
                          \/ subscriber = "crashed"

==============================================================================
