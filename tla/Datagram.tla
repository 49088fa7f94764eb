------------------------------ MODULE Datagram ------------------------------
(***************************************************************************)
(* The bytes of a publication: how the server's recvfrom() lays a datagram *)
(* into struct message, and what the subscriber displays of the struct     *)
(* (utils.cpp:76-147).  A byte has ByteBase values, 256 in the code.       *)
(***************************************************************************)
EXTENDS Integers, SequencesExt

CONSTANTS ByteBase,            \* values of a byte
          MAX_TOPIC_LENGTH,    \* 50 in the code
          MAX_CONTENT_LENGTH   \* 1500 in the code

ASSUME DatagramAssumption ==
    /\ ByteBase \in Nat /\ ByteBase > 3
    /\ MAX_TOPIC_LENGTH \in Nat
    /\ MAX_CONTENT_LENGTH \in Nat /\ MAX_CONTENT_LENGTH > 5

Byte == 0..(ByteBase - 1)

WordSize == ByteBase * ByteBase * ByteBase * ByteBase   \* a uint32_t

MessageSize == MAX_TOPIC_LENGTH + 1 + MAX_CONTENT_LENGTH

\* struct message, packed, and what recvfrom() is given to fill.
Message == [1..MessageSize -> Byte]

\* Seeded defect: a message is not given its last byte.
ReceivedButLast(old, bytes) ==
    [k \in 1..MessageSize |-> IF k < Len(bytes) THEN bytes[k] ELSE old[k]]

\* recvfrom() writes what fits of the datagram over the start of the struct and
\* leaves the rest as it was.
Received(old, bytes) ==
    [k \in 1..MessageSize |-> IF k <= Len(bytes) THEN bytes[k] ELSE old[k]]

------------------------------------------------------------------------------
\* The characters before the first NUL, all of them when there is none.
BeforeNul(bytes) ==
    LET nul == SelectInSeq(bytes, LAMBDA b : b = 0)
    IN  IF nul = 0 THEN bytes ELSE SubSeq(bytes, 1, nul - 1)

\* Big-endian numbers, as ntohs() and ntohl() read them.
Half(b1, b2)         == b1 * ByteBase + b2
Word(b1, b2, b3, b4) == Half(b1, b2) * ByteBase * ByteBase + Half(b3, b4)

TopicOf(msg) == BeforeNul(SubSeq(msg, 1, MAX_TOPIC_LENGTH))

TypeName(msg) ==
    LET type == msg[MAX_TOPIC_LENGTH + 1]
    IN  IF type \in 0..3 THEN <<"INT", "SHORT_REAL", "FLOAT", "STRING">>[type + 1] ELSE "INVALID"

Content(msg) == SubSeq(msg, MAX_TOPIC_LENGTH + 2, MessageSize)

\* Seeded defect: one multiplication too many.
PowerUpTo(exponent) ==
    LET power[i \in 0..exponent] == IF i = 0 THEN 10 ELSE (power[i-1] * 10) % WordSize
    IN  power[exponent]

\* The loop that computes power_of_10, which wraps as a uint32_t.
PowerOf10(exponent) ==
    LET power[i \in 0..exponent] == IF i = 0 THEN 1 ELSE (power[i-1] * 10) % WordSize
    IN  power[exponent]

\* Dividing by power_of_10 = 0 kills the process.
DividesByZero(msg) ==
    TypeName(msg) = "FLOAT" /\ PowerOf10(Content(msg)[6]) = 0

\* What is printed: a sign, a whole number, and a fraction padded with zeros to
\* `width` digits, or a text.
Number(minus, whole, fraction, width) ==
    [minus |-> minus, whole |-> whole, fraction |-> fraction, width |-> width, text |-> <<>>]

Characters(text) ==
    [minus |-> FALSE, whole |-> 0, fraction |-> 0, width |-> 0, text |-> text]

\* get_displayed_content, for a message that does not divide by zero.  The text
\* of a STRING ends at a NUL; when the content has none it goes on with
\* `beyond`, whatever characters follow the struct in memory.
Displayed(msg, beyond) ==
    LET c         == Content(msg)
        word      == Word(c[2], c[3], c[4], c[5])
        hundredth == Half(c[1], c[2])
        power     == PowerOf10(c[6])
    IN  CASE TypeName(msg) = "INT"        -> Number(c[1] = 1 /\ word # 0, word, 0, 0)
          [] TypeName(msg) = "SHORT_REAL" -> Number(FALSE, hundredth \div 100, hundredth % 100, 2)
          [] TypeName(msg) = "FLOAT"      -> Number(c[1] = 1, word \div power, word % power, c[6])
          [] TypeName(msg) = "STRING"     -> Characters(IF 0 \in ToSet(c) THEN BeforeNul(c) ELSE c \o beyond)
          [] OTHER                        -> Characters("INVALID")

==============================================================================
