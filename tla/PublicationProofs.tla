-------------------------- MODULE PublicationProofs --------------------------
(***************************************************************************)
(* Proofs about Publication: its client is the client of UdpClient, its    *)
(* type, the order of what is shown, that the memory of the server's       *)
(* struct does not show through a datagram with all the bytes of its type, *)
(* that a message is shown as it was described, and what kills a           *)
(* subscriber.                                                             *)
(***************************************************************************)
EXTENDS PublicationProperties, UdpClientProofs

------------------------------------------------------------------------------
(* The client *)

\* In the composition the client makes its own steps only, so what holds of
\* every run of the client holds in it.
THEOREM ClientInside == Spec => ClientSpec
<1>1. Init => ClientInit
  BY DEF Init
<1>2. [Next]_vars => [ClientNext]_clientVars
  BY DEF Next, Client, Receive, Show, Crash, vars
<1> QED BY <1>1, <1>2, PTL DEF Spec, ClientSpec

\* Reports follow what is sent, whatever becomes of the datagrams.
THEOREM ReportsAreTrueInside == Spec => []ReportsFollowSends
BY ClientInside, ReportsAreTrue, PTL

\* The client implements its workload in the composition, too.
THEOREM WorkloadInside == Spec => ImplementsWorkload
BY ClientInside, ClientImplementsWorkload, PTL

\* Manual mode follows the operator in the composition, too.
THEOREM OperatorIsFollowedInside == Spec => []ManualFollowsOperator
BY ClientInside, OperatorIsFollowed, PTL

\* The client's invariant holds in the composition.
LEMMA InvarianceInside == Spec => []IInv
BY ClientInside, Invariance, PTL

------------------------------------------------------------------------------
(* The memory of received_message *)

\* The bytes of the content that the display of a type reads.
BytesRead(type) == CASE type = "INT" -> 5 [] type = "SHORT_REAL" -> 2 [] type = "FLOAT" -> 6
                     [] OTHER -> 0

\* The struct begins with the datagram, whatever it held.
LEMMA ReceivedBytes ==
    ASSUME NEW old \in Message, NEW bytes \in Seq(Byte)
    PROVE  /\ Received(old, bytes) \in Message
           /\ \A k \in 1..MessageSize : k <= Len(bytes) => Received(old, bytes)[k] = bytes[k]
<1>1. MessageSize \in Nat /\ Len(bytes) \in Nat
  BY DatagramAssumption, LenProperties DEF MessageSize
<1>2. \A k \in 1..Len(bytes) : bytes[k] \in Byte
  BY ElementOfSeq
<1> QED BY <1>1, <1>2 DEF Received, Message

\* Content is what comes after the topic and the type.
LEMMA ContentBytes ==
    ASSUME NEW msg \in Message
    PROVE  /\ Content(msg) \in Seq(Byte)
           /\ Len(Content(msg)) = MAX_CONTENT_LENGTH
           /\ \A k \in 1..MAX_CONTENT_LENGTH : Content(msg)[k] = msg[MAX_TOPIC_LENGTH + 1 + k]
<1> DEFINE m == MAX_TOPIC_LENGTH + 2
<1>1. m \in Int /\ MessageSize \in Int /\ m >= 1 /\ MessageSize - m + 1 = MAX_CONTENT_LENGTH
      /\ MAX_CONTENT_LENGTH \in Nat /\ MAX_CONTENT_LENGTH > 5 /\ m <= MessageSize
      /\ MAX_TOPIC_LENGTH \in Nat
  BY DatagramAssumption DEF MessageSize
<1>2. \A i \in m..MessageSize : msg[i] \in Byte
  BY <1>1 DEF Message
<1>3. /\ SubSeq(msg, m, MessageSize) \in Seq(Byte)
      /\ Len(SubSeq(msg, m, MessageSize)) = MAX_CONTENT_LENGTH
      /\ \A i \in 1..MAX_CONTENT_LENGTH : SubSeq(msg, m, MessageSize)[i] = msg[m + i - 1]
  <2> HIDE DEF m
  <2> QED BY <1>1, <1>2, SubSeqProperties
<1> QED BY <1>1, <1>3 DEF Content

\* A number is displayed from the bytes of its datagram alone: for any topic,
\* any content and any two memories of the struct, a datagram that brings all
\* bytes its type reads has the same type and the same display
\* (server.cpp:196-205, utils.cpp:97-137).
THEOREM NumbersIgnoreMemory ==
    ASSUME NEW old1 \in Message, NEW old2 \in Message, NEW bytes \in Seq(Byte),
           NEW beyond1, NEW beyond2,
           Len(bytes) > MAX_TOPIC_LENGTH,
           TypeName(Received(old1, bytes)) \in {"INT", "SHORT_REAL", "FLOAT"},
           Len(bytes) >= MAX_TOPIC_LENGTH + 1 + BytesRead(TypeName(Received(old1, bytes)))
    PROVE  /\ TypeName(Received(old2, bytes)) = TypeName(Received(old1, bytes))
           /\ DividesByZero(Received(old2, bytes)) <=> DividesByZero(Received(old1, bytes))
           /\ Displayed(Received(old2, bytes), beyond2) = Displayed(Received(old1, bytes), beyond1)
<1> DEFINE msg1 == Received(old1, bytes)
           msg2 == Received(old2, bytes)
           c1 == Content(msg1)
           c2 == Content(msg2)
           type == TypeName(msg1)
<1>1. /\ MAX_TOPIC_LENGTH \in Nat /\ MAX_CONTENT_LENGTH \in Nat /\ MAX_CONTENT_LENGTH > 5
      /\ Len(bytes) \in Nat
  BY DatagramAssumption, LenProperties
<1>2. msg1 \in Message /\ msg2 \in Message
  BY ReceivedBytes
<1>3. \A k \in 1..MessageSize : k <= Len(bytes) => msg1[k] = bytes[k] /\ msg2[k] = bytes[k]
  BY ReceivedBytes
<1>4. TypeName(msg2) = type
  <2>1. msg1[MAX_TOPIC_LENGTH + 1] = msg2[MAX_TOPIC_LENGTH + 1]
    <3>1. MAX_TOPIC_LENGTH + 1 \in 1..MessageSize /\ MAX_TOPIC_LENGTH + 1 <= Len(bytes)
      BY <1>1 DEF MessageSize
    <3> QED BY <1>3, <3>1
  <2> QED BY <2>1 DEF TypeName
<1>5. \A k \in 1..BytesRead(type) : c1[k] = c2[k]
  <2>1. BytesRead(type) \in 0..6
    BY DEF BytesRead
  <2>2. SUFFICES ASSUME NEW k \in 1..BytesRead(type) PROVE c1[k] = c2[k]
    OBVIOUS
  <2>3. k \in 1..MAX_CONTENT_LENGTH /\ MAX_TOPIC_LENGTH + 1 + k \in 1..MessageSize
        /\ MAX_TOPIC_LENGTH + 1 + k <= Len(bytes)
    BY <1>1, <2>1 DEF MessageSize
  <2> QED BY <1>2, <1>3, <2>3, ContentBytes
<1> HIDE DEF msg1, msg2, c1, c2, type
<1>6. CASE type = "INT"
  <2>1. c1[1] = c2[1] /\ c1[2] = c2[2] /\ c1[3] = c2[3] /\ c1[4] = c2[4] /\ c1[5] = c2[5]
    BY <1>5, <1>6 DEF BytesRead
  <2>2. Displayed(msg1, beyond1) = Displayed(msg2, beyond2)
    BY <1>4, <1>6, <2>1 DEF Displayed, c1, c2, type
  <2>3. ~DividesByZero(msg1) /\ ~DividesByZero(msg2)
    BY <1>4, <1>6 DEF DividesByZero, type
  <2> QED BY <1>4, <2>2, <2>3 DEF msg1, msg2, type
<1>7. CASE type = "SHORT_REAL"
  <2>1. c1[1] = c2[1] /\ c1[2] = c2[2]
    BY <1>5, <1>7 DEF BytesRead
  <2>2. Displayed(msg1, beyond1) = Displayed(msg2, beyond2)
    BY <1>4, <1>7, <2>1 DEF Displayed, c1, c2, type
  <2>3. ~DividesByZero(msg1) /\ ~DividesByZero(msg2)
    BY <1>4, <1>7 DEF DividesByZero, type
  <2> QED BY <1>4, <2>2, <2>3 DEF msg1, msg2, type
<1>8. CASE type = "FLOAT"
  <2>1. c1[1] = c2[1] /\ c1[2] = c2[2] /\ c1[3] = c2[3] /\ c1[4] = c2[4] /\ c1[5] = c2[5]
        /\ c1[6] = c2[6]
    BY <1>5, <1>8 DEF BytesRead
  <2>2. Displayed(msg1, beyond1) = Displayed(msg2, beyond2)
    BY <1>4, <1>8, <2>1 DEF Displayed, c1, c2, type
  <2>3. DividesByZero(msg1) <=> DividesByZero(msg2)
    BY <1>4, <1>8, <2>1 DEF DividesByZero, c1, c2, type
  <2> QED BY <1>4, <2>2, <2>3 DEF msg1, msg2, type
<1> QED BY <1>6, <1>7, <1>8 DEF type, msg1

\* A text that brings its NUL along is displayed as it was sent: for any memory
\* of the struct and whatever follows the struct, n characters before the first
\* NUL are the text, and nothing else is (server.cpp:196-205, utils.cpp:139-142).
THEOREM TextsIgnoreMemory ==
    ASSUME NEW old \in Message, NEW bytes \in Seq(Byte), NEW beyond,
           NEW n \in Nat, n < MAX_CONTENT_LENGTH,
           Len(bytes) > MAX_TOPIC_LENGTH + 1 + n,
           bytes[MAX_TOPIC_LENGTH + 1] = 3,
           bytes[MAX_TOPIC_LENGTH + 2 + n] = 0,
           \A k \in 1..n : bytes[MAX_TOPIC_LENGTH + 1 + k] # 0
    PROVE  Displayed(Received(old, bytes), beyond)
               = Characters(SubSeq(bytes, MAX_TOPIC_LENGTH + 2, MAX_TOPIC_LENGTH + 1 + n))
<1> DEFINE msg == Received(old, bytes)
           c == Content(msg)
           text == SubSeq(bytes, MAX_TOPIC_LENGTH + 2, MAX_TOPIC_LENGTH + 1 + n)
<1>1. /\ MAX_TOPIC_LENGTH \in Nat /\ MAX_CONTENT_LENGTH \in Nat /\ MAX_CONTENT_LENGTH > 5
      /\ Len(bytes) \in Nat /\ MessageSize = MAX_TOPIC_LENGTH + 1 + MAX_CONTENT_LENGTH
  BY DatagramAssumption, LenProperties DEF MessageSize
<1>2. /\ msg \in Message
      /\ \A k \in 1..MessageSize : k <= Len(bytes) => msg[k] = bytes[k]
  BY ReceivedBytes
<1>3. /\ c \in Seq(Byte) /\ Len(c) = MAX_CONTENT_LENGTH
      /\ \A k \in 1..MAX_CONTENT_LENGTH : c[k] = msg[MAX_TOPIC_LENGTH + 1 + k]
  BY <1>2, ContentBytes
<1>4. TypeName(msg) = "STRING"
  <2>1. msg[MAX_TOPIC_LENGTH + 1] = 3
    <3>1. MAX_TOPIC_LENGTH + 1 \in 1..MessageSize /\ MAX_TOPIC_LENGTH + 1 <= Len(bytes)
      BY <1>1
    <3> QED BY <1>2, <3>1
  <2> HIDE DEF msg
  <2> QED BY <2>1 DEF TypeName
<1>5. \A k \in 1..(n+1) : k \in 1..Len(c) /\ c[k] = bytes[MAX_TOPIC_LENGTH + 1 + k]
  <2>1. SUFFICES ASSUME NEW k \in 1..(n+1)
                 PROVE  k \in 1..Len(c) /\ c[k] = bytes[MAX_TOPIC_LENGTH + 1 + k]
    OBVIOUS
  <2>2. /\ k \in 1..MAX_CONTENT_LENGTH
        /\ MAX_TOPIC_LENGTH + 1 + k \in 1..MessageSize /\ MAX_TOPIC_LENGTH + 1 + k <= Len(bytes)
    BY <1>1
  <2> QED BY <1>2, <1>3, <2>2
<1> HIDE DEF msg, c
<1>6. c[n+1] = 0 /\ n + 1 \in 1..Len(c) /\ \A k \in 1..n : c[k] # 0
  <2>1. n + 1 \in 1..(n+1) /\ MAX_TOPIC_LENGTH + 1 + (n+1) = MAX_TOPIC_LENGTH + 2 + n
        /\ 1..n \subseteq 1..(n+1)
    BY <1>1
  <2> QED BY <1>5, <2>1
<1>7. SelectInSeq(c, LAMBDA b : b = 0) = n + 1
  <2> DEFINE I == {i \in 1..Len(c) : c[i] = 0}
  <2>1. n + 1 \in I /\ \A i \in I : n + 1 <= i
    BY <1>3, <1>6
  <2>2. \A m \in I : (\A i \in I : m <= i) => m = n + 1
    BY <2>1
  <2>3. Min(I) = n + 1
    <3> HIDE DEF I
    <3> QED BY <2>1, <2>2 DEF Min
  <2> QED BY <2>1, <2>3 DEF SelectInSeq
<1>8. BeforeNul(c) = SubSeq(c, 1, n)
  BY <1>7 DEF BeforeNul
<1>9. SubSeq(c, 1, n) = text
  <2>1. /\ SubSeq(c, 1, n) \in Seq(Byte) /\ Len(SubSeq(c, 1, n)) = n
        /\ \A k \in 1..n : SubSeq(c, 1, n)[k] = c[k]
    <3>1. \A k \in 1..n : c[k] \in Byte
      BY <1>3, <1>5, ElementOfSeq
    <3> QED BY <3>1, SubSeqProperties
  <2>2. /\ text \in Seq(Byte) /\ Len(text) = n
        /\ \A k \in 1..n : text[k] = bytes[MAX_TOPIC_LENGTH + 1 + k]
    <3>1. \A i \in (MAX_TOPIC_LENGTH + 2)..(MAX_TOPIC_LENGTH + 1 + n) : bytes[i] \in Byte
      <4>1. (MAX_TOPIC_LENGTH + 2)..(MAX_TOPIC_LENGTH + 1 + n) \subseteq 1..Len(bytes)
        BY <1>1
      <4> QED BY <4>1, ElementOfSeq
    <3>2. /\ text \in Seq(Byte)
          /\ Len(text) = IF MAX_TOPIC_LENGTH + 2 <= MAX_TOPIC_LENGTH + 1 + n
                         THEN (MAX_TOPIC_LENGTH + 1 + n) - (MAX_TOPIC_LENGTH + 2) + 1 ELSE 0
          /\ \A i \in 1..((MAX_TOPIC_LENGTH + 1 + n) - (MAX_TOPIC_LENGTH + 2) + 1) :
                text[i] = bytes[MAX_TOPIC_LENGTH + 2 + i - 1]
      BY <1>1, <3>1, SubSeqProperties
    <3> HIDE DEF text
    <3> QED BY <1>1, <3>2
  <2> DEFINE cut == SubSeq(c, 1, n)
  <2> HIDE DEF text, cut
  <2>3. Len(cut) = n /\ \A k \in 1..Len(cut) : cut[k] = text[k]
    <3>1. 1..n \subseteq 1..(n+1)
      OBVIOUS
    <3> QED BY <1>5, <2>1, <2>2, <3>1 DEF cut
  <2>4. cut \in Seq(Byte) /\ text \in Seq(Byte) /\ Len(cut) = Len(text)
    BY <2>1, <2>2, <2>3 DEF cut
  <2>5. cut = text
    BY <2>3, <2>4, SeqEqual
  <2> QED BY <2>5 DEF cut
<1>10. 0 \in ToSet(c)
  BY <1>3, <1>6, LenProperties DEF ToSet
<1> QED BY <1>4, <1>8, <1>9, <1>10 DEF Displayed, c, msg

------------------------------------------------------------------------------
(* Numbered sequences *)

\* s is a sequence of whatever elements.
IsSequence(s) == s \in Seq({s[k] : k \in 1..Len(s)})

\* The numbers of s go up from above b, and those left out are in D.
Follows(b, s, D) ==
    \A k \in 1..Len(s) :
        LET before == IF k = 1 THEN b ELSE s[k-1].n
        IN  before < s[k].n /\ (before+1)..(s[k].n - 1) \subseteq D

\* The number s ends with, when it goes up from b.
EndOf(b, s) == IF Len(s) = 0 THEN b ELSE s[Len(s)].n

\* Something appended to a sequence.
LEMMA AppendAny ==
    ASSUME NEW s, IsSequence(s), NEW x
    PROVE  /\ IsSequence(Append(s, x)) /\ Len(s) \in Nat /\ Len(Append(s, x)) = Len(s) + 1
           /\ \A k \in 1..Len(s) : Append(s, x)[k] = s[k]
           /\ Append(s, x)[Len(s) + 1] = x
<1> DEFINE E == {s[k] : k \in 1..Len(s)}
           S == E \cup {x}
           T == {Append(s, x)[k] : k \in 1..Len(Append(s, x))}
<1>1. s \in Seq(E)
  BY DEF IsSequence
<1>2. s \in Seq(S)
  BY <1>1, SeqMonotonic
<1>3. x \in S /\ Len(s) \in Nat
  BY <1>2, LenProperties
<1>4. /\ Append(s, x) \in Seq(S) /\ Len(Append(s, x)) = Len(s) + 1
      /\ \A k \in 1..Len(s) : Append(s, x)[k] = s[k]
      /\ Append(s, x)[Len(s) + 1] = x
  <2> HIDE DEF S
  <2> QED BY <1>2, <1>3, AppendProperties
<1>5. \A k \in 1..Len(s) : Append(s, x)[k] \in T
  BY <1>3, <1>4
<1>6. Append(s, x)[Len(s) + 1] \in T
  BY <1>3, <1>4
<1>7. S \subseteq T
  BY <1>4, <1>5, <1>6
<1>8. Append(s, x) \in Seq(T)
  <2> HIDE DEF S, T
  <2> QED BY <1>4, <1>7, SeqMonotonic
<1> QED BY <1>3, <1>4, <1>8 DEF IsSequence

\* Something that comes next, appended.
LEMMA FollowsAppend ==
    ASSUME NEW b, NEW s, NEW D, NEW x, IsSequence(s), Follows(b, s, D),
           EndOf(b, s) < x.n, (EndOf(b, s) + 1)..(x.n - 1) \subseteq D
    PROVE  Follows(b, Append(s, x), D) /\ EndOf(b, Append(s, x)) = x.n
<1> DEFINE t == Append(s, x)
<1>1. /\ Len(s) \in Nat /\ Len(t) = Len(s) + 1
      /\ \A k \in 1..Len(s) : t[k] = s[k]
      /\ t[Len(s) + 1] = x
  BY AppendAny
<1> HIDE DEF t
<1>2. EndOf(b, t) = x.n
  BY <1>1 DEF EndOf
<1>3. ASSUME NEW k \in 1..Len(t)
      PROVE  LET before == IF k = 1 THEN b ELSE t[k-1].n
             IN  before < t[k].n /\ (before+1)..(t[k].n - 1) \subseteq D
  <2>1. CASE k = Len(t)
    <3>1. (IF k = 1 THEN b ELSE t[k-1].n) = EndOf(b, s)
      BY <1>1, <2>1 DEF EndOf
    <3> QED BY <1>1, <2>1, <3>1
  <2>2. CASE k # Len(t)
    <3>1. k \in 1..Len(s) /\ t[k] = s[k] /\ (k # 1 => t[k-1] = s[k-1])
      BY <1>1, <2>2
    <3> QED BY <3>1 DEF Follows
  <2> QED BY <2>1, <2>2
<1> QED BY <1>2, <1>3 DEF Follows, t

\* The first of a sequence, and the rest of it after the first.
LEMMA FollowsTail ==
    ASSUME NEW S, NEW s \in Seq(S), NEW b, NEW D, s # <<>>, Follows(b, s, D)
    PROVE  /\ b < Head(s).n /\ (b + 1)..(Head(s).n - 1) \subseteq D
           /\ Follows(Head(s).n, Tail(s), D)
           /\ EndOf(Head(s).n, Tail(s)) = EndOf(b, s)
<1>1. Len(s) \in Nat \ {0}
  BY EmptySeq
<1>2. /\ Head(s) = s[1] /\ Tail(s) \in Seq(S) /\ Len(Tail(s)) = Len(s) - 1
      /\ \A i \in 1..Len(Tail(s)) : Tail(s)[i] = s[i+1]
  BY HeadTailProperties
<1>3. b < Head(s).n /\ (b + 1)..(Head(s).n - 1) \subseteq D
  BY <1>1, <1>2 DEF Follows
<1>4. EndOf(Head(s).n, Tail(s)) = EndOf(b, s)
  BY <1>1, <1>2 DEF EndOf
<1>5. ASSUME NEW k \in 1..Len(Tail(s))
      PROVE  LET before == IF k = 1 THEN Head(s).n ELSE Tail(s)[k-1].n
             IN  before < Tail(s)[k].n /\ (before+1)..(Tail(s)[k].n - 1) \subseteq D
  <2>1. k + 1 \in 1..Len(s) /\ Tail(s)[k] = s[k+1] /\ k + 1 # 1 /\ (k + 1) - 1 = k
    BY <1>1, <1>2
  <2>2. (IF k = 1 THEN Head(s).n ELSE Tail(s)[k-1].n) = s[k].n
    BY <1>1, <1>2
  <2> QED BY <2>1, <2>2 DEF Follows
<1> QED BY <1>3, <1>4, <1>5 DEF Follows

\* More may be left out.
LEMMA FollowsMore ==
    ASSUME NEW b, NEW s, NEW D, NEW E, D \subseteq E, Follows(b, s, D)
    PROVE  Follows(b, s, E)
BY DEF Follows

\* A sequence over a set is a sequence.
LEMMA SeqIsSequence == ASSUME NEW S, NEW s \in Seq(S) PROVE IsSequence(s)
<1> DEFINE E == {s[k] : k \in 1..Len(s)}
<1>1. Len(s) \in Nat /\ s \in [1..Len(s) -> S]
  BY LenProperties
<1>2. s \in [1..Len(s) -> E]
  BY <1>1
<1>3. s \in UNION {[1..n -> E] : n \in Nat}
  BY <1>1, <1>2
<1> QED BY <1>3, SeqDef DEF IsSequence

------------------------------------------------------------------------------
(* The type and the order of what is shown *)

\* The numbers of the last datagram shown, forwarded and received.
LastShown  == EndOf(0, shown)
LastFramed == EndOf(LastShown, frames)
LastQueued == EndOf(LastFramed, queue)

\* From the subscriber's screen back to the socket the numbers go up, and what
\* is missing before, between and after them was dropped.
Order ==
    /\ Follows(0, shown, dropped)
    /\ Follows(LastShown, frames, dropped)
    /\ Follows(LastFramed, queue, dropped)
    /\ LastQueued \in 0..Len(sent)
    /\ (LastQueued + 1)..Len(sent) \subseteq dropped

PathInv == PathTypeOK /\ IsSequence(shown) /\ Order

Datagrams(n) == [n : 1..n, bytes : Seq(Byte)]
FramesTo(n)  == [n : 1..n, msg : Message]

\* Only sendto() changes sent, by one datagram with bytes.
LEMMA SentGrows ==
    ASSUME IInv, [ClientNext]_clientVars
    PROVE  \/ sent' = sent
           \/ /\ Len(sent) \in Nat /\ Len(sent') = Len(sent) + 1
              /\ File[Last(sent')].bytes \in Seq(Byte)
<1>1. CASE SendTo
  <2> DEFINE P == 1..Len(File)
  <2>1. choice \in P /\ sent \in Seq(P) /\ command \in Commands
    BY <1>1 DEF IInv, ClientTypeOK, CalledFor, Sending, SendTo
  <2>2. Len(sent) \in Nat /\ Len(sent') = Len(sent) + 1 /\ Last(sent') = choice
    <3>1. sent' = Append(sent, choice)
      BY <1>1 DEF SendTo
    <3> HIDE DEF P
    <3> QED BY <2>1, <3>1, FrontOfAppend, LenProperties
  <2>3. File \in Seq(Payloads)
    BY <2>1, ClientAssumption DEF CommandsAssumption, File
  <2>4. File[choice] \in Payloads
    BY <2>1, <2>3, ElementOfSeq
  <2>5. File[choice].bytes \in Seq(Byte)
    BY <1>1, <2>4, PublicationAssumption DEF SendTo
  <2> QED BY <2>2, <2>5
<1>2. CASE ~SendTo
  BY <1>2
  DEF ClientNext, ClientStep, Operator, clientVars, Parse, Refuse, SetupSocket, BindFails,
      SendFails, Report, ReportFails, Sleep, SleepFails, AllOnceNext, AllOnceEnds,
      RandomNext, RandomFails, RandomEnds, Menu, MenuFails, Choose, TryAgain, Exit,
      InputFails, Prompted, CallSend, Interrupt, End
<1> QED BY <1>1, <1>2

LEMMA PathInit == ASSUME Init PROVE PathInv
<1>1. /\ <<>> \in Seq(Datagrams(Len(sent))) /\ <<>> \in Seq(FramesTo(Len(sent)))
      /\ Len(<<>>) = 0 /\ <<>> \in Seq({})
  BY EmptySeq
<1>2. ClientTypeOK /\ sent = <<>>
  BY InitHolds DEF Init, IInv, ClientInit
<1>3. PathTypeOK
  BY <1>1, <1>2, PublicationAssumption DEF PathTypeOK, Init, Datagrams, FramesTo
<1>4. IsSequence(shown)
  BY <1>1, SeqIsSequence DEF Init
<1>5. Order
  BY <1>1, <1>2 DEF Order, Follows, EndOf, LastShown, LastFramed, LastQueued, Init
<1> QED BY <1>3, <1>4, <1>5 DEF PathInv

\* Types that speak of the number of datagrams sent hold when more are sent.
LEMMA MoreSent ==
    ASSUME NEW m \in Nat, NEW n \in Nat, m <= n
    PROVE  /\ Seq(Datagrams(m)) \subseteq Seq(Datagrams(n))
           /\ Seq(FramesTo(m)) \subseteq Seq(FramesTo(n))
<1>1. Datagrams(m) \subseteq Datagrams(n) /\ FramesTo(m) \subseteq FramesTo(n)
  BY DEF Datagrams, FramesTo
<1> QED BY <1>1, SeqMonotonic

\* A step of the client, whose datagram arrives or is dropped.
LEMMA ClientKeeps == ASSUME IInv, IInv', PathInv, Client PROVE PathInv'
<1>1. /\ UNCHANGED <<received_message, frames, subscriber, shown>>
      /\ [ClientNext]_clientVars
  BY DEF Client
<1>2. /\ queue \in Seq(Datagrams(Len(sent))) /\ frames \in Seq(FramesTo(Len(sent)))
      /\ dropped \subseteq 1..Len(sent)
  BY DEF PathInv, PathTypeOK, Datagrams, FramesTo
<1>3. Len(sent) \in Nat
  BY LenProperties DEF IInv, ClientTypeOK
<1>4. Follows(0, shown, dropped) /\ Follows(LastShown, frames, dropped)
      /\ Follows(LastFramed, queue, dropped)
      /\ LastQueued \in 0..Len(sent) /\ (LastQueued + 1)..Len(sent) \subseteq dropped
  BY DEF PathInv, Order
<1>5. LastShown' = LastShown /\ LastFramed' = LastFramed
  BY <1>1 DEF LastShown, LastFramed
<1>6. CASE NoDatagram
  <2>1. PathTypeOK' /\ IsSequence(shown)'
    BY <1>1, <1>6 DEF NoDatagram, PathInv, PathTypeOK, IInv
  <2>2. Order'
    BY <1>1, <1>4, <1>5, <1>6 DEF NoDatagram, Order, LastQueued
  <2> QED BY <2>1, <2>2 DEF PathInv
<1>7. CASE Arrive
  <2> DEFINE x == [n |-> Len(sent'), bytes |-> File[Last(sent')].bytes]
  <2>1. Len(sent') = Len(sent) + 1 /\ File[Last(sent')].bytes \in Seq(Byte)
    BY <1>1, <1>7, SentGrows DEF Arrive
  <2>2. queue' = Append(queue, x) /\ dropped' = dropped
    BY <1>7 DEF Arrive
  <2>3. queue \in Seq(Datagrams(Len(sent'))) /\ frames \in Seq(FramesTo(Len(sent')))
    <3>1. Len(sent') \in Nat /\ Len(sent) <= Len(sent')
      BY <1>3, <2>1
    <3> QED BY <1>2, <1>3, <3>1, MoreSent
  <2>4. x \in Datagrams(Len(sent')) /\ x.n = Len(sent) + 1
    BY <1>3, <2>1 DEF Datagrams
  <2>5. queue' \in Seq(Datagrams(Len(sent')))
    BY <2>2, <2>3, <2>4, AppendProperties
  <2>6. PathTypeOK'
    <3>1. dropped' \subseteq 1..Len(sent')
      <4>1. 1..Len(sent) \subseteq 1..Len(sent') /\ Len(sent') \in 1..Len(sent')
        BY <1>3, <2>1
      <4> QED BY <1>2, <2>2, <4>1
    <3>2. \A k \in DOMAIN shown : shown[k].n \in 1..Len(sent')
      BY <1>3, <2>1 DEF PathInv, PathTypeOK
    <3> QED
      BY <1>1, <2>3, <2>5, <3>1, <3>2 DEF PathInv, PathTypeOK, IInv, Datagrams, FramesTo
  <2>7. Order'
    <3> HIDE DEF x
    <3>1. IsSequence(queue)
      BY <1>2, SeqIsSequence
    <3>2. EndOf(LastFramed, queue) < x.n
          /\ (EndOf(LastFramed, queue) + 1)..(x.n - 1) \subseteq dropped
      BY <1>3, <1>4, <2>4 DEF LastQueued
    <3>3. Follows(LastFramed, queue', dropped) /\ EndOf(LastFramed, queue') = x.n
      BY <1>4, <2>2, <3>1, <3>2, FollowsAppend
    <3>4. LastQueued' = Len(sent')
      BY <1>5, <2>1, <2>4, <3>3 DEF LastQueued
    <3>5. (LastQueued' + 1)..Len(sent') = {} /\ LastQueued' \in 0..Len(sent')
      BY <1>3, <2>1, <3>4
    <3> QED BY <1>1, <1>4, <1>5, <2>2, <3>3, <3>5 DEF Order
  <2>8. IsSequence(shown)'
    BY <1>1 DEF PathInv
  <2> QED BY <2>6, <2>7, <2>8 DEF PathInv
<1>8. CASE Drop
  <2>1. Len(sent') = Len(sent) + 1
    BY <1>1, <1>8, SentGrows DEF Drop
  <2>2. queue' = queue /\ dropped' = dropped \cup {Len(sent')}
    BY <1>8 DEF Drop
  <2>3. queue \in Seq(Datagrams(Len(sent'))) /\ frames \in Seq(FramesTo(Len(sent')))
    <3>1. Len(sent') \in Nat /\ Len(sent) <= Len(sent')
      BY <1>3, <2>1
    <3> QED BY <1>2, <1>3, <3>1, MoreSent
  <2>4. PathTypeOK'
    <3>1. dropped' \subseteq 1..Len(sent')
      <4>1. 1..Len(sent) \subseteq 1..Len(sent') /\ Len(sent') \in 1..Len(sent')
        BY <1>3, <2>1
      <4> QED BY <1>2, <2>2, <4>1
    <3>2. \A k \in DOMAIN shown : shown[k].n \in 1..Len(sent')
      BY <1>3, <2>1 DEF PathInv, PathTypeOK
    <3> QED
      BY <1>1, <2>2, <2>3, <3>1, <3>2 DEF PathInv, PathTypeOK, IInv, Datagrams, FramesTo
  <2>5. Order'
    <3>1. dropped \subseteq dropped' /\ LastQueued' = LastQueued
      BY <1>5, <2>2 DEF LastQueued
    <3>2. /\ Follows(0, shown, dropped') /\ Follows(LastShown, frames, dropped')
          /\ Follows(LastFramed, queue, dropped')
      BY <1>4, <3>1, FollowsMore
    <3>3. LastQueued' \in 0..Len(sent') /\ (LastQueued' + 1)..Len(sent') \subseteq dropped'
      BY <1>3, <1>4, <2>1, <2>2, <3>1
    <3> QED BY <1>1, <1>5, <2>2, <3>2, <3>3 DEF Order
  <2>6. IsSequence(shown)'
    BY <1>1 DEF PathInv
  <2> QED BY <2>4, <2>5, <2>6 DEF PathInv
<1> QED BY <1>6, <1>7, <1>8 DEF Client

\* A round of the server: the first datagram in the socket is the last frame.
LEMMA ReceiveKeeps == ASSUME IInv', PathInv, Receive PROVE PathInv'
<1> DEFINE N == Len(sent)
           first == Head(queue)
           x == [n |-> first.n, msg |-> received_message']
<1>1. /\ queue # <<>> /\ queue' = Tail(queue) /\ frames' = Append(frames, x)
      /\ UNCHANGED <<sent, dropped, subscriber, shown>>
  BY DEF Receive, clientVars
<1>2. queue \in Seq(Datagrams(N)) /\ frames \in Seq(FramesTo(N))
  BY DEF PathInv, PathTypeOK, Datagrams, FramesTo
<1>3. first \in Datagrams(N) /\ Tail(queue) \in Seq(Datagrams(N))
  BY <1>1, <1>2, HeadTailProperties
<1>4. received_message' \in Message
  <2>1. PICK old \in {received_message} \cup Leftovers :
            received_message' = Received(old, first.bytes)
    BY DEF Receive
  <2>2. old \in Message
    BY PublicationAssumption DEF PathInv, PathTypeOK
  <2>3. first.bytes \in Seq(Byte)
    BY <1>3 DEF Datagrams
  <2> QED BY <2>1, <2>2, <2>3, ReceivedBytes
<1>5. x \in FramesTo(N)
  BY <1>3, <1>4 DEF Datagrams, FramesTo
<1>6. frames' \in Seq(FramesTo(N)) /\ queue' \in Seq(Datagrams(N))
  BY <1>1, <1>2, <1>3, <1>5, AppendProperties
<1>7. PathTypeOK' /\ IsSequence(shown)'
  <2> HIDE DEF x, first
  <2> QED
    BY <1>1, <1>4, <1>6 DEF PathInv, PathTypeOK, IInv, Datagrams, FramesTo
<1>8. /\ LastFramed < first.n /\ (LastFramed + 1)..(first.n - 1) \subseteq dropped
      /\ Follows(first.n, Tail(queue), dropped)
      /\ EndOf(first.n, Tail(queue)) = LastQueued
  BY <1>1, <1>2, FollowsTail DEF PathInv, Order, LastQueued
<1>9. Follows(LastShown, Append(frames, x), dropped) /\ EndOf(LastShown, Append(frames, x)) = first.n
  <2>1. IsSequence(frames)
    BY <1>2, SeqIsSequence
  <2>2. x.n = first.n
    OBVIOUS
  <2> HIDE DEF x, first
  <2> QED BY <1>8, <2>1, <2>2, FollowsAppend DEF PathInv, Order, LastFramed
<1>10. LastShown' = LastShown /\ LastFramed' = first.n /\ LastQueued' = LastQueued
  <2> HIDE DEF x, first
  <2> QED BY <1>1, <1>8, <1>9 DEF LastShown, LastFramed, LastQueued
<1>11. Order'
  <2> HIDE DEF x, first
  <2> QED BY <1>1, <1>8, <1>9, <1>10 DEF PathInv, Order
<1> QED BY <1>7, <1>11 DEF PathInv

\* A round of the subscriber: the first frame is the last one shown.
LEMMA ShowKeeps == ASSUME IInv', PathInv, Show PROVE PathInv'
<1> DEFINE N == Len(sent)
           first == Head(frames)
<1>1. /\ frames # <<>> /\ frames' = Tail(frames)
      /\ UNCHANGED <<sent, queue, dropped, received_message, subscriber>>
  BY DEF Show, clientVars
<1>2. PICK x : shown' = Append(shown, x) /\ x.n = first.n
  BY DEF Show
<1>3. queue \in Seq(Datagrams(N)) /\ frames \in Seq(FramesTo(N))
  BY DEF PathInv, PathTypeOK, Datagrams, FramesTo
<1>4. first \in FramesTo(N) /\ Tail(frames) \in Seq(FramesTo(N))
  BY <1>1, <1>3, HeadTailProperties
<1>5. first.n \in 1..N
  BY <1>4 DEF FramesTo
<1>6. /\ IsSequence(shown') /\ Len(shown) \in Nat /\ Len(shown') = Len(shown) + 1
      /\ \A k \in 1..Len(shown) : shown'[k] = shown[k]
      /\ shown'[Len(shown) + 1] = x
  BY <1>2, AppendAny DEF PathInv
<1>7. DOMAIN shown = 1..Len(shown) /\ DOMAIN shown' = 1..Len(shown')
  BY <1>6, LenProperties DEF PathInv, IsSequence
<1>8. \A k \in DOMAIN shown' : shown'[k].n \in 1..N
  <2> HIDE DEF first
  <2> QED BY <1>2, <1>5, <1>6, <1>7 DEF PathInv, PathTypeOK
<1>9. PathTypeOK'
  BY <1>1, <1>3, <1>4, <1>8 DEF PathInv, PathTypeOK, IInv, Datagrams, FramesTo
<1>10. /\ LastShown < first.n /\ (LastShown + 1)..(first.n - 1) \subseteq dropped
       /\ Follows(first.n, Tail(frames), dropped)
       /\ EndOf(first.n, Tail(frames)) = LastFramed
  BY <1>1, <1>3, FollowsTail DEF PathInv, Order, LastFramed
<1>11. Follows(0, shown', dropped) /\ EndOf(0, shown') = first.n
  <2> HIDE DEF first
  <2> QED BY <1>2, <1>10, FollowsAppend DEF PathInv, Order, LastShown
<1>12. LastShown' = first.n /\ LastFramed' = LastFramed /\ LastQueued' = LastQueued
  <2> HIDE DEF first
  <2> QED BY <1>1, <1>10, <1>11 DEF LastShown, LastFramed, LastQueued
<1>13. Order'
  <2> HIDE DEF first
  <2> QED BY <1>1, <1>10, <1>11, <1>12 DEF PathInv, Order
<1> QED BY <1>6, <1>9, <1>13 DEF PathInv

\* The subscriber that crashes, and a step of nobody, leave every number alone.
LEMMA QuietKeeps == ASSUME IInv', PathInv, Crash \/ UNCHANGED vars PROVE PathInv'
<1>1. /\ UNCHANGED <<sent, queue, dropped, received_message, frames, shown>>
      /\ subscriber' \in {"up", "crashed"}
  BY DEF Crash, vars, clientVars, pathVars, PathInv, PathTypeOK
<1>2. PathTypeOK' /\ IsSequence(shown)'
  BY <1>1 DEF PathInv, PathTypeOK, IInv
<1>3. Order'
  BY <1>1 DEF PathInv, Order, LastShown, LastFramed, LastQueued
<1> QED BY <1>2, <1>3 DEF PathInv

THEOREM PathInvariance == Spec => []PathInv
<1>1. Init => PathInv
  BY PathInit
<1>2. IInv /\ IInv' /\ PathInv /\ [Next]_vars => PathInv'
  BY ClientKeeps, ReceiveKeeps, ShowKeeps, QuietKeeps DEF Next
<1> QED BY <1>1, <1>2, InvarianceInside, PTL DEF Spec

\* For any payloads, sizes and rooms, every variable on the way of a datagram
\* keeps its type; no datagram is shown that was not sent.
THEOREM PathTypes == Spec => []PathTypeOK
<1>1. PathInv => PathTypeOK
  BY DEF PathInv
<1> QED BY <1>1, PathInvariance, PTL

\* For any payloads, sizes and rooms, datagrams are shown once and in the order
\* in which they were sent, and one missing in between was dropped at the
\* server's socket.
THEOREM ShownInOrderAlways == Spec => []ShownInOrder
<1>1. ASSUME PathInv PROVE ShownInOrder
  <2>1. DOMAIN shown = 1..Len(shown)
    BY <1>1, LenProperties DEF PathInv, IsSequence
  <2> QED BY <1>1, <2>1 DEF PathInv, Order, Follows, ShownInOrder
<1> QED BY <1>1, PathInvariance, PTL

------------------------------------------------------------------------------
(* Powers *)

LEMMA Induction ==
    ASSUME NEW S, S \subseteq Nat, 0 \in S, \A n \in S : n + 1 \in S
    PROVE  S = Nat
<1> DEFINE Others == Nat \ S
<1> SUFFICES ASSUME Others # {} PROVE FALSE
  OBVIOUS
<1>1. PICK m \in Others : \A n \in Others : m <= n
  BY Least
<1>2. m # 0 /\ m - 1 \in Nat
  OBVIOUS
<1>3. m - 1 \in S
  BY <1>1, <1>2
<1> QED BY <1>2, <1>3

\* What a loop that starts with x and applies g computes, as one function.
Repeats(f, x, g) == f[0] = x /\ \A n \in Nat : f[n+1] = g[f[n]]

\* The same for the first n rounds.
RepeatsUpTo(f, n, x, g) == f[0] = x /\ \A k \in 0..(n-1) : f[k+1] = g[f[k]]

LEMMA SameRepeats ==
    ASSUME NEW x, NEW g, NEW m \in Nat, NEW n \in Nat, m <= n,
           NEW f, NEW h, RepeatsUpTo(f, m, x, g), RepeatsUpTo(h, n, x, g)
    PROVE  \A k \in 0..m : f[k] = h[k]
<1> DEFINE S == {k \in Nat : k <= m => f[k] = h[k]}
<1>1. 0 \in S
  BY DEF RepeatsUpTo
<1>2. ASSUME NEW k \in S PROVE k + 1 \in S
  <2> SUFFICES ASSUME k + 1 <= m PROVE f[k+1] = h[k+1]
    OBVIOUS
  <2>1. f[k] = h[k] /\ k \in 0..(m-1) /\ k \in 0..(n-1)
    OBVIOUS
  <2> QED BY <2>1 DEF RepeatsUpTo
<1>3. S = Nat
  <2> HIDE DEF S
  <2>1. S \subseteq Nat
    BY DEF S
  <2> QED BY <1>1, <1>2, <2>1, Induction
<1> QED BY <1>3

LEMMA Repetition ==
    ASSUME NEW X, NEW x \in X, NEW g \in [X -> X]
    PROVE  \E f \in [Nat -> X] : Repeats(f, x, g)
<1> DEFINE Rounds(n) == {f \in [0..n -> X] : RepeatsUpTo(f, n, x, g)}
           S == {n \in Nat : Rounds(n) # {}}
           F == [n \in Nat |-> (CHOOSE f : f \in Rounds(n))[n]]
<1>1. 0 \in S
  <2>1. [k \in 0..0 |-> x] \in Rounds(0)
    BY DEF RepeatsUpTo
  <2> QED BY <2>1
<1>2. ASSUME NEW n \in S PROVE n + 1 \in S
  <2>1. PICK f \in [0..n -> X] : RepeatsUpTo(f, n, x, g)
    OBVIOUS
  <2> DEFINE h == [k \in 0..(n+1) |-> IF k = n + 1 THEN g[f[n]] ELSE f[k]]
  <2>2. h \in [0..(n+1) -> X]
    OBVIOUS
  <2>3. h[0] = x
    BY <2>1 DEF RepeatsUpTo
  <2>4. ASSUME NEW k \in 0..((n+1)-1) PROVE h[k+1] = g[h[k]]
    <3>1. k \in 0..(n+1) /\ k + 1 \in 0..(n+1) /\ k # n + 1 /\ n \in Nat
      OBVIOUS
    <3>2. CASE k = n
      BY <3>1, <3>2
    <3>3. CASE k # n
      <4>1. k \in 0..(n-1) /\ k + 1 # n + 1
        BY <3>1, <3>3
      <4>2. f[k+1] = g[f[k]]
        BY <2>1, <4>1 DEF RepeatsUpTo
      <4> QED BY <3>1, <4>1, <4>2
    <3> QED BY <3>2, <3>3
  <2>5. h \in Rounds(n+1)
    <3> HIDE DEF h
    <3> QED BY <2>2, <2>3, <2>4 DEF RepeatsUpTo
  <2> QED BY <2>5
<1>3. S = Nat
  <2> HIDE DEF S
  <2>1. S \subseteq Nat
    BY DEF S
  <2> QED BY <1>1, <1>2, <2>1, Induction
<1> DEFINE C(n) == CHOOSE f : f \in Rounds(n)
<1>4. ASSUME NEW n \in Nat PROVE C(n) \in Rounds(n)
  <2>1. Rounds(n) # {}
    BY <1>3
  <2> HIDE DEF Rounds
  <2> QED BY <2>1
<1>5. ASSUME NEW n \in Nat
      PROVE  C(n) \in [0..n -> X] /\ RepeatsUpTo(C(n), n, x, g)
  BY <1>4
<1>6. \A n \in Nat : F[n] = C(n)[n]
  OBVIOUS
<1> HIDE DEF Rounds, C
<1>7. F \in [Nat -> X]
  <2>1. \A n \in Nat : C(n)[n] \in X
    BY <1>5
  <2> QED BY <2>1 DEF C
<1> HIDE DEF F
<1>8. F[0] = x
  BY <1>5, <1>6 DEF RepeatsUpTo
<1>9. ASSUME NEW n \in Nat PROVE F[n+1] = g[F[n]]
  <2>1. C(n+1)[n+1] = g[C(n+1)[n]]
    BY <1>5 DEF RepeatsUpTo
  <2>2. C(n)[n] = C(n+1)[n]
    <3>1. \A k \in 0..n : C(n)[k] = C(n+1)[k]
      <4>1. n <= n + 1 /\ n + 1 \in Nat
        OBVIOUS
      <4> QED BY <1>5, <4>1, SameRepeats
    <3> QED BY <3>1
  <2> QED BY <1>6, <2>1, <2>2
<1> QED BY <1>7, <1>8, <1>9 DEF Repeats

\* What the recursion of Power and of TwoTo defines.
LEMMA PowersOf ==
    ASSUME NEW b \in Nat, NEW F, F = CHOOSE f : f = [e \in Nat |-> IF e = 0 THEN 1 ELSE b * f[e-1]]
    PROVE  /\ F \in [Nat -> Nat] /\ F[0] = 1
           /\ \A n \in Nat : F[n+1] = b * F[n]
<1> DEFINE Step == [x \in Nat |-> b * x]
           Solves(f) == f = [e \in Nat |-> IF e = 0 THEN 1 ELSE b * f[e-1]]
<1>1. Step \in [Nat -> Nat]
  OBVIOUS
<1>2. PICK f \in [Nat -> Nat] : Repeats(f, 1, Step)
  <2> HIDE DEF Step
  <2> QED BY <1>1, Repetition
<1>3. Solves(f)
  <2>1. ASSUME NEW e \in Nat PROVE f[e] = IF e = 0 THEN 1 ELSE b * f[e-1]
    <3>1. CASE e = 0
      BY <1>2, <3>1 DEF Repeats
    <3>2. CASE e # 0
      <4>1. e - 1 \in Nat /\ (e - 1) + 1 = e
        BY <3>2
      <4>2. f[(e-1)+1] = Step[f[e-1]] /\ f[e-1] \in Nat
        BY <1>2, <4>1 DEF Repeats
      <4> QED BY <3>2, <4>1, <4>2
    <3> QED BY <3>1, <3>2
  <2> QED BY <2>1
<1>4. Solves(F)
  <2>1. F = CHOOSE h : Solves(h)
    OBVIOUS
  <2> HIDE DEF Solves
  <2> QED BY <1>3, <2>1
<1>5. F[0] = 1
  BY <1>4
<1>6. ASSUME NEW n \in Nat PROVE F[n+1] = b * F[n]
  <2>1. n + 1 \in Nat /\ n + 1 # 0 /\ (n + 1) - 1 = n
    OBVIOUS
  <2> QED BY <1>4, <2>1
<1>7. F \in [Nat -> Nat]
  <2> DEFINE S == {n \in Nat : F[n] \in Nat}
  <2>0. \A x \in Nat : b * x \in Nat
    OBVIOUS
  <2>1. 0 \in S /\ \A n \in S : n + 1 \in S
    BY <1>5, <1>6, <2>0
  <2>2. S = Nat
    <3> HIDE DEF S
    <3>1. S \subseteq Nat
      BY DEF S
    <3> QED BY <2>1, <3>1, Induction
  <2>3. \A n \in Nat : F[n] \in Nat
    BY <2>2
  <2>4. F = [n \in Nat |-> F[n]]
    BY <1>4
  <2> QED BY <2>3, <2>4
<1> QED BY <1>5, <1>6, <1>7

LEMMA PowerIs ==
    /\ Power \in [Nat -> Nat] /\ Power[0] = 1
    /\ \A n \in Nat : Power[n+1] = 10 * Power[n]
BY PowersOf DEF Power

LEMMA TwoToIs ==
    /\ TwoTo \in [Nat -> Nat] /\ TwoTo[0] = 1
    /\ \A n \in Nat : TwoTo[n+1] = 2 * TwoTo[n]
BY PowersOf DEF TwoTo

LEMMA WordIs == WordSize \in Nat /\ WordSize > 0
<1>1. \A a, b \in Nat : a > 0 /\ b > 0 => a * b \in Nat /\ a * b > 0
  OBVIOUS
<1> QED BY <1>1, DatagramAssumption DEF WordSize

\* The loop of the code, as repetition.
LEMMA WrappedIs ==
    ASSUME NEW e \in Nat
    PROVE  \E f \in [0..e -> Nat] :
              /\ PowerOf10(e) = f[e] /\ f[0] = 1
              /\ \A i \in 0..(e-1) : f[i+1] = (f[i] * 10) % WordSize
<1> DEFINE Step == [x \in Nat |-> (x * 10) % WordSize]
           Solves(f) == f = [i \in 0..e |-> IF i = 0 THEN 1 ELSE (f[i-1] * 10) % WordSize]
<1>0. \A w \in Nat : w > 0 => \A x \in Nat : (x * 10) % w \in Nat
  OBVIOUS
<1>1. Step \in [Nat -> Nat]
  BY <1>0, WordIs
<1>2. PICK h \in [Nat -> Nat] : Repeats(h, 1, Step)
  <2> HIDE DEF Step
  <2> QED BY <1>1, Repetition
<1> DEFINE f0 == [i \in 0..e |-> h[i]]
<1>3. Solves(f0)
  <2>1. ASSUME NEW i \in 0..e PROVE f0[i] = IF i = 0 THEN 1 ELSE (f0[i-1] * 10) % WordSize
    <3>1. CASE i = 0
      BY <1>2, <3>1 DEF Repeats
    <3>2. CASE i # 0
      <4>1. i - 1 \in Nat /\ (i - 1) + 1 = i /\ i - 1 \in 0..e
        BY <3>2
      <4>2. h[(i-1)+1] = Step[h[i-1]] /\ h[i-1] \in Nat
        BY <1>2, <4>1 DEF Repeats
      <4> QED BY <3>2, <4>1, <4>2
    <3> QED BY <3>1, <3>2
  <2> HIDE DEF f0
  <2>2. f0 = [i \in 0..e |-> f0[i]]
    BY DEF f0
  <2> QED BY <2>1, <2>2
<1> DEFINE power == CHOOSE f : Solves(f)
<1>4. Solves(power)
  <2> HIDE DEF Solves, f0
  <2> QED BY <1>3
<1>5. PowerOf10(e) = power[e]
  BY DEF PowerOf10
<1> HIDE DEF power
<1>6. power[0] = 1
  BY <1>4
<1>7. \A i \in 0..(e-1) : power[i+1] = (power[i] * 10) % WordSize
  <2>1. \A i \in 0..(e-1) : i + 1 \in 0..e /\ i + 1 # 0 /\ (i+1) - 1 = i
    OBVIOUS
  <2> QED BY <1>4, <2>1
<1>8. power \in [0..e -> Nat]
  <2> DEFINE S == {n \in Nat : n <= e => power[n] \in Nat}
  <2>1. 0 \in S
    BY <1>6
  <2>2. ASSUME NEW n \in S PROVE n + 1 \in S
    BY <1>0, <1>7, WordIs
  <2>3. S = Nat
    <3> HIDE DEF S
    <3>1. S \subseteq Nat
      BY DEF S
    <3> QED BY <2>1, <2>2, <3>1, Induction
  <2>4. \A n \in 0..e : power[n] \in Nat
    BY <2>3
  <2>5. power = [i \in 0..e |-> power[i]]
    BY <1>4
  <2> QED BY <2>4, <2>5
<1> QED BY <1>5, <1>6, <1>7, <1>8

\* Products of naturals, in the forms the solver does not find by itself.
LEMMA Remainder ==
    ASSUME NEW m \in Nat, NEW k \in Nat, NEW r \in Nat, r < m
    PROVE  (m * k + r) % m = r
<1> DEFINE n == m * k + r
           q == n \div m
           s == n % m
<1>1. m > 0 /\ n \in Nat
  <2>1. m * k \in Nat
    OBVIOUS
  <2> QED BY <2>1
<1>2. q \in Int /\ s \in 0..(m-1) /\ n = m * q + s
  <2> HIDE DEF n
  <2> QED BY <1>1
<1> HIDE DEF q, s
<1>3. m * (q - k) = r - s
  BY <1>2
<1>4. -m < m * (q - k) /\ m * (q - k) < m
  BY <1>1, <1>2, <1>3
<1>5. q = k
  <2>1. \A d \in Int : d >= 1 => m * d >= m
    BY <1>1
  <2>2. \A d \in Int : d <= -1 => m * d <= -m
    BY <1>1
  <2>3. q - k \in Int
    BY <1>2
  <2> QED BY <1>2, <1>4, <2>1, <2>2, <2>3
<1> QED BY <1>2, <1>5 DEF s

\* The remainder, by a name: the solver does not find instances of `%`.
Rem(x, w) == x % w

LEMMA CommonFactor ==
    ASSUME NEW a \in Nat, NEW b \in Nat, NEW c \in Nat, a > 0, c > 0,
           NEW x, NEW w, x = a * b, w = a * c
    PROVE  Rem(x, w) = a * Rem(b, c)
<1> DEFINE k == b \div c
           r == b % c
<1>1. k \in Nat /\ r \in Nat /\ r < c /\ b = c * k + r
  OBVIOUS
<1> HIDE DEF k, r
<1>2. a * b = (a * c) * k + a * r
  BY <1>1
<1>3. a * r < a * c /\ a * r \in Nat /\ a * c \in Nat
  <2>1. \A d \in Nat : d > 0 => a * d > 0
    OBVIOUS
  <2>2. a * (c - r) > 0 /\ a * (c - r) = a * c - a * r
    BY <1>1, <2>1
  <2>3. a * r \in Nat /\ a * c \in Nat
    BY <1>1
  <2> QED BY <2>2, <2>3
<1>4. ((a * c) * k + a * r) % (a * c) = a * r
  BY <1>1, <1>3, Remainder
<1> QED BY <1>2, <1>4 DEF r, Rem

\* A power of two is the product of two that share its exponent.
LEMMA TwoToSplits ==
    ASSUME NEW n \in Nat
    PROVE  \A i \in 0..n : TwoTo[n] = TwoTo[i] * TwoTo[n-i]
<1> DEFINE S == {i \in Nat : i <= n => TwoTo[n] = TwoTo[i] * TwoTo[n-i]}
<1>1. 0 \in S
  <2>1. \A x \in Nat : x = 1 * x
    OBVIOUS
  <2> QED BY <2>1, TwoToIs
<1>2. ASSUME NEW i \in S PROVE i + 1 \in S
  <2> SUFFICES ASSUME i + 1 <= n PROVE TwoTo[n] = TwoTo[i+1] * TwoTo[n-(i+1)]
    OBVIOUS
  <2>1. n - (i+1) \in Nat /\ n - i = (n - (i+1)) + 1 /\ i \in Nat
    OBVIOUS
  <2>2. TwoTo[n-i] = 2 * TwoTo[n-(i+1)] /\ TwoTo[i+1] = 2 * TwoTo[i]
    BY <2>1, TwoToIs
  <2>3. \A x, y \in Nat : x * (2 * y) = (2 * x) * y
    OBVIOUS
  <2>4. TwoTo[i] \in Nat /\ TwoTo[n-(i+1)] \in Nat
    BY <2>1, TwoToIs
  <2>5. TwoTo[n] = TwoTo[i] * TwoTo[n-i]
    OBVIOUS
  <2> QED BY <2>2, <2>3, <2>4, <2>5
<1>3. S = Nat
  <2> HIDE DEF S
  <2>1. S \subseteq Nat
    BY DEF S
  <2> QED BY <1>1, <1>2, <2>1, Induction
<1> QED BY <1>3

LEMMA TwoToPositive == \A n \in Nat : TwoTo[n] > 0
<1> DEFINE S == {n \in Nat : TwoTo[n] > 0}
<1>1. 0 \in S /\ \A n \in S : n + 1 \in S
  BY TwoToIs
<1>2. S = Nat
  <2> HIDE DEF S
  <2>1. S \subseteq Nat
    BY DEF S
  <2> QED BY <1>1, <2>1, Induction
<1> QED BY <1>2

\* Smaller exponents have smaller powers.
LEMMA PowersGrow ==
    ASSUME NEW m \in Nat, NEW n \in Nat, m <= n
    PROVE  Power[m] \in Nat /\ 0 < Power[m] /\ Power[m] <= Power[n]
<1> DEFINE S == {i \in Nat : 0 < Power[i]}
           T == {i \in Nat : m <= i => Power[m] <= Power[i]}
<1>1. S = Nat
  <2>1. 0 \in S /\ \A i \in S : i + 1 \in S
    BY PowerIs
  <2> HIDE DEF S
  <2>2. S \subseteq Nat
    BY DEF S
  <2> QED BY <2>1, <2>2, Induction
<1>2. T = Nat
  <2>1. 0 \in T
    BY PowerIs
  <2>2. ASSUME NEW i \in T PROVE i + 1 \in T
    <3>1. Power[i+1] = 10 * Power[i] /\ Power[i] \in Nat /\ Power[i+1] \in Nat
          /\ Power[m] \in Nat
      BY PowerIs
    <3>2. CASE m <= i
      BY <3>1, <3>2
    <3>3. CASE ~(m <= i)
      <4>1. m <= i + 1 => m = i + 1
        BY <3>3
      <4> QED BY <3>1, <4>1
    <3> QED BY <3>2, <3>3
  <2> HIDE DEF T
  <2>3. T \subseteq Nat
    BY DEF T
  <2> QED BY <2>1, <2>2, <2>3, Induction
<1>3. m \in S /\ n \in T
  BY <1>1, <1>2
<1> QED BY <1>3, PowerIs

\* As long as the power of ten fits in a word the loop computes it.
LEMMA ExactPowers ==
    ASSUME NEW e \in Nat, e <= ExactUpTo
    PROVE  PowerOf10(e) = Power[e]
<1>1. PICK f \in [0..e -> Nat] :
          /\ PowerOf10(e) = f[e] /\ f[0] = 1
          /\ \A i \in 0..(e-1) : f[i+1] = (f[i] * 10) % WordSize
  BY WrappedIs
<1> DEFINE S == {i \in Nat : i <= e => f[i] = Power[i]}
<1>2. 0 \in S
  BY <1>1, PowerIs
<1>3. ASSUME NEW i \in S PROVE i + 1 \in S
  <2> SUFFICES ASSUME i + 1 <= e PROVE f[i+1] = Power[i+1]
    OBVIOUS
  <2>1. f[i] = Power[i] /\ f[i+1] = (f[i] * 10) % WordSize
    BY <1>1
  <2>2. Power[i+1] = 10 * Power[i] /\ Power[i] \in Nat /\ Power[i+1] \in Nat
    BY PowerIs
  <2>3. Power[i+1] < WordSize
    <3>1. i + 1 \in Nat /\ ExactUpTo \in Nat /\ i + 1 <= ExactUpTo
      BY ExactAssumption
    <3>2. Power[i+1] <= Power[ExactUpTo] /\ Power[ExactUpTo] \in Nat
      BY <3>1, PowersGrow, PowerIs
    <3> QED BY <2>2, <3>2, WordIs, ExactAssumption
  <2>4. \A x, w \in Nat : x < w => x % w = x
    OBVIOUS
  <2> QED BY <2>1, <2>2, <2>3, <2>4, WordIs
<1>4. S = Nat
  <2> HIDE DEF S
  <2>1. S \subseteq Nat
    BY DEF S
  <2> QED BY <1>2, <1>3, <2>1, Induction
<1>5. e \in S
  BY <1>4
<1> QED BY <1>1, <1>5

\* x is a times an odd number.
OddMultiple(x, a) == \E q \in Nat : q % 2 = 1 /\ x = a * q

IsTwice(b, a) == b = 2 * a

\* One round of the loop, in a word of b * r, on an odd multiple of half of b.
LEMMA TenTimes ==
    ASSUME NEW x \in Nat, NEW w, NEW a \in Nat, NEW b \in Nat, NEW r \in Nat, NEW h \in Nat,
           b > 0, r > 0, OddMultiple(x, a), IsTwice(b, a), w = b * r
    PROVE  /\ r = 1 => (x * 10) % w = 0
           /\ IsTwice(r, h) => OddMultiple((x * 10) % w, b)
<1>1. PICK q \in Nat : q % 2 = 1 /\ x = a * q
  BY DEF OddMultiple
<1> DEFINE k == (5 * q) \div r
           t == (5 * q) % r
<1>2. (x * 10) % w = b * t
  <2> DEFINE c == 5 * q
             y == x * 10
  <2>1. y = b * c /\ c \in Nat
    BY <1>1 DEF IsTwice
  <2> HIDE DEF c, y
  <2>2. Rem(y, w) = b * Rem(c, r)
    BY <2>1, CommonFactor
  <2> QED BY <2>1, <2>2 DEF c, y, Rem
<1>3. k \in Nat /\ t \in Nat /\ t < r /\ 5 * q = r * k + t
  OBVIOUS
<1>4. ASSUME IsTwice(r, h) PROVE t % 2 = 1
  <2> DEFINE z == h * k
             half == q \div 2
  <2>1. half \in Nat /\ q = 2 * half + 1
    BY <1>1
  <2> HIDE DEF k, t, half
  <2>2. z \in Nat /\ (2 * h) * k = 2 * z
    BY <1>3
  <2> HIDE DEF z
  <2>3. 10 * half + 5 = 2 * z + t
    BY <1>3, <1>4, <2>1, <2>2 DEF IsTwice
  <2> QED BY <1>3, <2>1, <2>2, <2>3
<1> HIDE DEF k, t
<1>5. r = 1 => t = 0
  BY <1>3
<1>6. b * 0 = 0
  OBVIOUS
<1> QED BY <1>2, <1>3, <1>4, <1>5, <1>6 DEF OddMultiple

\* The loop yields 0 from the exponent on that is the number of bits of a word:
\* before that 2^i is the greatest power of two in it.
LEMMA VanishingPowers ==
    ASSUME NEW e \in Nat
    PROVE  /\ PowerOf10(e) \in Nat
           /\ PowerOf10(e) = 0 <=> e >= WordBits
<1> DEFINE B == WordBits
<1>1. PICK f \in [0..e -> Nat] :
          /\ PowerOf10(e) = f[e] /\ f[0] = 1
          /\ \A i \in 0..(e-1) : f[i+1] = (f[i] * 10) % WordSize
  BY WrappedIs
<1>2. B \in Nat /\ B # 0 /\ WordSize = TwoTo[B]
  <2>1. WordSize # 1
    <3>1. \A a, b \in Nat : a > 3 /\ b > 3 => a * b \in Nat /\ a * b > 3
      OBVIOUS
    <3> QED BY <3>1, DatagramAssumption DEF WordSize
  <2> QED BY <2>1, ExactAssumption, TwoToIs
<1> HIDE DEF B
<1> DEFINE S == {i \in Nat : i <= e => IF i < B THEN OddMultiple(f[i], TwoTo[i]) ELSE f[i] = 0}
<1>3. 0 \in S
  <2>1. 1 % 2 = 1 /\ f[0] = TwoTo[0] * 1
    BY <1>1, TwoToIs
  <2>2. OddMultiple(f[0], TwoTo[0])
    BY <2>1 DEF OddMultiple
  <2> QED BY <1>2, <2>2
<1>4. ASSUME NEW i \in S PROVE i + 1 \in S
  <2> SUFFICES ASSUME i + 1 <= e
               PROVE  IF i + 1 < B THEN OddMultiple(f[i+1], TwoTo[i+1]) ELSE f[i+1] = 0
    OBVIOUS
  <2>1. f[i+1] = (f[i] * 10) % WordSize /\ i \in Nat /\ f[i] \in Nat
    BY <1>1, <1>2
  <2>2. CASE i < B
    <3> DEFINE r == TwoTo[B-(i+1)]
               a == TwoTo[i]
               b == TwoTo[i+1]
    <3>1. OddMultiple(f[i], a)
      BY <2>2
    <3>2. B - (i+1) \in Nat /\ i + 1 \in 0..B
      BY <1>2, <2>1, <2>2
    <3>3. r \in Nat /\ r > 0 /\ a \in Nat /\ b \in Nat /\ b > 0 /\ IsTwice(b, a)
      BY <2>1, <3>2, TwoToIs, TwoToPositive DEF IsTwice
    <3>4. WordSize = b * r
      BY <1>2, <3>2, <3>3, TwoToSplits
    <3> HIDE DEF r, a, b, S
    <3>5. CASE i + 1 < B
      <4>1. PICK h \in Nat : IsTwice(r, h)
        <5>1. B - (i+1) = (B - (i+2)) + 1 /\ B - (i+2) \in Nat
          BY <1>2, <2>1, <3>5
        <5> QED BY <5>1, TwoToIs DEF r, IsTwice
      <4>2. OddMultiple(f[i+1], b)
        BY <2>1, <3>1, <3>3, <3>4, <4>1, TenTimes
      <4> QED BY <3>5, <4>2 DEF b
    <3>6. CASE ~(i + 1 < B)
      <4>1. B - (i+1) = 0
        BY <1>2, <2>1, <2>2, <3>6
      <4>2. r = 1
        BY <4>1, TwoToIs DEF r
      <4>3. f[i+1] = 0
        BY <2>1, <3>1, <3>3, <3>4, <4>2, TenTimes
      <4> QED BY <3>6, <4>3
    <3> QED BY <3>5, <3>6
  <2>3. CASE ~(i < B)
    <3>1. f[i] = 0 /\ ~(i + 1 < B)
      BY <1>2, <2>3
    <3>2. \A w \in Nat : w > 0 => (0 * 10) % w = 0
      OBVIOUS
    <3> QED BY <1>2, <2>1, <3>1, <3>2, WordIs
  <2> QED BY <2>2, <2>3
<1>5. S = Nat
  <2> HIDE DEF S
  <2>1. S \subseteq Nat
    BY DEF S
  <2> QED BY <1>3, <1>4, <2>1, Induction
<1>6. e \in S
  BY <1>5
<1>7. CASE e < B
  <2>1. PICK q \in Nat : q % 2 = 1 /\ f[e] = TwoTo[e] * q
    BY <1>6, <1>7 DEF OddMultiple
  <2>2. \A x, y \in Nat : x > 0 /\ y > 0 => x * y # 0
    OBVIOUS
  <2>3. f[e] # 0 /\ f[e] \in Nat
    <3>1. TwoTo[e] \in Nat /\ TwoTo[e] > 0
      BY TwoToIs, TwoToPositive
    <3>2. q # 0
      BY <2>1
    <3>3. TwoTo[e] * q # 0
      <4>1. q > 0
        BY <3>2
      <4> QED BY <2>2, <3>1, <4>1
    <3> QED BY <1>1, <2>1, <3>3
  <2> QED BY <1>1, <1>2, <1>7, <2>3 DEF B
<1>8. CASE ~(e < B)
  BY <1>1, <1>2, <1>6, <1>8 DEF B
<1> QED BY <1>7, <1>8

------------------------------------------------------------------------------
(* What is displayed of a datagram, against its description *)

\* The first m elements.
LEMMA Start ==
    ASSUME NEW s \in Seq(Byte), NEW m \in 0..Len(s)
    PROVE  /\ SubSeq(s, 1, m) \in Seq(Byte) /\ Len(SubSeq(s, 1, m)) = m
           /\ \A k \in 1..m : SubSeq(s, 1, m)[k] = s[k]
<1>1. Len(s) \in Nat /\ \A k \in 1..m : s[k] \in Byte
  BY LenProperties, ElementOfSeq
<1>2. /\ SubSeq(s, 1, m) \in Seq(Byte) /\ Len(SubSeq(s, 1, m)) = IF 1 <= m THEN m - 1 + 1 ELSE 0
      /\ \A k \in 1..(m - 1 + 1) : SubSeq(s, 1, m)[k] = s[1 + k - 1]
  <2>1. m \in Int
    OBVIOUS
  <2> QED BY <1>1, <2>1, SubSeqProperties
<1> QED BY <1>1, <1>2

\* BeforeNul cuts at the first NUL, or nowhere.
LEMMA NulCut ==
    ASSUME NEW s \in Seq(Byte)
    PROVE  \E m \in 0..Len(s) :
              /\ BeforeNul(s) = SubSeq(s, 1, m)
              /\ \A k \in 1..m : s[k] # 0
              /\ m < Len(s) => s[m+1] = 0
<1> DEFINE I == {i \in 1..Len(s) : s[i] = 0}
<1>1. Len(s) \in Nat
  BY LenProperties
<1>2. CASE I = {}
  <2>1. SelectInSeq(s, LAMBDA b : b = 0) = 0
    BY <1>2 DEF SelectInSeq
  <2>2. BeforeNul(s) = s
    BY <2>1 DEF BeforeNul
  <2>3. SubSeq(s, 1, Len(s)) = s
    <3> DEFINE m == Len(s)
               t == SubSeq(s, 1, m)
    <3>1. m \in 0..Len(s)
      BY <1>1
    <3> HIDE DEF m
    <3>2. t \in Seq(Byte) /\ Len(t) = m /\ \A k \in 1..m : t[k] = s[k]
      BY <3>1, Start
    <3> HIDE DEF t
    <3>3. t = s
      BY <3>2, SeqEqual DEF m
    <3> QED BY <3>3 DEF t, m
  <2>4. /\ Len(s) \in 0..Len(s) /\ ~(Len(s) < Len(s))
        /\ BeforeNul(s) = SubSeq(s, 1, Len(s)) /\ \A k \in 1..Len(s) : s[k] # 0
    BY <1>1, <1>2, <2>2, <2>3
  <2> QED BY <2>4
<1>3. CASE I # {}
  <2>1. PICK i \in I : \A j \in I : i <= j
    <3>1. I \subseteq Nat
      OBVIOUS
    <3> HIDE DEF I
    <3> QED BY <1>3, <3>1, Least
  <2>2. Min(I) = i
    <3>1. \A m \in I : (\A j \in I : m <= j) => m = i
      BY <2>1
    <3> HIDE DEF I
    <3> QED BY <2>1, <3>1 DEF Min
  <2>3. SelectInSeq(s, LAMBDA b : b = 0) = i
    BY <1>3, <2>2 DEF SelectInSeq
  <2>4. BeforeNul(s) = SubSeq(s, 1, i - 1)
    BY <2>3 DEF BeforeNul
  <2>5. i - 1 \in 0..Len(s) /\ \A k \in 1..(i-1) : s[k] # 0
    BY <1>1, <2>1
  <2>6. s[(i - 1) + 1] = 0
    OBVIOUS
  <2> QED BY <2>4, <2>5, <2>6
<1> QED BY <1>2, <1>3

\* The sequence begins with a text without NULs.
BeginsWith(s, text) ==
    /\ text \in Seq(Byte \ {0}) /\ Len(text) <= Len(s)
    /\ \A k \in 1..Len(text) : s[k] = text[k]

\* What is before the NUL then begins with the text, too, and is the text when
\* the NUL follows it.
LEMMA TextBeforeNul ==
    ASSUME NEW s \in Seq(Byte), NEW text, BeginsWith(s, text)
    PROVE  /\ BeginsWith(BeforeNul(s), text) /\ BeforeNul(s) \in Seq(Byte)
           /\ (Len(text) < Len(s) => s[Len(text) + 1] = 0) => BeforeNul(s) = text
<1>1. PICK m \in 0..Len(s) :
          /\ BeforeNul(s) = SubSeq(s, 1, m)
          /\ \A k \in 1..m : s[k] # 0
          /\ m < Len(s) => s[m+1] = 0
  BY NulCut
<1> DEFINE t == BeforeNul(s)
           n == Len(text)
<1>2. t \in Seq(Byte) /\ Len(t) = m /\ \A k \in 1..m : t[k] = s[k]
  BY <1>1, Start
<1>3. /\ n \in Nat /\ Len(s) \in Nat /\ n <= Len(s)
      /\ \A k \in 1..n : s[k] = text[k] /\ text[k] # 0
      /\ text \in Seq(Byte)
  <2>1. \A k \in 1..n : text[k] \in Byte \ {0}
    BY ElementOfSeq DEF BeginsWith
  <2>2. text \in Seq(Byte)
    BY SeqMonotonic DEF BeginsWith
  <2> QED BY <2>1, <2>2, LenProperties DEF BeginsWith
<1> HIDE DEF t, n
<1>4. n <= m
  <2> SUFFICES ASSUME m < n PROVE FALSE
    BY <1>3
  <2>1. s[m+1] = 0 /\ m + 1 \in 1..n
    BY <1>1, <1>3
  <2> QED BY <1>3, <2>1
<1>5. BeginsWith(t, text)
  <2>1. \A k \in 1..n : t[k] = text[k]
    BY <1>2, <1>3, <1>4
  <2> QED BY <1>2, <1>4, <2>1 DEF BeginsWith, n
<1>6. ASSUME n < Len(s) => s[n + 1] = 0 PROVE t = text
  <2>1. m = n
    <3> SUFFICES ASSUME n < m PROVE FALSE
      BY <1>3, <1>4
    <3>1. n + 1 \in 1..m /\ n < Len(s)
      BY <1>3
    <3> QED BY <1>1, <1>6, <3>1
  <2>2. Len(t) = Len(text) /\ \A k \in 1..Len(t) : t[k] = text[k]
    BY <1>2, <1>3, <2>1 DEF n
  <2> QED BY <1>2, <1>3, <2>2, SeqEqual
<1> QED BY <1>2, <1>5, <1>6 DEF t, n

LEMMA BeginningIsPrefix ==
    ASSUME NEW s \in Seq(Byte), NEW text, BeginsWith(s, text)
    PROVE  IsPrefix(text, s)
<1> DEFINE n == Len(text)
<1>1. text \in Seq(Byte) /\ n \in Nat /\ Len(s) \in Nat /\ n <= Len(s)
      /\ \A k \in 1..n : s[k] = text[k]
  BY SeqMonotonic, LenProperties DEF BeginsWith
<1>2. n \in 0..Len(s) /\ n \in 0..Len(text)
  BY <1>1
<1> HIDE DEF n
<1> DEFINE a == SubSeq(text, 1, n)
           b == SubSeq(s, 1, n)
<1>3. a \in Seq(Byte) /\ Len(a) = n /\ \A k \in 1..n : a[k] = text[k]
  BY <1>1, <1>2, Start
<1>4. b \in Seq(Byte) /\ Len(b) = n /\ \A k \in 1..n : b[k] = s[k]
  BY <1>1, <1>2, Start
<1> HIDE DEF a, b
<1>5. a = b
  BY <1>1, <1>3, <1>4, SeqEqual
<1> QED BY <1>1, <1>5 DEF IsPrefix, a, b, n

\* Where the parts of a datagram are in the struct.
LEMMA ReceivedParts ==
    ASSUME NEW old \in Message, NEW bytes \in Seq(Byte), Len(bytes) > MAX_TOPIC_LENGTH
    PROVE  LET msg == Received(old, bytes)
           IN  /\ msg \in Message
               /\ \A k \in 1..MAX_TOPIC_LENGTH : msg[k] = bytes[k]
               /\ TypeName(msg) = TypeName(bytes)
               /\ Content(msg) \in Seq(Byte) /\ Len(Content(msg)) = MAX_CONTENT_LENGTH
               /\ \A k \in 1..MAX_CONTENT_LENGTH :
                     Len(bytes) >= MAX_TOPIC_LENGTH + 1 + k =>
                         Content(msg)[k] = bytes[MAX_TOPIC_LENGTH + 1 + k]
<1> DEFINE msg == Received(old, bytes)
<1>1. /\ MAX_TOPIC_LENGTH \in Nat /\ MAX_CONTENT_LENGTH \in Nat /\ MAX_CONTENT_LENGTH > 5
      /\ Len(bytes) \in Nat /\ MessageSize = MAX_TOPIC_LENGTH + 1 + MAX_CONTENT_LENGTH
  BY DatagramAssumption, LenProperties DEF MessageSize
<1>2. msg \in Message /\ \A k \in 1..MessageSize : k <= Len(bytes) => msg[k] = bytes[k]
  BY ReceivedBytes
<1>3. /\ Content(msg) \in Seq(Byte) /\ Len(Content(msg)) = MAX_CONTENT_LENGTH
      /\ \A k \in 1..MAX_CONTENT_LENGTH : Content(msg)[k] = msg[MAX_TOPIC_LENGTH + 1 + k]
  BY <1>2, ContentBytes
<1> HIDE DEF msg
<1>4. \A k \in 1..(MAX_TOPIC_LENGTH + 1) : msg[k] = bytes[k]
  BY <1>1, <1>2
<1>5. TypeName(msg) = TypeName(bytes)
  <2>1. msg[MAX_TOPIC_LENGTH + 1] = bytes[MAX_TOPIC_LENGTH + 1]
    BY <1>1, <1>4
  <2> QED BY <2>1 DEF TypeName
<1>6. \A k \in 1..MAX_CONTENT_LENGTH :
         Len(bytes) >= MAX_TOPIC_LENGTH + 1 + k => Content(msg)[k] = bytes[MAX_TOPIC_LENGTH + 1 + k]
  BY <1>1, <1>2, <1>3
<1>7. \A k \in 1..MAX_TOPIC_LENGTH : msg[k] = bytes[k]
  BY <1>1, <1>4
<1> QED BY <1>2, <1>3, <1>5, <1>6, <1>7 DEF msg

LEMMA TopicAsDescribed ==
    ASSUME NEW old \in Message, NEW bytes \in Seq(Byte), NEW d, Encodes(bytes, d)
    PROVE  TopicOf(Received(old, bytes)) = d.topic
<1> DEFINE msg == Received(old, bytes)
           s == SubSeq(msg, 1, MAX_TOPIC_LENGTH)
<1>1. MAX_TOPIC_LENGTH \in Nat /\ Len(bytes) \in Nat /\ Len(bytes) > MAX_TOPIC_LENGTH
  BY DatagramAssumption, LenProperties DEF Encodes
<1>2. \A k \in 1..MAX_TOPIC_LENGTH : msg[k] = bytes[k] /\ bytes[k] \in Byte
  <2>1. \A k \in 1..MAX_TOPIC_LENGTH : k \in 1..Len(bytes)
    BY <1>1
  <2> QED BY <1>1, <2>1, ReceivedParts, ElementOfSeq
<1> HIDE DEF msg
<1>3. /\ s \in Seq(Byte) /\ Len(s) = MAX_TOPIC_LENGTH
      /\ \A k \in 1..MAX_TOPIC_LENGTH : s[k] = bytes[k]
  <2>1. /\ s \in Seq(Byte)
        /\ Len(s) = IF 1 <= MAX_TOPIC_LENGTH THEN MAX_TOPIC_LENGTH - 1 + 1 ELSE 0
        /\ \A k \in 1..(MAX_TOPIC_LENGTH - 1 + 1) : s[k] = msg[1 + k - 1]
    BY <1>1, <1>2, SubSeqProperties
  <2> HIDE DEF s
  <2> QED BY <1>1, <1>2, <2>1
<1> HIDE DEF s
<1>4. Len(d.topic) \in Nat
  BY LenProperties DEF Encodes
<1>5. BeginsWith(s, d.topic)
  BY <1>1, <1>3, <1>4 DEF Encodes, BeginsWith
<1>6. Len(d.topic) < Len(s) => s[Len(d.topic) + 1] = 0
  BY <1>1, <1>3, <1>4 DEF Encodes
<1>7. BeforeNul(s) = d.topic
  BY <1>3, <1>5, <1>6, TextBeforeNul
<1> QED BY <1>7 DEF TopicOf, s, msg

\* A quotient and its remainder make the number.
LEMMA Division ==
    ASSUME NEW a \in Nat, NEW b \in Nat, b > 0
    PROVE  \E q, r \in Nat : q = a \div b /\ r = a % b /\ q * b + r = a /\ r < b
<1> DEFINE q == a \div b
           r == a % b
<1>1. q \in Nat /\ r \in Nat /\ r < b /\ a = b * q + r
  OBVIOUS
<1>2. q = a \div b /\ r = a % b
  OBVIOUS
<1> HIDE DEF q, r
<1>3. q * b + r = a
  <2>1. q * b = b * q
    BY <1>1
  <2> QED BY <1>1, <2>1
<1> QED BY <1>1, <1>2, <1>3

LEMMA WordsAreNat ==
    ASSUME NEW b1 \in Byte, NEW b2 \in Byte, NEW b3 \in Byte, NEW b4 \in Byte
    PROVE  Half(b1, b2) \in Nat /\ Word(b1, b2, b3, b4) \in Nat
<1>1. \A b, c \in Nat : b * c \in Nat
  OBVIOUS
<1>2. b1 \in Nat /\ b2 \in Nat /\ b3 \in Nat /\ b4 \in Nat /\ ByteBase \in Nat
  BY DatagramAssumption DEF Byte
<1>3. \A b, c \in Nat : b * ByteBase + c \in Nat
  BY <1>1, <1>2
<1>4. Half(b1, b2) \in Nat /\ Half(b3, b4) \in Nat
  BY <1>2, <1>3 DEF Half
<1>5. \A h, l \in Nat : h * ByteBase * ByteBase + l \in Nat
  BY <1>1, <1>2
<1> QED BY <1>4, <1>5 DEF Word

LEMMA IntAsDescribed ==
    ASSUME NEW old \in Message, NEW bytes \in Seq(Byte), NEW d, Encodes(bytes, d),
           d.type = "INT", NEW beyond
    PROVE  IsWorth(Displayed(Received(old, bytes), beyond), d)
<1> DEFINE msg == Received(old, bytes)
           c == Content(msg)
           word == Word(c[2], c[3], c[4], c[5])
<1>1. /\ MAX_TOPIC_LENGTH \in Nat /\ MAX_CONTENT_LENGTH \in Nat /\ MAX_CONTENT_LENGTH > 5
      /\ Len(bytes) \in Nat /\ Len(bytes) >= MAX_TOPIC_LENGTH + 1 + 5
  BY DatagramAssumption, LenProperties DEF Encodes
<1>2. /\ TypeName(msg) = "INT" /\ c \in Seq(Byte) /\ Len(c) = MAX_CONTENT_LENGTH
      /\ \A k \in 1..5 : c[k] = bytes[MAX_TOPIC_LENGTH + 1 + k]
  <2>1. TypeName(bytes) = "INT" /\ Len(bytes) > MAX_TOPIC_LENGTH
    BY <1>1 DEF Encodes
  <2>2. \A k \in 1..5 : k \in 1..MAX_CONTENT_LENGTH /\ Len(bytes) >= MAX_TOPIC_LENGTH + 1 + k
    BY <1>1
  <2> QED BY <2>1, <2>2, ReceivedParts
<1> HIDE DEF msg, c
<1>3. d.scale = 0 /\ SignedWord(d, c[1], word)
  BY <1>2 DEF Encodes
<1>4. word \in Nat
  <2>1. \A k \in 1..Len(c) : c[k] \in Byte
    BY <1>2, ElementOfSeq
  <2>2. c[2] \in Byte /\ c[3] \in Byte /\ c[4] \in Byte /\ c[5] \in Byte
    BY <1>1, <1>2, <2>1
  <2> QED BY <2>2, WordsAreNat
<1> HIDE DEF word
<1>5. Displayed(msg, beyond) = Number(c[1] = 1 /\ word # 0, word, 0, 0)
  BY <1>2 DEF Displayed, c, word
<1>6. Power[0] = 1 /\ word * 1 + 0 = word
  BY <1>4, PowerIs
<1> DEFINE out == Displayed(msg, beyond)
<1>7. out.width = 0 /\ out.fraction = 0 /\ out.whole = word
  BY <1>5 DEF Number
<1>8. out.minus = (c[1] = 1 /\ word # 0)
  BY <1>5 DEF Number
<1> HIDE DEF out
<1>9. Size(d) # 0 => (out.minus <=> d.number < 0)
  BY <1>3, <1>8 DEF SignedWord
<1>10. out.fraction < 1 /\ out.whole * 1 + out.fraction = Size(d)
  BY <1>3, <1>6, <1>7 DEF SignedWord
<1> QED BY <1>3, <1>6, <1>7, <1>9, <1>10 DEF IsWorth, out, msg

LEMMA ShortAsDescribed ==
    ASSUME NEW old \in Message, NEW bytes \in Seq(Byte), NEW d, Encodes(bytes, d),
           d.type = "SHORT_REAL", NEW beyond
    PROVE  IsWorth(Displayed(Received(old, bytes), beyond), d)
<1> DEFINE msg == Received(old, bytes)
           c == Content(msg)
           half == Half(c[1], c[2])
<1>1. /\ MAX_TOPIC_LENGTH \in Nat /\ MAX_CONTENT_LENGTH \in Nat /\ MAX_CONTENT_LENGTH > 5
      /\ Len(bytes) \in Nat /\ Len(bytes) >= MAX_TOPIC_LENGTH + 1 + 2
  BY DatagramAssumption, LenProperties DEF Encodes
<1>2. /\ TypeName(msg) = "SHORT_REAL" /\ c \in Seq(Byte) /\ Len(c) = MAX_CONTENT_LENGTH
      /\ \A k \in 1..2 : c[k] = bytes[MAX_TOPIC_LENGTH + 1 + k]
  <2>1. TypeName(bytes) = "SHORT_REAL" /\ Len(bytes) > MAX_TOPIC_LENGTH
    BY <1>1 DEF Encodes
  <2>2. \A k \in 1..2 : k \in 1..MAX_CONTENT_LENGTH /\ Len(bytes) >= MAX_TOPIC_LENGTH + 1 + k
    BY <1>1
  <2> QED BY <2>1, <2>2, ReceivedParts
<1> HIDE DEF msg, c
<1>3. d.scale = 2 /\ d.number = half
  BY <1>2 DEF Encodes
<1>4. half \in Nat
  <2>1. \A k \in 1..Len(c) : c[k] \in Byte
    BY <1>2, ElementOfSeq
  <2>2. c[1] \in Byte /\ c[2] \in Byte
    BY <1>1, <1>2, <2>1
  <2> QED BY <2>2, WordsAreNat
<1> HIDE DEF half
<1>5. Displayed(msg, beyond) = Number(FALSE, half \div 100, half % 100, 2)
  BY <1>2 DEF Displayed, c, half
<1>6. Power[2] = 100
  <2>1. Power[0+1] = 10 * Power[0] /\ Power[1+1] = 10 * Power[1]
    BY PowerIs
  <2> QED BY <2>1, PowerIs
<1> DEFINE out == Displayed(msg, beyond)
<1>7. out.width = 2 /\ out.fraction = half % 100 /\ out.whole = half \div 100
  BY <1>5 DEF Number
<1>8. ~out.minus
  BY <1>5 DEF Number
<1> HIDE DEF out
<1>9. Size(d) = half /\ ~(d.number < 0)
  BY <1>3, <1>4 DEF Size
<1>10. out.fraction < 100 /\ out.whole * 100 + out.fraction = half
  BY <1>4, <1>7
<1> QED BY <1>3, <1>6, <1>7, <1>8, <1>9, <1>10 DEF IsWorth, out, msg

LEMMA FloatAsDescribed ==
    ASSUME NEW old \in Message, NEW bytes \in Seq(Byte), NEW d, Encodes(bytes, d),
           d.type = "FLOAT", d.scale <= ExactUpTo, NEW beyond
    PROVE  IsWorth(Displayed(Received(old, bytes), beyond), d)
<1> DEFINE msg == Received(old, bytes)
           c == Content(msg)
           word == Word(c[2], c[3], c[4], c[5])
           power == PowerOf10(c[6])
<1>1. /\ MAX_TOPIC_LENGTH \in Nat /\ MAX_CONTENT_LENGTH \in Nat /\ MAX_CONTENT_LENGTH > 5
      /\ Len(bytes) \in Nat /\ Len(bytes) >= MAX_TOPIC_LENGTH + 1 + 6
  BY DatagramAssumption, LenProperties DEF Encodes
<1>2. /\ TypeName(msg) = "FLOAT" /\ c \in Seq(Byte) /\ Len(c) = MAX_CONTENT_LENGTH
      /\ \A k \in 1..6 : c[k] = bytes[MAX_TOPIC_LENGTH + 1 + k]
  <2>1. TypeName(bytes) = "FLOAT" /\ Len(bytes) > MAX_TOPIC_LENGTH
    BY <1>1 DEF Encodes
  <2>2. \A k \in 1..6 : k \in 1..MAX_CONTENT_LENGTH /\ Len(bytes) >= MAX_TOPIC_LENGTH + 1 + k
    BY <1>1
  <2> QED BY <2>1, <2>2, ReceivedParts
<1> HIDE DEF msg, c
<1>3. d.scale = c[6] /\ d.scale \in Nat /\ SignedWord(d, c[1], word)
  BY <1>2 DEF Encodes
<1>4. word \in Nat
  <2>1. \A k \in 1..Len(c) : c[k] \in Byte
    BY <1>2, ElementOfSeq
  <2>2. c[2] \in Byte /\ c[3] \in Byte /\ c[4] \in Byte /\ c[5] \in Byte
    BY <1>1, <1>2, <2>1
  <2> QED BY <2>2, WordsAreNat
<1>5. power = Power[d.scale] /\ power \in Nat /\ power > 0
  BY <1>3, ExactPowers, PowersGrow
<1>6. Displayed(msg, beyond) = Number(c[1] = 1, word \div power, word % power, c[6])
  BY <1>2 DEF Displayed, c
<1> HIDE DEF word, power
<1> DEFINE out == Displayed(msg, beyond)
<1>7. out.width = c[6] /\ out.fraction = word % power /\ out.whole = word \div power
  BY <1>6 DEF Number
<1>8. out.minus = (c[1] = 1)
  BY <1>6 DEF Number
<1> HIDE DEF out
<1>9. Size(d) # 0 => (out.minus <=> d.number < 0)
  BY <1>3, <1>8 DEF SignedWord
<1>10. out.fraction < power /\ out.whole * power + out.fraction = Size(d)
  <2>1. PICK q, r \in Nat :
            q = word \div power /\ r = word % power /\ q * power + r = word /\ r < power
    BY <1>4, <1>5, Division
  <2>2. out.fraction = r /\ out.whole = q
    BY <1>7, <2>1
  <2> QED BY <1>3, <2>1, <2>2 DEF SignedWord
<1> QED BY <1>3, <1>5, <1>7, <1>9, <1>10 DEF IsWorth, out, msg

\* A text is shown from its first character on, and whole when its NUL is sent.
LEMMA TextAsDescribed ==
    ASSUME NEW old \in Message, NEW bytes \in Seq(Byte), NEW d, Encodes(bytes, d),
           d.type = "STRING", NEW beyond \in Seq(Byte)
    PROVE  LET text == Displayed(Received(old, bytes), beyond).text
           IN  /\ IsPrefix(d.text, text)
               /\ (\E j \in (MAX_TOPIC_LENGTH + 2)..Len(bytes) : bytes[j] = 0) => text = d.text
<1> DEFINE msg == Received(old, bytes)
           c == Content(msg)
           n == Len(d.text)
           first == MAX_TOPIC_LENGTH + 1
           whole == IF 0 \in ToSet(c) THEN BeforeNul(c) ELSE c \o beyond
           Open == Len(bytes) = first + n /\ n <= MAX_CONTENT_LENGTH
           Closed == Len(bytes) >= first + (n + 1) /\ bytes[first + (n + 1)] = 0 /\ n < MAX_CONTENT_LENGTH
<1>1. /\ MAX_TOPIC_LENGTH \in Nat /\ MAX_CONTENT_LENGTH \in Nat /\ MAX_CONTENT_LENGTH > 5
      /\ Len(bytes) \in Nat /\ n \in Nat /\ first \in Nat /\ first > MAX_TOPIC_LENGTH
  BY DatagramAssumption, LenProperties DEF Encodes
<1>2. /\ d.text \in Seq(Byte \ {0}) /\ \A k \in 1..n : bytes[first + k] = d.text[k]
      /\ Open \/ Closed
  BY DEF Encodes
<1>3. /\ TypeName(msg) = "STRING" /\ c \in Seq(Byte) /\ Len(c) = MAX_CONTENT_LENGTH
      /\ \A k \in 1..MAX_CONTENT_LENGTH : Len(bytes) >= first + k => c[k] = bytes[first + k]
  <2>1. TypeName(bytes) = "STRING" /\ Len(bytes) > MAX_TOPIC_LENGTH
    BY <1>1 DEF Encodes
  <2> QED BY <2>1, ReceivedParts
<1>4. Displayed(msg, beyond).text = whole
  <2>1. Displayed(msg, beyond) = Characters(whole)
    <3> HIDE DEF msg
    <3> QED BY <1>3 DEF Displayed
  <2> HIDE DEF whole, msg
  <2> QED BY <2>1 DEF Characters
<1> HIDE DEF msg, c, n, first, Open, Closed
<1>5. BeginsWith(c, d.text)
  <2>1. n <= MAX_CONTENT_LENGTH /\ Len(bytes) >= first + n
    BY <1>1, <1>2 DEF Open, Closed
  <2>2. \A k \in 1..n : c[k] = d.text[k]
    <3>1. \A k \in 1..n : k \in 1..MAX_CONTENT_LENGTH /\ Len(bytes) >= first + k
      BY <1>1, <2>1
    <3> QED BY <1>2, <1>3, <3>1
  <2> QED BY <1>2, <1>3, <2>1, <2>2 DEF BeginsWith, n
<1>6. BeginsWith(BeforeNul(c), d.text) /\ BeforeNul(c) \in Seq(Byte)
  BY <1>3, <1>5, TextBeforeNul
<1>7. BeginsWith(c \o beyond, d.text) /\ c \o beyond \in Seq(Byte)
  <2>1. /\ c \o beyond \in Seq(Byte) /\ Len(c \o beyond) = Len(c) + Len(beyond)
        /\ \A i \in 1..(Len(c) + Len(beyond)) : i <= Len(c) => (c \o beyond)[i] = c[i]
    BY <1>3, ConcatProperties
  <2>2. Len(beyond) \in Nat /\ Len(c) \in Nat
    BY <1>3, LenProperties
  <2> DEFINE t == c \o beyond
  <2> HIDE DEF t
  <2>3. Len(t) >= Len(c) /\ \A i \in 1..Len(c) : t[i] = c[i]
    BY <2>1, <2>2 DEF t
  <2>4. BeginsWith(t, d.text)
    BY <1>1, <1>5, <2>1, <2>2, <2>3 DEF BeginsWith, n
  <2> QED BY <2>1, <2>4 DEF t
<1>8. IsPrefix(d.text, whole)
  <2>1. BeginsWith(whole, d.text) /\ whole \in Seq(Byte)
    BY <1>6, <1>7
  <2> HIDE DEF whole
  <2> QED BY <2>1, BeginningIsPrefix
<1>9. ASSUME NEW j \in (MAX_TOPIC_LENGTH + 2)..Len(bytes), bytes[j] = 0
      PROVE  whole = d.text
  <2>1. Closed
    <3> SUFFICES ASSUME Open PROVE FALSE
      BY <1>2
    <3>1. j - first \in 1..n /\ first + (j - first) = j
      BY <1>1 DEF Open, first
    <3>2. bytes[j] = d.text[j - first]
      BY <1>2, <3>1
    <3>3. d.text[j - first] \in Byte \ {0}
      BY <1>2, <3>1, ElementOfSeq DEF n
    <3> QED BY <1>9, <3>2, <3>3
  <2>2. c[n + 1] = 0 /\ n + 1 \in 1..Len(c)
    BY <1>1, <1>3, <2>1 DEF Closed
  <2>3. 0 \in ToSet(c)
    BY <1>3, <2>2, LenProperties DEF ToSet
  <2>4. BeforeNul(c) = d.text
    BY <1>3, <1>5, <2>2, TextBeforeNul DEF n
  <2> QED BY <2>3, <2>4
<1> QED BY <1>4, <1>8, <1>9 DEF msg

------------------------------------------------------------------------------
(* What is on the way comes from what was sent *)

\* The bytes of the datagrams sent, by their numbers.
Bytes == [n \in 1..Len(sent) |-> File[sent[n]].bytes]

\* A struct that a datagram was received into, whatever it held before.
Holds(msg, bytes) == \E old \in Message : msg = Received(old, bytes)

\* What Show makes of a message.
Shows(item, msg) ==
    /\ ~DividesByZero(msg)
    /\ item.topic = TopicOf(msg) /\ item.type = TypeName(msg)
    /\ \E beyond \in Beyond : item.content = Displayed(msg, beyond)

\* Datagrams, frames and shown items carry the bytes of their number, and a
\* subscriber that crashed has the frame that killed it before it.
Genuine ==
    /\ \A n \in 1..Len(sent) : Bytes[n] # None
    /\ \A k \in 1..Len(queue) : queue[k].bytes = Bytes[queue[k].n]
    /\ \A k \in 1..Len(frames) : Holds(frames[k].msg, Bytes[frames[k].n])
    /\ \A k \in 1..Len(shown) :
          \E msg \in Message : Holds(msg, Bytes[shown[k].n]) /\ Shows(shown[k], msg)
    /\ subscriber = "crashed" => frames # <<>> /\ DividesByZero(Head(frames).msg)

\* What has been sent stays what it is, and a datagram that is sent has bytes.
LEMMA BytesStay ==
    ASSUME IInv, IInv', [ClientNext]_clientVars
    PROVE  /\ \A n \in 1..Len(sent) : Bytes'[n] = Bytes[n]
           /\ \/ sent' = sent
              \/ /\ Len(sent) \in Nat /\ Len(sent') = Len(sent) + 1
                 /\ Bytes'[Len(sent')] = File[Last(sent')].bytes
                 /\ File' = File /\ File[Last(sent')].bytes # None
<1>1. CASE SendTo
  <2> DEFINE P == 1..Len(File)
  <2>1. choice \in P /\ sent \in Seq(P) /\ command' = command /\ sent' = Append(sent, choice)
        /\ File[choice].bytes # None
    BY <1>1 DEF IInv, ClientTypeOK, CalledFor, Sending, SendTo
  <2> HIDE DEF P
  <2>2. /\ Len(sent) \in Nat /\ Len(sent') = Len(sent) + 1 /\ Last(sent') = choice
        /\ \A n \in 1..Len(sent) : sent'[n] = sent[n]
        /\ sent'[Len(sent) + 1] = choice
    BY <2>1, FrontOfAppend, AppendProperties, LenProperties
  <2>3. File' = File
    BY <2>1 DEF File
  <2>4. Bytes'[Len(sent')] = File[choice].bytes
    BY <2>2, <2>3 DEF Bytes
  <2> QED BY <2>1, <2>2, <2>3, <2>4 DEF Bytes
<1>2. CASE ~SendTo
  <2>1. sent' = sent /\ command' = command
    BY <1>2
    DEF ClientNext, ClientStep, Operator, clientVars, Parse, Refuse, SetupSocket, BindFails,
        SendFails, Report, ReportFails, Sleep, SleepFails, AllOnceNext, AllOnceEnds,
        RandomNext, RandomFails, RandomEnds, Menu, MenuFails, Choose, TryAgain, Exit,
        InputFails, Prompted, CallSend, Interrupt, End
  <2> QED BY <2>1 DEF Bytes, File
<1> QED BY <1>1, <1>2

\* The numbers of what is on the way are those of datagrams sent.
LEMMA Numbered ==
    ASSUME PathInv
    PROVE  /\ \A k \in 1..Len(queue) : queue[k].n \in 1..Len(sent) /\ queue[k].bytes \in Seq(Byte)
           /\ \A k \in 1..Len(frames) : frames[k].n \in 1..Len(sent) /\ frames[k].msg \in Message
           /\ \A k \in 1..Len(shown) : shown[k].n \in 1..Len(sent)
           /\ DOMAIN shown = 1..Len(shown)
<1>1. queue \in Seq(Datagrams(Len(sent))) /\ frames \in Seq(FramesTo(Len(sent)))
  BY DEF PathInv, PathTypeOK, Datagrams, FramesTo
<1>2. /\ \A k \in 1..Len(queue) : queue[k] \in Datagrams(Len(sent))
      /\ \A k \in 1..Len(frames) : frames[k] \in FramesTo(Len(sent))
  BY <1>1, ElementOfSeq
<1>3. DOMAIN shown = 1..Len(shown)
  BY LenProperties DEF PathInv, IsSequence
<1> QED BY <1>2, <1>3 DEF Datagrams, FramesTo, PathInv, PathTypeOK

LEMMA GenuineInit == ASSUME Init PROVE Genuine
<1>1. Len(<<>>) = 0
  BY EmptySeq
<1>2. sent = <<>> /\ queue = <<>> /\ frames = <<>> /\ shown = <<>> /\ subscriber = "up"
  BY DEF Init, ClientInit
<1> QED BY <1>1, <1>2 DEF Genuine

LEMMA GenuineClient == ASSUME IInv, IInv', PathInv, Genuine, Client PROVE Genuine'
<1>1. UNCHANGED <<received_message, frames, subscriber, shown>> /\ [ClientNext]_clientVars
  BY DEF Client
<1>2. \A n \in 1..Len(sent) : Bytes'[n] = Bytes[n]
  BY <1>1, BytesStay
<1>3. \A k \in 1..Len(frames') : Holds(frames'[k].msg, Bytes'[frames'[k].n])
  BY <1>1, <1>2, Numbered DEF Genuine, Holds
<1>4. \A k \in 1..Len(shown') :
         \E msg \in Message : Holds(msg, Bytes'[shown'[k].n]) /\ Shows(shown'[k], msg)
  <2> SUFFICES ASSUME NEW k \in 1..Len(shown)
               PROVE  \E msg \in Message : Holds(msg, Bytes'[shown[k].n]) /\ Shows(shown[k], msg)
    BY <1>1
  <2>1. PICK msg \in Message : Holds(msg, Bytes[shown[k].n]) /\ Shows(shown[k], msg)
    BY DEF Genuine
  <2>2. Holds(msg, Bytes'[shown[k].n])
    BY <1>1, <1>2, <2>1, Numbered DEF Holds
  <2> QED BY <2>1, <2>2
<1>5. (subscriber = "crashed" => frames # <<>> /\ DividesByZero(Head(frames).msg))'
  BY <1>1 DEF Genuine
<1>6. CASE NoDatagram
  <2>1. sent' = sent /\ queue' = queue
    BY <1>6 DEF NoDatagram
  <2>2. \A n \in 1..Len(sent') : Bytes'[n] # None
    BY <1>2, <2>1 DEF Genuine
  <2>3. \A k \in 1..Len(queue') : queue'[k].bytes = Bytes'[queue'[k].n]
    BY <1>2, <2>1, Numbered DEF Genuine
  <2> QED BY <1>3, <1>4, <1>5, <2>2, <2>3 DEF Genuine
<1>7. CASE sent' # sent
  <2>1. /\ Len(sent) \in Nat /\ Len(sent') = Len(sent) + 1
        /\ Bytes'[Len(sent')] = File[Last(sent')].bytes
        /\ File[Last(sent')].bytes # None
    BY <1>1, <1>7, BytesStay
  <2>2. \A n \in 1..Len(sent') : Bytes'[n] # None
    <3>1. \A n \in 1..Len(sent') : n \in 1..Len(sent) \/ n = Len(sent')
      BY <2>1
    <3> QED BY <1>2, <2>1, <3>1 DEF Genuine
  <2>3. \A k \in 1..Len(queue) : queue[k].bytes = Bytes'[queue[k].n]
    BY <1>2, Numbered DEF Genuine
  <2>4. \A k \in 1..Len(queue') : queue'[k].bytes = Bytes'[queue'[k].n]
    <3>1. CASE Arrive
      <4> DEFINE x == [n |-> Len(sent'), bytes |-> File[Last(sent')].bytes]
      <4>1. queue' = Append(queue, x)
        BY <3>1 DEF Arrive
      <4>2. IsSequence(queue)
        BY SeqIsSequence DEF PathInv, PathTypeOK
      <4>3. x.bytes = Bytes'[x.n]
        BY <2>1
      <4> HIDE DEF x
      <4>4. /\ Len(queue) \in Nat /\ Len(queue') = Len(queue) + 1
            /\ \A k \in 1..Len(queue) : queue'[k] = queue[k]
            /\ queue'[Len(queue) + 1] = x
        BY <4>1, <4>2, AppendAny
      <4>5. \A k \in 1..Len(queue') : k \in 1..Len(queue) \/ k = Len(queue) + 1
        BY <4>4
      <4> QED BY <2>3, <4>3, <4>4, <4>5
    <3>2. CASE Drop
      BY <2>3, <3>2 DEF Drop
    <3> QED BY <1>7, <3>1, <3>2 DEF Client, NoDatagram
  <2> QED BY <1>3, <1>4, <1>5, <2>2, <2>4 DEF Genuine
<1> QED BY <1>6, <1>7 DEF Client, Arrive, Drop

LEMMA GenuineReceive == ASSUME PathInv, Genuine, Receive PROVE Genuine'
<1> DEFINE first == Head(queue)
           x == [n |-> first.n, msg |-> received_message']
<1>1. /\ queue # <<>> /\ queue' = Tail(queue) /\ frames' = Append(frames, x)
      /\ UNCHANGED <<sent, command, subscriber, shown>>
  BY DEF Receive, clientVars
<1>2. queue \in Seq(Datagrams(Len(sent))) /\ IsSequence(frames)
  BY SeqIsSequence DEF PathInv, PathTypeOK, Datagrams
<1>3. /\ Len(queue) \in Nat \ {0} /\ first = queue[1] /\ Len(queue') = Len(queue) - 1
      /\ \A k \in 1..Len(queue') : queue'[k] = queue[k+1]
  BY <1>1, <1>2, HeadTailProperties, EmptySeq
<1>4. Bytes' = Bytes
  BY <1>1 DEF Bytes, File
<1>5. \A k \in 1..Len(queue') : queue'[k].bytes = Bytes'[queue'[k].n]
  <2>1. \A k \in 1..Len(queue') : k + 1 \in 1..Len(queue)
    BY <1>3
  <2> HIDE DEF first, x
  <2> QED BY <1>3, <1>4, <2>1 DEF Genuine
<1>6. Holds(x.msg, Bytes[x.n])
  <2>1. PICK old \in {received_message} \cup Leftovers :
            received_message' = Received(old, first.bytes)
    BY DEF Receive
  <2>2. old \in Message
    BY PublicationAssumption DEF PathInv, PathTypeOK
  <2>3. first.bytes = Bytes[first.n]
    BY <1>3 DEF Genuine
  <2> QED BY <2>1, <2>2, <2>3 DEF Holds
<1> HIDE DEF first, x
<1>7. /\ Len(frames) \in Nat /\ Len(frames') = Len(frames) + 1
      /\ \A k \in 1..Len(frames) : frames'[k] = frames[k]
      /\ frames'[Len(frames) + 1] = x
  BY <1>1, <1>2, AppendAny
<1>8. \A k \in 1..Len(frames') : Holds(frames'[k].msg, Bytes'[frames'[k].n])
  <2>1. \A k \in 1..Len(frames') : k \in 1..Len(frames) \/ k = Len(frames) + 1
    BY <1>7
  <2> QED BY <1>4, <1>6, <1>7, <2>1 DEF Genuine
<1>9. (subscriber = "crashed" => frames # <<>> /\ DividesByZero(Head(frames).msg))'
  <2> SUFFICES ASSUME subscriber = "crashed"
               PROVE  frames' # <<>> /\ DividesByZero(Head(frames').msg)
    BY <1>1
  <2>1. frames # <<>> /\ DividesByZero(Head(frames).msg)
    BY DEF Genuine
  <2>2. frames' # <<>> /\ Head(frames') = Head(frames)
    <3> DEFINE S == FramesTo(Len(sent))
    <3>1. frames \in Seq(S) /\ frames' \in Seq(FramesTo(Len(sent)) \cup {x})
      <4>1. frames \in Seq(S)
        BY DEF PathInv, PathTypeOK, FramesTo
      <4>2. frames \in Seq(S \cup {x})
        BY <4>1, SeqMonotonic
      <4> HIDE DEF S
      <4>3. Append(frames, x) \in Seq(S \cup {x})
        BY <4>2, AppendProperties
      <4> QED BY <1>1, <4>1, <4>3 DEF S
    <3>2. Len(frames) > 0 /\ frames' # <<>>
      BY <1>7, <2>1, <3>1, EmptySeq
    <3>3. Head(frames) = frames[1] /\ Head(frames') = frames'[1]
      BY <2>1, <3>1, <3>2, HeadTailProperties
    <3> QED BY <1>7, <3>2, <3>3
  <2> QED BY <2>1, <2>2
<1>10. \A k \in 1..Len(shown') :
         \E msg \in Message : Holds(msg, Bytes'[shown'[k].n]) /\ Shows(shown'[k], msg)
  BY <1>1, <1>4 DEF Genuine
<1>11. \A n \in 1..Len(sent') : Bytes'[n] # None
  BY <1>1, <1>4 DEF Genuine
<1> QED BY <1>5, <1>8, <1>9, <1>10, <1>11 DEF Genuine

LEMMA GenuineShow == ASSUME PathInv, Genuine, Show PROVE Genuine'
<1> DEFINE first == Head(frames)
<1>1. /\ frames # <<>> /\ frames' = Tail(frames) /\ subscriber = "up" /\ subscriber' = subscriber
      /\ UNCHANGED <<sent, command, queue>>
  BY DEF Show, clientVars
<1>2. PICK x : shown' = Append(shown, x) /\ x.n = first.n /\ Shows(x, first.msg)
  BY DEF Show, Shows
<1>3. frames \in Seq(FramesTo(Len(sent)))
  BY DEF PathInv, PathTypeOK, FramesTo
<1>4. /\ Len(frames) \in Nat \ {0} /\ first = frames[1] /\ Len(frames') = Len(frames) - 1
      /\ \A k \in 1..Len(frames') : frames'[k] = frames[k+1]
  BY <1>1, <1>3, HeadTailProperties, EmptySeq
<1>5. Bytes' = Bytes
  BY <1>1 DEF Bytes, File
<1>6. first.msg \in Message /\ Holds(first.msg, Bytes[first.n])
  BY <1>4, Numbered DEF Genuine
<1> HIDE DEF first
<1>7. \A k \in 1..Len(frames') : Holds(frames'[k].msg, Bytes'[frames'[k].n])
  <2>1. \A k \in 1..Len(frames') : k + 1 \in 1..Len(frames)
    BY <1>4
  <2> QED BY <1>4, <1>5, <2>1 DEF Genuine
<1>8. /\ Len(shown) \in Nat /\ Len(shown') = Len(shown) + 1
      /\ \A k \in 1..Len(shown) : shown'[k] = shown[k]
      /\ shown'[Len(shown) + 1] = x
  BY <1>2, AppendAny DEF PathInv
<1>9. \A k \in 1..Len(shown') :
         \E msg \in Message : Holds(msg, Bytes'[shown'[k].n]) /\ Shows(shown'[k], msg)
  <2> SUFFICES ASSUME NEW k \in 1..Len(shown')
               PROVE  \E msg \in Message : Holds(msg, Bytes[shown'[k].n]) /\ Shows(shown'[k], msg)
    BY <1>5
  <2>1. CASE k \in 1..Len(shown)
    BY <1>8, <2>1 DEF Genuine
  <2>2. CASE k = Len(shown) + 1
    BY <1>2, <1>6, <1>8, <2>2
  <2> QED BY <1>8, <2>1, <2>2
<1>10. /\ \A n \in 1..Len(sent') : Bytes'[n] # None
       /\ \A k \in 1..Len(queue') : queue'[k].bytes = Bytes'[queue'[k].n]
  BY <1>1, <1>5 DEF Genuine
<1>11. subscriber' # "crashed"
  BY <1>1
<1> QED BY <1>7, <1>9, <1>10, <1>11 DEF Genuine

LEMMA GenuineQuiet == ASSUME Genuine, Crash \/ UNCHANGED vars PROVE Genuine'
<1>1. UNCHANGED <<sent, command, queue, frames, shown>>
  BY DEF Crash, vars, clientVars, pathVars
<1>2. Bytes' = Bytes
  BY <1>1 DEF Bytes, File
<1>3. subscriber' = "crashed" => frames # <<>> /\ DividesByZero(Head(frames).msg)
  BY DEF Genuine, Crash, vars, pathVars
<1> QED BY <1>1, <1>2, <1>3 DEF Genuine

THEOREM GenuineAlways == Spec => []Genuine
<1>1. Init => Genuine
  BY GenuineInit
<1>2. IInv /\ IInv' /\ PathInv /\ Genuine /\ [Next]_vars => Genuine'
  BY GenuineClient, GenuineReceive, GenuineShow, GenuineQuiet DEF Next
<1> QED BY <1>1, <1>2, InvarianceInside, PathInvariance, PTL DEF Spec

\* The payload that datagram n carries.
LEMMA PayloadSent ==
    ASSUME IInv, Genuine, NEW n \in 1..Len(sent)
    PROVE  /\ Bytes[n] \in Seq(Byte)
           /\ IF File[sent[n]].description = None
              THEN Len(Bytes[n]) > MAX_TOPIC_LENGTH /\ TypeName(Bytes[n]) # "FLOAT"
              ELSE Encodes(Bytes[n], File[sent[n]].description)
<1>1. sent[n] \in 1..Len(File) /\ File \in Seq(Payloads)
  BY ElementOfSeq, ClientAssumption DEF IInv, ClientTypeOK, CommandsAssumption, File
<1>2. File[sent[n]] \in Payloads
  BY <1>1, ElementOfSeq
<1>3. Bytes[n] # None
  BY DEF Genuine
<1>4. Bytes[n] \in Seq(Byte)
  BY <1>2, <1>3, PublicationAssumption DEF Bytes
<1> QED BY <1>2, <1>3, <1>4, DescriptionsAssumption DEF Bytes

\* For any payloads whose files describe them rightly, any sizes and rooms, and
\* whatever memory held, every message is shown under its topic and type, a
\* number whose power of ten fits in a word with its value, and a text from its
\* first character on, exactly when its NUL was sent with it.
THEOREM DisplayedAsDescribed == Spec => []ShownAsDescribed
<1>1. ASSUME IInv, PathInv, Genuine PROVE ShownAsDescribed
  <2> SUFFICES ASSUME NEW k \in DOMAIN shown, Description(k) # None
               PROVE  LET d == Description(k)
                      IN  /\ shown[k].topic = d.topic /\ shown[k].type = d.type
                          /\ d.type # "STRING" /\ d.scale <= ExactUpTo => ShowsNumber(k)
                          /\ d.type = "STRING" => IsPrefix(d.text, shown[k].content.text)
                          /\ d.type = "STRING" /\ Terminated(k) => ShowsText(k)
    BY DEF ShownAsDescribed
  <2> DEFINE n == shown[k].n
             d == Description(k)
             bytes == Bytes[n]
  <2>1. k \in 1..Len(shown) /\ n \in 1..Len(sent)
    BY <1>1, Numbered
  <2>2. bytes \in Seq(Byte) /\ Encodes(bytes, d)
    BY <1>1, <2>1, PayloadSent DEF Description
  <2>3. PICK old \in Message : Shows(shown[k], Received(old, bytes))
    BY <1>1, <2>1 DEF Genuine, Holds
  <2>4. PICK beyond \in Beyond : shown[k].content = Displayed(Received(old, bytes), beyond)
    BY <2>3 DEF Shows
  <2>5. Terminated(k) <=> \E j \in (MAX_TOPIC_LENGTH + 2)..Len(bytes) : bytes[j] = 0
    BY <2>1 DEF Terminated, Bytes
  <2> HIDE DEF d, bytes
  <2>6. /\ Len(bytes) > MAX_TOPIC_LENGTH /\ TypeName(bytes) = d.type
        /\ d.type # "STRING" => d.scale \in Nat
    BY <2>2, LenProperties, DatagramAssumption DEF Encodes
  <2>7. shown[k].topic = d.topic
    BY <2>2, <2>3, TopicAsDescribed DEF Shows
  <2>8. shown[k].type = d.type
    BY <2>2, <2>3, <2>6, ReceivedParts DEF Shows
  <2>9. d.type \in {"INT", "SHORT_REAL", "FLOAT", "STRING", "INVALID"}
    BY <2>6 DEF TypeName
  <2>10. ASSUME d.type # "STRING", d.scale <= ExactUpTo PROVE ShowsNumber(k)
    <3>1. IsWorth(shown[k].content, d)
      <4>1. CASE d.type = "INT"
        BY <2>2, <2>4, <4>1, IntAsDescribed
      <4>2. CASE d.type = "SHORT_REAL"
        BY <2>2, <2>4, <4>2, ShortAsDescribed
      <4>3. CASE d.type = "FLOAT"
        BY <2>2, <2>4, <2>10, <4>3, FloatAsDescribed
      <4>4. CASE d.type = "INVALID"
        <5>1. TypeName(Received(old, bytes)) = "INVALID"
          BY <2>2, <2>6, <4>4, ReceivedParts
        <5>2. shown[k].content = Characters("INVALID")
          BY <2>4, <5>1 DEF Displayed
        <5>3. d.number = 0 /\ d.scale = 0
          BY <2>2, <4>4 DEF Encodes
        <5> QED BY <5>2, <5>3, PowerIs DEF IsWorth, Characters, Size
      <4> QED BY <2>9, <2>10, <4>1, <4>2, <4>3, <4>4
    <3> QED BY <3>1 DEF IsWorth, ShowsNumber, d
  <2>11. ASSUME d.type = "STRING"
         PROVE  /\ IsPrefix(d.text, shown[k].content.text)
                /\ Terminated(k) => ShowsText(k)
    <3>1. beyond \in Seq(Byte)
      BY PublicationAssumption
    <3> QED BY <2>2, <2>4, <2>5, <2>11, <3>1, TextAsDescribed DEF ShowsText, d
  <2> QED BY <2>7, <2>8, <2>10, <2>11 DEF d
<1> QED BY <1>1, InvarianceInside, PathInvariance, GenuineAlways, PTL

\* A struct that holds a datagram divides by zero exactly when the description
\* is that of a FLOAT whose exponent is at least the number of bits of a word.
LEMMA KillingExponents ==
    ASSUME NEW old \in Message, NEW bytes \in Seq(Byte), NEW d, Encodes(bytes, d)
    PROVE  DividesByZero(Received(old, bytes)) <=> d.type = "FLOAT" /\ d.scale >= WordBits
<1> DEFINE msg == Received(old, bytes)
<1>1. /\ MAX_TOPIC_LENGTH \in Nat /\ MAX_CONTENT_LENGTH \in Nat /\ MAX_CONTENT_LENGTH > 5
      /\ Len(bytes) \in Nat
  BY DatagramAssumption, LenProperties
<1>2. Len(bytes) > MAX_TOPIC_LENGTH /\ TypeName(bytes) = d.type
  BY <1>1 DEF Encodes
<1>3. TypeName(msg) = d.type
  BY <1>2, ReceivedParts
<1>4. ASSUME d.type = "FLOAT" PROVE Content(msg)[6] = d.scale /\ d.scale \in Nat
  <2>1. Len(bytes) >= MAX_TOPIC_LENGTH + 1 + 6 /\ d.scale = bytes[MAX_TOPIC_LENGTH + 1 + 6]
        /\ d.scale \in Nat
    BY <1>4 DEF Encodes
  <2>2. 6 \in 1..MAX_CONTENT_LENGTH
    BY <1>1
  <2> QED BY <1>2, <2>1, <2>2, ReceivedParts
<1> HIDE DEF msg
<1>5. d.type = "FLOAT" => (PowerOf10(d.scale) = 0 <=> d.scale >= WordBits)
  BY <1>4, VanishingPowers
<1> QED BY <1>3, <1>4, <1>5 DEF DividesByZero, msg

\* For any payloads whose files describe them rightly, a subscriber dies only of
\* a FLOAT whose exponent is at least the number of bits of a word, and never
\* displays one.
THEOREM DeathsAreExplained == Spec => []OnlyLargeExponentsKill
<1>1. ASSUME IInv, PathInv, Genuine PROVE OnlyLargeExponentsKill
  <2> DEFINE D(n) == File[sent[n]].description
             Exponents(n) == IF D(n) # None /\ D(n).type = "FLOAT" THEN {D(n).scale} ELSE {}
  <2>1. ASSUME NEW k \in DOMAIN shown, NEW e \in Exponents(shown[k].n) PROVE e < WordBits
    <3> DEFINE n == shown[k].n
    <3>1. k \in 1..Len(shown) /\ n \in 1..Len(sent)
      BY <1>1, Numbered
    <3>2. D(n) # None /\ D(n).type = "FLOAT" /\ e = D(n).scale
      OBVIOUS
    <3>3. Bytes[n] \in Seq(Byte) /\ Encodes(Bytes[n], D(n))
      BY <1>1, <3>1, <3>2, PayloadSent
    <3>4. PICK old \in Message : ~DividesByZero(Received(old, Bytes[n]))
      BY <1>1, <3>1 DEF Genuine, Holds, Shows
    <3>5. ~(e >= WordBits) /\ e \in Nat
      BY <3>2, <3>3, <3>4, KillingExponents DEF Encodes
    <3> QED BY <3>5, ExactAssumption
  <2>2. ASSUME subscriber = "crashed" PROVE \E e \in Exponents(Head(frames).n) : e >= WordBits
    <3> DEFINE n == Head(frames).n
    <3>1. frames # <<>> /\ DividesByZero(Head(frames).msg)
      BY <1>1, <2>2 DEF Genuine
    <3>2. Head(frames) = frames[1] /\ 1 \in 1..Len(frames)
      <4>1. frames \in Seq(FramesTo(Len(sent)))
        BY <1>1 DEF PathInv, PathTypeOK, FramesTo
      <4> QED BY <3>1, <4>1, HeadTailProperties, EmptySeq
    <3>3. n \in 1..Len(sent) /\ Holds(Head(frames).msg, Bytes[n])
      BY <1>1, <3>2, Numbered DEF Genuine
    <3>4. PICK old \in Message : Head(frames).msg = Received(old, Bytes[n])
      BY <3>3 DEF Holds
    <3>5. Bytes[n] \in Seq(Byte)
      BY <1>1, <3>3, PayloadSent
    <3>6. D(n) # None
      <4> SUFFICES ASSUME D(n) = None PROVE FALSE
        OBVIOUS
      <4>1. Len(Bytes[n]) > MAX_TOPIC_LENGTH /\ TypeName(Bytes[n]) # "FLOAT"
        BY <1>1, <3>3, PayloadSent
      <4>2. TypeName(Received(old, Bytes[n])) # "FLOAT"
        BY <3>5, <4>1, ReceivedParts
      <4> QED BY <3>1, <3>4, <4>2 DEF DividesByZero
    <3>7. D(n).type = "FLOAT" /\ D(n).scale >= WordBits
      BY <1>1, <3>1, <3>3, <3>4, <3>5, <3>6, PayloadSent, KillingExponents
    <3> QED BY <3>6, <3>7
  <2> QED BY <2>1, <2>2 DEF OnlyLargeExponentsKill
<1> QED BY <1>1, InvarianceInside, PathInvariance, GenuineAlways, PTL

==============================================================================
