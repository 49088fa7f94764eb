---------------------------- MODULE FanoutProofs ----------------------------
(***************************************************************************)
(* Proofs about Fanout, for any number of subscribers, sizes of frames and *)
(* of buffers: types, the conservation of bytes, and how far the slowest   *)
(* subscriber may lag behind the others.                                   *)
(***************************************************************************)
EXTENDS Fanout, FiniteSetTheorems, SequenceTheorems, TLAPS

USE DEF server, process

------------------------------------------------------------------------------
(* The inductive invariant *)

\* The frame that client c reads or prints.
First(c) == frames[c][shown[c] + 1]

\* A client has part of the first frame it has not shown, and all of it exactly
\* when it prints it.
Reading ==
    \A c \in Clients :
        /\ shown[c] < Len(frames[c]) =>
              /\ incoming[c] <= FrameLen(First(c))
              /\ cpc[c] # "print" => incoming[c] < FrameLen(First(c))
        /\ cpc[c] = "print" =>
              shown[c] < Len(frames[c]) /\ incoming[c] = FrameLen(First(c))

\* What sendall() has in hand is the end of the last frame of a client that is
\* not in line for the datagram; clients are in line only while one is routed.
Sending ==
    /\ left > 0 => /\ shown[to] < Len(frames[to])
                   /\ left <= FrameLen(frames[to][Len(frames[to])])
                   /\ to \notin targets
    /\ targets # {} => pc = "udp" /\ matched # <<>>
    /\ arrived <= MaxMessages

\* A datagram that was routed is begun for every client it matched, but for
\* those in line for the last one.
Matching ==
    /\ \A c \in Clients : \A j \in 1..Len(frames[c]) : frames[c][j] <= Len(matched)
    /\ \A k \in 1..Len(matched) : \A c \in matched[k] :
          \/ \E j \in 1..Len(frames[c]) : frames[c][j] = k
          \/ k = Len(matched) /\ c \in targets

IInv == TypeOK /\ BytesConserved /\ Reading /\ Sending /\ Matching

------------------------------------------------------------------------------
(* Frames and their sizes *)

LEMMA Sizes ==
    /\ N \in Nat /\ N > 0 /\ MessageLen \in Nat /\ MessageLen > 0 /\ AckLen \in Nat /\ AckLen > 0
    /\ DownRoom \in Nat /\ DownRoom > 0 /\ UpRoom \in Nat /\ UpRoom > 0
    /\ MaxMessages \in Nat /\ MaxRequests \in Nat
  BY FanoutAssumption

LEMMA FrameSizes ==
    \A frame : FrameLen(frame) \in Nat /\ FrameLen(frame) > 0
               /\ FrameLen(frame) <= MessageLen + AckLen
  BY Sizes DEF FrameLen

LEMMA LeastBound ==
    ASSUME NEW m \in Nat, NEW n \in Nat
    PROVE  Least(m, n) \in Nat /\ Least(m, n) <= m /\ Least(m, n) <= n
  BY DEF Least

\* The types of one client's variables.
LEMMA ClientTypes ==
    ASSUME TypeOK, NEW c \in Clients
    PROVE  /\ frames[c] \in Seq(0..MaxMessages) /\ Len(frames[c]) \in Nat
           /\ shown[c] \in Nat /\ shown[c] <= Len(frames[c])
           /\ down[c] \in Nat /\ down[c] <= DownRoom /\ incoming[c] \in Nat
           /\ left \in Nat /\ to \in Clients
           /\ up[c] \in Seq(Requests) /\ Len(up[c]) \in Nat /\ Len(up[c]) <= UpRoom
           /\ \A j \in 1..Len(frames[c]) : frames[c][j] \in 0..MaxMessages
<1>1. frames[c] \in Seq(0..MaxMessages) /\ up[c] \in Seq(Requests) /\ Len(up[c]) <= UpRoom
  BY DEF TypeOK
<1>2. Len(frames[c]) \in Nat /\ Len(up[c]) \in Nat
  BY <1>1, LenProperties
<1>3. \A j \in 1..Len(frames[c]) : frames[c][j] \in 0..MaxMessages
  BY <1>1, ElementOfSeq
<1>4. shown[c] \in Nat /\ shown[c] <= Len(frames[c])
  BY <1>2 DEF TypeOK
<1>5. down[c] \in Nat /\ down[c] <= DownRoom /\ incoming[c] \in Nat
  BY Sizes DEF TypeOK
<1>6. left \in Nat /\ to \in Clients
  BY Sizes DEF TypeOK
<1> QED BY <1>1, <1>2, <1>3, <1>4, <1>5, <1>6

\* The units of the frames begun for c and not shown.
Due(c) == AckLen * Cardinality(UnshownAcks(c)) + MessageLen * Cardinality(UnshownMessages(c))

LEMMA Counts ==
    ASSUME TypeOK, NEW c \in Clients
    PROVE  /\ IsFiniteSet(UnshownAcks(c)) /\ IsFiniteSet(UnshownMessages(c))
           /\ Cardinality(UnshownAcks(c)) \in Nat /\ Cardinality(UnshownMessages(c)) \in Nat
           /\ Due(c) \in Nat
<1>1. shown[c] + 1 \in Int /\ Len(frames[c]) \in Int
  BY ClientTypes
<1>2. IsFiniteSet(Unshown(c))
  BY <1>1, FS_Interval DEF Unshown
<1>3. /\ IsFiniteSet(UnshownAcks(c)) /\ IsFiniteSet(UnshownMessages(c))
  BY <1>2, FS_Subset DEF UnshownAcks, UnshownMessages
<1>4. Cardinality(UnshownAcks(c)) \in Nat /\ Cardinality(UnshownMessages(c)) \in Nat
  BY <1>3, FS_CardinalityType
<1>5. \A a, m, x, y \in Nat : a * x + m * y \in Nat
  OBVIOUS
<1> QED BY <1>3, <1>4, <1>5, Sizes DEF Due

LEMMA NothingDue ==
    ASSUME TypeOK, NEW c \in Clients, shown[c] = Len(frames[c]) PROVE Due(c) = 0
<1>1. Unshown(c) = {}
  BY ClientTypes DEF Unshown
<1>2. UnshownAcks(c) = {} /\ UnshownMessages(c) = {}
  BY <1>1 DEF UnshownAcks, UnshownMessages
<1>3. Due(c) = AckLen * 0 + MessageLen * 0
  BY <1>2, FS_EmptySet DEF Due
<1>4. \A a, m \in Nat : a * 0 + m * 0 = 0
  OBVIOUS
<1> QED BY <1>3, <1>4, Sizes

LEMMA NothingDueNext ==
    TypeOK' => \A c \in Clients : shown'[c] = Len(frames'[c]) => Due(c)' = 0
<1>1. TypeOK => \A c \in Clients : shown[c] = Len(frames[c]) => Due(c) = 0
  BY NothingDue
<1>2. (TypeOK => \A c \in Clients : shown[c] = Len(frames[c]) => Due(c) = 0)'
  BY <1>1, PTL
<1> QED BY <1>2

\* One frame more in a set of places, and one less.
LEMMA OneMoreFrame ==
    ASSUME NEW a \in Nat, NEW m \in Nat, NEW x \in Nat, NEW y \in Nat
    PROVE  a * (x + 1) + m * y = (a * x + m * y) + a /\ a * x + m * (y + 1) = (a * x + m * y) + m
<1>1. a * (x + 1) = a * x + a /\ m * (y + 1) = m * y + m
  OBVIOUS
<1>2. a * x \in Nat /\ m * y \in Nat
  OBVIOUS
<1> QED BY <1>1, <1>2

\* What Due counts when place k joins the frames that were not shown.
LEMMA DueOfMore ==
    ASSUME NEW acks, NEW messages, IsFiniteSet(acks), IsFiniteSet(messages),
           NEW k, k \notin acks, k \notin messages, NEW frame, NEW acks2, NEW messages2,
           acks2 = IF frame = Ack THEN acks \cup {k} ELSE acks,
           messages2 = IF frame = Ack THEN messages ELSE messages \cup {k}
    PROVE  AckLen * Cardinality(acks2) + MessageLen * Cardinality(messages2)
             = (AckLen * Cardinality(acks) + MessageLen * Cardinality(messages)) + FrameLen(frame)
<1>1. Cardinality(acks) \in Nat /\ Cardinality(messages) \in Nat
  BY FS_CardinalityType
<1>2. /\ Cardinality(acks \cup {k}) = Cardinality(acks) + 1
      /\ Cardinality(messages \cup {k}) = Cardinality(messages) + 1
  BY FS_AddElement
<1>3. CASE frame = Ack
  <2>1. Cardinality(acks2) = Cardinality(acks) + 1 /\ messages2 = messages
    BY <1>2, <1>3
  <2> QED BY <1>1, <1>3, <2>1, Sizes, OneMoreFrame DEF FrameLen
<1>4. CASE frame # Ack
  <2>1. Cardinality(messages2) = Cardinality(messages) + 1 /\ acks2 = acks
    BY <1>2, <1>4
  <2> QED BY <1>1, <1>4, <2>1, Sizes, OneMoreFrame DEF FrameLen
<1> QED BY <1>3, <1>4

LEMMA BegunDue ==
    ASSUME TypeOK, NEW c \in Clients, NEW frame \in 0..MaxMessages,
           frames'[c] = Append(frames[c], frame), shown'[c] = shown[c]
    PROVE  Due(c)' = Due(c) + FrameLen(frame)
<1> DEFINE n == Len(frames[c])
<1>1. /\ n \in Nat /\ Len(frames'[c]) = n + 1 /\ frames'[c][n + 1] = frame
      /\ \A j \in 1..n : frames'[c][j] = frames[c][j]
      /\ shown[c] \in Nat /\ shown[c] <= n
  BY ClientTypes, AppendProperties
<1> HIDE DEF n
<1>2. Unshown(c)' = Unshown(c) \cup {n + 1} /\ n + 1 \notin Unshown(c)
      /\ \A j \in Unshown(c) : j \in 1..n
  BY <1>1 DEF Unshown, n
<1>3. UnshownAcks(c)' = IF frame = Ack THEN UnshownAcks(c) \cup {n + 1} ELSE UnshownAcks(c)
  BY <1>1, <1>2 DEF UnshownAcks
<1>4. UnshownMessages(c)' = IF frame = Ack THEN UnshownMessages(c)
                                           ELSE UnshownMessages(c) \cup {n + 1}
  BY <1>2, <1>3 DEF UnshownMessages, UnshownAcks
<1>5. n + 1 \notin UnshownAcks(c) /\ n + 1 \notin UnshownMessages(c)
  BY <1>2 DEF UnshownMessages, UnshownAcks
<1> QED BY <1>3, <1>4, <1>5, Counts, DueOfMore DEF Due

LEMMA ShownDue ==
    ASSUME TypeOK, NEW c \in Clients, shown[c] < Len(frames[c]),
           frames'[c] = frames[c], shown'[c] = shown[c] + 1
    PROVE  Due(c)' \in Nat /\ Due(c) = Due(c)' + FrameLen(First(c))
<1> DEFINE k == shown[c] + 1
<1>1. k \in Nat /\ Len(frames[c]) \in Nat /\ k <= Len(frames[c]) /\ shown[c] \in Nat
  BY ClientTypes
<1>2. /\ Unshown(c) = Unshown(c)' \cup {k} /\ k \notin Unshown(c)'
  BY <1>1 DEF Unshown
<1>3. UnshownAcks(c) = IF First(c) = Ack THEN UnshownAcks(c)' \cup {k} ELSE UnshownAcks(c)'
  BY <1>2 DEF UnshownAcks, First
<1>4. UnshownMessages(c) = IF First(c) = Ack THEN UnshownMessages(c)'
                                             ELSE UnshownMessages(c)' \cup {k}
  BY <1>2, <1>3 DEF UnshownMessages, UnshownAcks, First
<1>5. k \notin UnshownAcks(c)' /\ k \notin UnshownMessages(c)'
  BY <1>2 DEF UnshownMessages, UnshownAcks
<1>6. IsFiniteSet(UnshownAcks(c)') /\ IsFiniteSet(UnshownMessages(c)')
  <2>1. UnshownAcks(c)' \subseteq UnshownAcks(c) /\ UnshownMessages(c)' \subseteq UnshownMessages(c)
    BY <1>3, <1>4
  <2> QED BY <2>1, Counts, FS_Subset
<1> HIDE DEF k
<1>7. AckLen * Cardinality(UnshownAcks(c)) + MessageLen * Cardinality(UnshownMessages(c))
        = (AckLen * Cardinality(UnshownAcks(c)') + MessageLen * Cardinality(UnshownMessages(c)'))
          + FrameLen(First(c))
  BY <1>3, <1>4, <1>5, <1>6, DueOfMore
<1>8. Due(c)' \in Nat
  <2>1. Cardinality(UnshownAcks(c)') \in Nat /\ Cardinality(UnshownMessages(c)') \in Nat
    BY <1>6, FS_CardinalityType
  <2>2. \A a, m, x, y \in Nat : a * x + m * y \in Nat
    OBVIOUS
  <2> QED BY <2>1, <2>2, Sizes DEF Due
<1> QED BY <1>7, <1>8 DEF Due

LEMMA SameDue ==
    ASSUME NEW c \in Clients, frames'[c] = frames[c], shown'[c] = shown[c]
    PROVE  Due(c)' = Due(c) /\ First(c)' = First(c)
  BY DEF Due, UnshownAcks, UnshownMessages, Unshown, First

LEMMA BytesDue ==
    BytesConserved <=>
        \A c \in Clients : Due(c) = incoming[c] + down[c] + IF to = c THEN left ELSE 0
  BY DEF BytesConserved, Due

------------------------------------------------------------------------------
(* What the steps do to the streams *)

\* A step that moves no byte.
LEMMA StreamsStay ==
    ASSUME BytesConserved, Reading,
           UNCHANGED <<frames, down, left, to, incoming, shown>>,
           \A c \in Clients : cpc'[c] = "print" <=> cpc[c] = "print"
    PROVE  BytesConserved' /\ Reading'
<1>1. \A c \in Clients : Due(c)' = Due(c) /\ First(c)' = First(c)
  BY SameDue
<1>2. BytesConserved'
  <2>1. \A c \in Clients : Due(c)' = incoming'[c] + down'[c] + IF to' = c THEN left' ELSE 0
    BY <1>1, BytesDue
  <2> QED BY <2>1 DEF BytesConserved, Due
<1>3. Reading'
  BY <1>1 DEF Reading
<1> QED BY <1>2, <1>3

\* sendall() is called.
LEMMA BeginKeeps ==
    ASSUME TypeOK, BytesConserved, Reading, left = 0,
           NEW c \in Clients, NEW frame \in 0..MaxMessages, Begin(c, frame),
           UNCHANGED <<down, cpc, incoming, shown>>
    PROVE  /\ BytesConserved' /\ Reading'
           /\ frames' \in [Clients -> Seq(0..MaxMessages)]
           /\ left' \in 0..(MessageLen + AckLen) /\ to' = c
           /\ \A d \in Clients : Len(frames[d]) <= Len(frames'[d])
           /\ Len(frames'[c]) = Len(frames[c]) + 1 /\ frames'[c][Len(frames[c]) + 1] = frame
           /\ \A d \in Clients : \A j \in 1..Len(frames[d]) : frames'[d][j] = frames[d][j]
           /\ \A d \in Clients : \A j \in 1..Len(frames'[d]) :
                 j \in 1..Len(frames[d]) \/ (d = c /\ j = Len(frames[c]) + 1)
           /\ shown'[to'] < Len(frames'[to'])
           /\ left' <= FrameLen(frames'[to'][Len(frames'[to'])])
<1>1. /\ frames' = [frames EXCEPT ![c] = Append(frames[c], frame)]
      /\ left' = FrameLen(frame) /\ to' = c
  BY DEF Begin
<1>2. frames \in [Clients -> Seq(0..MaxMessages)]
  BY DEF TypeOK
<1>3. frames'[c] = Append(frames[c], frame) /\ \A d \in Clients : d # c => frames'[d] = frames[d]
  BY <1>1, <1>2
<1>4. /\ Len(frames'[c]) = Len(frames[c]) + 1 /\ frames'[c][Len(frames[c]) + 1] = frame
      /\ \A j \in 1..Len(frames[c]) : frames'[c][j] = frames[c][j]
      /\ frames'[c] \in Seq(0..MaxMessages) /\ Len(frames[c]) \in Nat
      /\ shown[c] \in Nat /\ shown[c] <= Len(frames[c]) /\ incoming[c] \in Nat
      /\ down[c] \in Nat
  BY <1>3, ClientTypes, AppendProperties
<1>5. frames' \in [Clients -> Seq(0..MaxMessages)]
  BY <1>1, <1>2, <1>3, <1>4
<1>6. Due(c)' = Due(c) + FrameLen(frame) /\ \A d \in Clients : d # c => Due(d)' = Due(d)
  BY <1>3, BegunDue, SameDue
<1>7. \A d \in Clients : Due(d) = incoming[d] + down[d] + 0
  BY BytesDue
<1>8. BytesConserved'
  <2>1. \A d \in Clients : Due(d)' = incoming'[d] + down'[d] + IF to' = d THEN left' ELSE 0
    <3> SUFFICES ASSUME NEW d \in Clients
                 PROVE  Due(d)' = incoming[d] + down[d] + IF c = d THEN FrameLen(frame) ELSE 0
      BY <1>1
    <3>1. incoming[d] \in Nat /\ down[d] \in Nat /\ FrameLen(frame) \in Nat
      BY ClientTypes, FrameSizes
    <3> QED BY <1>6, <1>7, <3>1
  <2> QED BY <2>1 DEF BytesConserved, Due
<1>9. ASSUME NEW d \in Clients
      PROVE  /\ shown[d] < Len(frames'[d]) =>
                   /\ incoming[d] <= FrameLen(First(d)')
                   /\ cpc[d] # "print" => incoming[d] < FrameLen(First(d)')
             /\ cpc[d] = "print" =>
                   shown[d] < Len(frames'[d]) /\ incoming[d] = FrameLen(First(d)')
  <2>1. CASE d # c
    <3>1. frames'[d] = frames[d] /\ First(d)' = First(d)
      BY <1>3, <2>1 DEF First
    <3> QED BY <3>1 DEF Reading
  <2>2. CASE d = c /\ shown[c] < Len(frames[c])
    <3>1. First(c)' = First(c)
      <4>1. shown[c] + 1 \in 1..Len(frames[c])
        BY <1>4, <2>2
      <4> QED BY <1>4, <4>1 DEF First
    <3>2. shown[c] < Len(frames'[c])
      BY <1>4, <2>2
    <3> QED BY <2>2, <3>1, <3>2 DEF Reading
  <2>3. CASE d = c /\ shown[c] = Len(frames[c])
    <3>1. incoming[c] = 0
      BY <1>4, <1>7, <2>3, NothingDue
    <3>2. cpc[c] # "print"
      BY <1>4, <2>3 DEF Reading
    <3> QED BY <2>3, <3>1, <3>2, FrameSizes
  <2> QED BY <1>4, <2>1, <2>2, <2>3
<1>10. Reading'
  BY <1>9 DEF Reading
<1>11. \A d \in Clients : Len(frames[d]) <= Len(frames'[d])
  BY <1>3, <1>4, ClientTypes
<1>12. \A d \in Clients : \A j \in 1..Len(frames'[d]) :
                 j \in 1..Len(frames[d]) \/ (d = c /\ j = Len(frames[c]) + 1)
  <2> SUFFICES ASSUME NEW d \in Clients, NEW j \in 1..Len(frames'[d])
               PROVE  j \in 1..Len(frames[d]) \/ (d = c /\ j = Len(frames[c]) + 1)
    OBVIOUS
  <2>1. CASE d = c
    BY <1>4, <2>1
  <2>2. CASE d # c
    BY <1>3, <2>2
  <2> QED BY <2>1, <2>2
<1>13. FrameLen(frame) \in 0..(MessageLen + AckLen)
  BY FrameSizes
<1>14. shown'[to'] < Len(frames'[to']) /\ left' <= FrameLen(frames'[to'][Len(frames'[to'])])
  <2>1. FrameLen(frame) <= FrameLen(frame)
    BY FrameSizes
  <2> QED BY <1>1, <1>4, <2>1
<1> QED BY <1>1, <1>3, <1>4, <1>5, <1>8, <1>10, <1>11, <1>12, <1>13, <1>14

LEMMA SendBytes ==
    ASSUME TypeOK, BytesConserved, Reading, Send
    PROVE  /\ BytesConserved' /\ Reading'
           /\ down' \in [Clients -> 0..DownRoom] /\ left' \in 0..(MessageLen + AckLen)
           /\ left' < left
<1>1. PICK n \in 1..Least(left, DownRoom - down[to]) :
          left' = left - n /\ down' = [down EXCEPT ![to] = down[to] + n]
  BY DEF Send
<1>2. /\ left \in 0..(MessageLen + AckLen) /\ to \in Clients /\ down \in [Clients -> 0..DownRoom]
      /\ left \in Nat /\ down[to] \in Nat /\ down[to] <= DownRoom
  BY ClientTypes DEF TypeOK
<1>3. n \in Nat /\ n > 0 /\ n <= left /\ down[to] + n <= DownRoom
  <2>1. DownRoom - down[to] \in Nat
    BY <1>2, Sizes
  <2>2. /\ Least(left, DownRoom - down[to]) \in Nat /\ Least(left, DownRoom - down[to]) <= left
        /\ Least(left, DownRoom - down[to]) <= DownRoom - down[to]
    BY <1>2, <2>1, LeastBound
  <2> QED BY <1>2, <2>1, <2>2, Sizes
<1>4. left' \in 0..(MessageLen + AckLen) /\ left' < left
  BY <1>1, <1>2, <1>3, Sizes
<1>5. down' \in [Clients -> 0..DownRoom]
  BY <1>1, <1>2, <1>3, Sizes
<1>6. UNCHANGED <<frames, to, incoming, shown, cpc>>
  BY DEF Send
<1>7. \A c \in Clients : Due(c)' = Due(c) /\ First(c)' = First(c)
  BY <1>6, SameDue
<1>8. \A c \in Clients : Due(c)' = incoming'[c] + down'[c] + IF to' = c THEN left' ELSE 0
  <2> SUFFICES ASSUME NEW c \in Clients
               PROVE  Due(c)' = incoming[c] + down'[c] + IF to = c THEN left' ELSE 0
    BY <1>6
  <2>1. Due(c) = incoming[c] + down[c] + IF to = c THEN left ELSE 0
    BY BytesDue
  <2>2. incoming[c] \in Nat /\ down[c] \in Nat
    BY ClientTypes
  <2>3. CASE c = to
    <3>1. down'[c] = down[c] + n
      BY <1>1, <1>2, <2>3
    <3> QED BY <1>1, <1>2, <1>3, <1>7, <2>1, <2>2, <2>3, <3>1
  <2>4. CASE c # to
    <3>1. down'[c] = down[c]
      BY <1>1, <1>2, <2>4
    <3> QED BY <1>7, <2>1, <2>4, <3>1
  <2> QED BY <2>3, <2>4
<1>9. BytesConserved'
  BY <1>8 DEF BytesConserved, Due
<1>10. Reading'
  BY <1>6, <1>7 DEF Reading
<1> QED BY <1>4, <1>5, <1>9, <1>10

LEMMA RecvUnitsBytes ==
    ASSUME TypeOK, BytesConserved, Reading, NEW c \in Clients, RecvUnits(c)
    PROVE  /\ BytesConserved' /\ Reading'
           /\ down' \in [Clients -> 0..DownRoom] /\ incoming' \in [Clients -> Nat]
           /\ cpc' \in [Clients -> Requests \cup {"poll", "body", "print"}]
<1>1. PICK n \in 1..Least(Missing(c), down[c]) :
          /\ down' = [down EXCEPT ![c] = down[c] - n]
          /\ incoming' = [incoming EXCEPT ![c] = incoming[c] + n]
          /\ cpc' = [cpc EXCEPT ![c] = IF n = Missing(c) THEN "print" ELSE "body"]
  BY DEF RecvUnits
<1>2. /\ down \in [Clients -> 0..DownRoom] /\ incoming \in [Clients -> Nat]
      /\ cpc \in [Clients -> Requests \cup {"poll", "body", "print"}]
      /\ down[c] \in Nat /\ down[c] <= DownRoom /\ incoming[c] \in Nat
      /\ shown[c] \in Nat /\ Len(frames[c]) \in Nat /\ shown[c] <= Len(frames[c])
      /\ left \in Nat
  BY ClientTypes DEF TypeOK
<1>3. cpc[c] # "print" /\ down[c] > 0 /\ UNCHANGED <<frames, left, to, shown>>
  BY DEF RecvUnits
<1>4. shown[c] < Len(frames[c])
  <2>1. Due(c) = incoming[c] + down[c] + IF to = c THEN left ELSE 0
    BY BytesDue
  <2>2. Due(c) # 0
    BY <1>2, <1>3, <2>1
  <2> QED BY <1>2, <2>2, NothingDue
<1>5. /\ Missing(c) = FrameLen(First(c)) - incoming[c] /\ Missing(c) \in Nat
      /\ FrameLen(First(c)) \in Nat
  <2>1. incoming[c] < FrameLen(First(c))
    BY <1>3, <1>4 DEF Reading
  <2>2. FrameLen(First(c)) \in Nat
    BY FrameSizes
  <2>3. Missing(c) = FrameLen(First(c)) - incoming[c]
    BY DEF Missing, First
  <2> QED BY <1>2, <2>1, <2>2, <2>3
<1>6. n \in Nat /\ n <= Missing(c) /\ n <= down[c]
  <2>1. /\ Least(Missing(c), down[c]) \in Nat /\ Least(Missing(c), down[c]) <= Missing(c)
        /\ Least(Missing(c), down[c]) <= down[c]
    BY <1>2, <1>5, LeastBound
  <2> QED BY <1>2, <1>5, <2>1
<1>7. /\ down' \in [Clients -> 0..DownRoom] /\ incoming' \in [Clients -> Nat]
  BY <1>1, <1>2, <1>6, Sizes
<1>8. cpc' \in [Clients -> Requests \cup {"poll", "body", "print"}]
  BY <1>1, <1>2
<1>9. \A d \in Clients : Due(d)' = Due(d) /\ First(d)' = First(d)
  BY <1>3, SameDue
<1>10. /\ down'[c] = down[c] - n /\ incoming'[c] = incoming[c] + n
       /\ cpc'[c] = IF n = Missing(c) THEN "print" ELSE "body"
       /\ \A d \in Clients : d # c => /\ down'[d] = down[d] /\ incoming'[d] = incoming[d]
                                      /\ cpc'[d] = cpc[d]
  BY <1>1, <1>2
<1>11. \A d \in Clients : Due(d)' = incoming'[d] + down'[d] + IF to' = d THEN left' ELSE 0
  <2> SUFFICES ASSUME NEW d \in Clients
               PROVE  Due(d)' = incoming'[d] + down'[d] + IF to = d THEN left ELSE 0
    BY <1>3
  <2>1. Due(d) = incoming[d] + down[d] + IF to = d THEN left ELSE 0
    BY BytesDue
  <2>2. incoming[d] \in Nat /\ down[d] \in Nat
    BY ClientTypes
  <2>3. incoming'[d] + down'[d] = incoming[d] + down[d]
    BY <1>6, <1>10, <2>2
  <2> QED BY <1>9, <2>1, <2>3
<1>12. BytesConserved'
  BY <1>11 DEF BytesConserved, Due
<1>13. incoming'[c] <= FrameLen(First(c)) /\ (n = Missing(c) <=> incoming'[c] = FrameLen(First(c)))
  BY <1>2, <1>5, <1>6, <1>10
<1>14. incoming'[c] \in Nat
  BY <1>7
<1>15. ASSUME NEW d \in Clients
       PROVE  /\ shown[d] < Len(frames[d]) =>
                   /\ incoming'[d] <= FrameLen(First(d))
                   /\ cpc'[d] # "print" => incoming'[d] < FrameLen(First(d))
              /\ cpc'[d] = "print" =>
                   shown[d] < Len(frames[d]) /\ incoming'[d] = FrameLen(First(d))
  <2>1. CASE d # c
    BY <1>10, <2>1 DEF Reading
  <2>2. CASE d = c
    BY <1>4, <1>5, <1>10, <1>13, <1>14, <2>2
  <2> QED BY <2>1, <2>2
<1>16. Reading'
  BY <1>3, <1>9, <1>15 DEF Reading
<1> QED BY <1>7, <1>8, <1>12, <1>16

\* A line is written.
LEMMA DisplayBytes ==
    ASSUME TypeOK, BytesConserved, Reading, NEW c \in Clients, Display(c)
    PROVE  /\ BytesConserved' /\ Reading'
           /\ incoming' \in [Clients -> Nat]
           /\ cpc' \in [Clients -> Requests \cup {"poll", "body", "print"}]
           /\ \A d \in Clients : shown'[d] \in 0..Len(frames[d])
           /\ shown'[c] = shown[c] + 1 /\ \A d \in Clients : d # c => shown'[d] = shown[d]
<1>1. /\ shown' = [shown EXCEPT ![c] = shown[c] + 1]
      /\ incoming' = [incoming EXCEPT ![c] = 0] /\ cpc' = [cpc EXCEPT ![c] = "poll"]
      /\ cpc[c] = "print" /\ UNCHANGED <<frames, down, left, to>>
  BY DEF Display
<1>2. /\ shown[c] \in Nat /\ Len(frames[c]) \in Nat /\ shown[c] < Len(frames[c])
      /\ incoming[c] = FrameLen(First(c))
  BY <1>1, ClientTypes DEF Reading
<1>3. incoming \in [Clients -> Nat] /\ cpc \in [Clients -> Requests \cup {"poll", "body", "print"}]
  BY DEF TypeOK
<1>4. shown'[c] = shown[c] + 1 /\ \A d \in Clients : d # c => shown'[d] = shown[d]
  BY <1>1 DEF TypeOK
<1>5. /\ incoming'[c] = 0 /\ cpc'[c] = "poll"
      /\ \A d \in Clients : d # c => incoming'[d] = incoming[d] /\ cpc'[d] = cpc[d]
  BY <1>1, <1>3
<1>6. Due(c)' \in Nat /\ Due(c) = Due(c)' + FrameLen(First(c))
  BY <1>1, <1>2, <1>4, ShownDue
<1>7. \A d \in Clients : d # c => Due(d)' = Due(d) /\ First(d)' = First(d)
  BY <1>1, <1>4, SameDue
<1>8. \A d \in Clients : Due(d)' = incoming'[d] + down'[d] + IF to' = d THEN left' ELSE 0
  <2> SUFFICES ASSUME NEW d \in Clients
               PROVE  Due(d)' = incoming'[d] + down[d] + IF to = d THEN left ELSE 0
    BY <1>1
  <2>1. Due(d) = incoming[d] + down[d] + IF to = d THEN left ELSE 0
    BY BytesDue
  <2>2. FrameLen(First(c)) \in Nat /\ down[d] \in Nat /\ left \in Nat
    BY FrameSizes, ClientTypes DEF TypeOK
  <2>3. CASE d = c
    <3>1. PICK rest \in Nat : rest = IF to = d THEN left ELSE 0
      BY <2>2
    <3>2. Due(c)' + FrameLen(First(c)) = FrameLen(First(c)) + down[c] + rest
      BY <1>2, <1>6, <2>1, <2>3, <3>1
    <3>3. Due(c)' = 0 + down[c] + rest
      BY <1>6, <2>2, <2>3, <3>2
    <3> QED BY <1>5, <2>3, <3>1, <3>3
  <2>4. CASE d # c
    BY <1>5, <1>7, <2>1, <2>4
  <2> QED BY <2>3, <2>4
<1>9. BytesConserved'
  BY <1>8 DEF BytesConserved, Due
<1>10. \A d \in Clients : shown'[d] \in 0..Len(frames[d])
  <2> SUFFICES ASSUME NEW d \in Clients PROVE shown'[d] \in 0..Len(frames[d])
    OBVIOUS
  <2>1. CASE d = c
    BY <1>2, <1>4, <2>1
  <2>2. CASE d # c
    BY <1>4, <2>2, ClientTypes
  <2> QED BY <2>1, <2>2
<1>11. ASSUME NEW d \in Clients
       PROVE  /\ shown'[d] < Len(frames[d]) =>
                   /\ incoming'[d] <= FrameLen(First(d)')
                   /\ cpc'[d] # "print" => incoming'[d] < FrameLen(First(d)')
              /\ cpc'[d] = "print" =>
                   shown'[d] < Len(frames[d]) /\ incoming'[d] = FrameLen(First(d)')
  <2>1. CASE d # c
    BY <1>4, <1>5, <1>7, <2>1 DEF Reading
  <2>2. CASE d = c
    BY <1>5, <2>2, FrameSizes DEF First
  <2> QED BY <2>1, <2>2
<1>12. Reading'
  BY <1>1, <1>11 DEF Reading
<1>13. incoming' \in [Clients -> Nat] /\ cpc' \in [Clients -> Requests \cup {"poll", "body", "print"}]
  BY <1>1, <1>3
<1> QED BY <1>4, <1>9, <1>10, <1>12, <1>13

------------------------------------------------------------------------------
(* Every step keeps the invariant *)

\* A frame more leaves what a client has shown within its frames.
LEMMA FramesGrow ==
    ASSUME TypeOK, frames' \in [Clients -> Seq(0..MaxMessages)], shown' = shown,
           \A d \in Clients : Len(frames[d]) <= Len(frames'[d])
    PROVE  \A d \in Clients : shown'[d] \in 0..Len(frames'[d])
<1> SUFFICES ASSUME NEW d \in Clients PROVE shown[d] \in 0..Len(frames'[d])
  OBVIOUS
<1>1. Len(frames'[d]) \in Nat
  BY LenProperties
<1> QED BY <1>1, ClientTypes

LEMMA Initial == Init => IInv
<1> SUFFICES ASSUME Init PROVE IInv
  OBVIOUS
<1>1. \A c \in Clients : /\ frames[c] = <<>> /\ shown[c] = 0 /\ incoming[c] = 0 /\ down[c] = 0
                         /\ up[c] = <<>> /\ cpc[c] = "poll"
  BY DEF Init
<1>2. Len(<<>>) = 0 /\ \A S : <<>> \in Seq(S)
  BY EmptySeq
<1>3. TypeOK
  <2>1. /\ ready \in [udp : BOOLEAN, socks : SUBSET Clients]
        /\ {subscribed, targets} \subseteq SUBSET Clients
        /\ arrived \in Nat /\ matched \in Seq(SUBSET Clients) /\ Len(matched) <= arrived
    BY <1>2 DEF Init
  <2>2. i \in 1..(N + 1) /\ to \in Clients /\ left \in 0..(MessageLen + AckLen)
    BY Sizes DEF Init, Clients
  <2>3. /\ frames \in [Clients -> Seq(0..MaxMessages)] /\ up \in [Clients -> Seq(Requests)]
        /\ \A c \in Clients : Len(up[c]) <= UpRoom
    BY <1>1, <1>2, Sizes DEF Init
  <2>4. /\ down \in [Clients -> 0..DownRoom]
        /\ {asked, incoming, shown} \subseteq [Clients -> Nat]
        /\ \A c \in Clients : shown[c] \in 0..Len(frames[c])
    BY <1>1, <1>2, Sizes DEF Init
  <2> QED BY <2>1, <2>2, <2>3, <2>4 DEF TypeOK, Init
<1>4. BytesConserved
  <2>1. \A c \in Clients : Due(c) = incoming[c] + down[c] + IF to = c THEN left ELSE 0
    <3> SUFFICES ASSUME NEW c \in Clients
                 PROVE  Due(c) = incoming[c] + down[c] + IF to = c THEN left ELSE 0
      OBVIOUS
    <3>1. Due(c) = 0
      BY <1>1, <1>2, <1>3, NothingDue
    <3>2. left = 0
      BY DEF Init
    <3> QED BY <1>1, <3>1, <3>2
  <2> QED BY <2>1, BytesDue
<1>5. Reading
  BY <1>1, <1>2 DEF Reading
<1>6. Sending
  BY Sizes DEF Sending, Init
<1>7. Matching
  BY <1>1, <1>2 DEF Matching, Init
<1> QED BY <1>3, <1>4, <1>5, <1>6, <1>7 DEF IInv

LEMMA PollKeeps == IInv /\ Poll => IInv'
<1> SUFFICES ASSUME IInv, Poll PROVE IInv'
  OBVIOUS
<1>1. TypeOK'
  <2>1. ready' \in [udp : BOOLEAN, socks : SUBSET Clients]
    <3>1. Waiting \in BOOLEAN
      BY DEF Waiting
    <3> QED BY <3>1 DEF Poll
  <2> QED BY <2>1 DEF IInv, TypeOK, Poll
<1>2. BytesConserved' /\ Reading'
  BY StreamsStay DEF IInv, Poll
<1>3. Sending' /\ Matching'
  BY DEF IInv, Sending, Matching, Poll
<1> QED BY <1>1, <1>2, <1>3 DEF IInv

LEMMA SendKeeps == IInv /\ Send => IInv'
<1> SUFFICES ASSUME IInv, Send PROVE IInv'
  OBVIOUS
<1>1. /\ BytesConserved' /\ Reading' /\ left' < left
      /\ down' \in [Clients -> 0..DownRoom] /\ left' \in 0..(MessageLen + AckLen)
  BY SendBytes DEF IInv
<1>2. TypeOK'
  BY <1>1 DEF IInv, TypeOK, Send
<1>3. Sending'
  <2>1. /\ left > 0 /\ shown[to] < Len(frames[to])
        /\ left <= FrameLen(frames[to][Len(frames[to])]) /\ to \notin targets
    BY DEF IInv, Sending, Send
  <2>2. left' <= FrameLen(frames[to][Len(frames[to])])
    <3>1. PICK room \in Nat : room = FrameLen(frames[to][Len(frames[to])])
      BY FrameSizes
    <3>2. left \in Nat /\ left' \in Nat
      BY <1>1, Sizes DEF IInv, TypeOK
    <3> QED BY <1>1, <2>1, <3>1, <3>2
  <2> QED BY <2>1, <2>2 DEF IInv, Sending, Send
<1>4. Matching'
  BY DEF IInv, Matching, Send
<1> QED BY <1>1, <1>2, <1>3, <1>4 DEF IInv

LEMMA ReceiveKeeps == IInv /\ Receive => IInv'
<1> SUFFICES ASSUME IInv, Receive PROVE IInv'
  OBVIOUS
<1>1. matched \in Seq(SUBSET Clients) /\ subscribed \in SUBSET Clients /\ Len(matched) \in Nat
  BY LenProperties DEF IInv, TypeOK
<1>2. /\ matched' \in Seq(SUBSET Clients) /\ Len(matched') = Len(matched) + 1
      /\ \A k \in 1..Len(matched) : matched'[k] = matched[k]
      /\ matched'[Len(matched) + 1] = subscribed
  BY <1>1, AppendProperties DEF Receive
<1>3. TypeOK'
  <2>1. Len(matched') <= arrived'
    BY <1>1, <1>2 DEF IInv, TypeOK, Receive, Waiting
  <2> QED BY <1>1, <1>2, <2>1 DEF IInv, TypeOK, Receive
<1>4. BytesConserved' /\ Reading'
  BY StreamsStay DEF IInv, Receive
<1>5. Sending'
  <2>1. matched' # <<>>
    BY <1>1, <1>2
  <2> QED BY <2>1 DEF IInv, Sending, Receive
<1>6. Matching'
  <2>1. \A c \in Clients : \A j \in 1..Len(frames[c]) : frames[c][j] <= Len(matched')
    BY <1>1, <1>2, ClientTypes DEF IInv, Matching
  <2>2. ASSUME NEW k \in 1..Len(matched'), NEW c \in matched'[k]
        PROVE  \/ \E j \in 1..Len(frames[c]) : frames[c][j] = k
               \/ k = Len(matched') /\ c \in subscribed
    <3>1. CASE k = Len(matched')
      BY <1>2, <2>2, <3>1
    <3>2. CASE k # Len(matched')
      <4>1. k \in 1..Len(matched) /\ c \in matched[k]
        BY <1>1, <1>2, <2>2, <3>2
      <4> QED BY <4>1 DEF IInv, Matching, Receive
    <3> QED BY <3>1, <3>2
  <2> QED BY <2>1, <2>2 DEF Matching, Receive
<1> QED BY <1>3, <1>4, <1>5, <1>6 DEF IInv

LEMMA BeginMessageKeeps == IInv /\ BeginMessage => IInv'
<1> SUFFICES ASSUME IInv, BeginMessage PROVE IInv'
  OBVIOUS
<1>1. PICK c \in targets : Begin(c, Len(matched)) /\ targets' = targets \ {c}
  BY DEF BeginMessage
<1>2. /\ c \in Clients /\ Len(matched) \in 0..MaxMessages /\ matched \in Seq(SUBSET Clients)
      /\ pc = "udp" /\ matched # <<>> /\ left = 0
  <2>1. /\ targets \in SUBSET Clients /\ matched \in Seq(SUBSET Clients)
        /\ Len(matched) <= arrived /\ arrived \in Nat /\ arrived <= MaxMessages
    BY DEF IInv, TypeOK, Sending
  <2> QED BY <2>1, LenProperties, Sizes DEF IInv, Sending, BeginMessage
<1>3. UNCHANGED <<pc, ready, subscribed, arrived, matched, i, down, up, process>>
  BY DEF BeginMessage
<1>4. /\ BytesConserved' /\ Reading'
      /\ frames' \in [Clients -> Seq(0..MaxMessages)]
      /\ left' \in 0..(MessageLen + AckLen) /\ to' = c
      /\ \A d \in Clients : Len(frames[d]) <= Len(frames'[d])
      /\ Len(frames'[c]) = Len(frames[c]) + 1 /\ frames'[c][Len(frames[c]) + 1] = Len(matched)
      /\ \A d \in Clients : \A j \in 1..Len(frames[d]) : frames'[d][j] = frames[d][j]
      /\ \A d \in Clients : \A j \in 1..Len(frames'[d]) :
            j \in 1..Len(frames[d]) \/ (d = c /\ j = Len(frames[c]) + 1)
      /\ shown'[to'] < Len(frames'[to'])
      /\ left' <= FrameLen(frames'[to'][Len(frames'[to'])])
  BY <1>1, <1>2, <1>3, BeginKeeps DEF IInv
<1>5. TypeOK'
  BY <1>1, <1>2, <1>3, <1>4, FramesGrow DEF IInv, TypeOK
<1>6. Sending'
  BY <1>1, <1>2, <1>3, <1>4 DEF IInv, Sending
<1>7. Matching'
  <2>1. \A d \in Clients : \A j \in 1..Len(frames'[d]) : frames'[d][j] <= Len(matched)
    <3> SUFFICES ASSUME NEW d \in Clients, NEW j \in 1..Len(frames'[d])
                 PROVE  frames'[d][j] <= Len(matched)
      OBVIOUS
    <3>1. CASE j \in 1..Len(frames[d])
      BY <1>4, <3>1 DEF IInv, Matching
    <3>2. CASE d = c /\ j = Len(frames[c]) + 1
      BY <1>2, <1>4, <3>2
    <3> QED BY <1>4, <3>1, <3>2
  <2>2. ASSUME NEW k \in 1..Len(matched), NEW d \in matched[k]
        PROVE  \/ \E j \in 1..Len(frames'[d]) : frames'[d][j] = k
               \/ k = Len(matched) /\ d \in targets'
    <3>1. d \in Clients /\ Len(frames[d]) \in Nat /\ Len(frames'[d]) \in Nat
      BY <1>2, <1>4, ElementOfSeq, LenProperties, ClientTypes DEF IInv
    <3>2. CASE \E j \in 1..Len(frames[d]) : frames[d][j] = k
      BY <1>4, <3>1, <3>2
    <3>3. CASE k = Len(matched) /\ d \in targets
      <4>1. CASE d = c
        <5>1. Len(frames'[c]) \in 1..Len(frames'[c])
          BY <1>2, <1>4, ClientTypes DEF IInv
        <5> QED BY <1>4, <3>3, <4>1, <5>1
      <4> QED BY <1>1, <3>3, <4>1
    <3> QED BY <3>2, <3>3 DEF IInv, Matching
  <2> QED BY <1>3, <2>1, <2>2 DEF Matching
<1> QED BY <1>4, <1>5, <1>6, <1>7 DEF IInv

LEMMA UdpDrainedKeeps == IInv /\ UdpDrained => IInv'
<1> SUFFICES ASSUME IInv, UdpDrained PROVE IInv'
  OBVIOUS
<1>1. TypeOK'
  <2>1. i' \in 1..(N + 1)
    BY Sizes DEF UdpDrained
  <2> QED BY <2>1 DEF IInv, TypeOK, UdpDrained
<1>2. BytesConserved' /\ Reading'
  BY StreamsStay DEF IInv, UdpDrained
<1>3. Sending' /\ Matching'
  BY DEF IInv, Sending, Matching, UdpDrained
<1> QED BY <1>1, <1>2, <1>3 DEF IInv

LEMMA NextClientKeeps == IInv /\ NextClient => IInv'
<1> SUFFICES ASSUME IInv, NextClient PROVE IInv'
  OBVIOUS
<1>1. TypeOK'
  <2>1. i' \in 1..(N + 1)
    BY Sizes DEF NextClient, Clients
  <2> QED BY <2>1 DEF IInv, TypeOK, NextClient
<1>2. BytesConserved' /\ Reading'
  BY StreamsStay DEF IInv, NextClient
<1>3. Sending' /\ Matching'
  BY DEF IInv, Sending, Matching, NextClient
<1> QED BY <1>1, <1>2, <1>3 DEF IInv

LEMMA EndTurnKeeps == IInv /\ EndTurn => IInv'
<1> SUFFICES ASSUME IInv, EndTurn PROVE IInv'
  OBVIOUS
<1>1. TypeOK'
  BY DEF IInv, TypeOK, EndTurn
<1>2. BytesConserved' /\ Reading'
  BY StreamsStay DEF IInv, EndTurn
<1>3. Sending' /\ Matching'
  BY DEF IInv, Sending, Matching, EndTurn
<1> QED BY <1>1, <1>2, <1>3 DEF IInv

LEMMA PublishKeeps == IInv /\ Publish => IInv'
<1> SUFFICES ASSUME IInv, Publish PROVE IInv'
  OBVIOUS
<1>1. arrived \in Nat /\ arrived < MaxMessages /\ Len(matched) \in Nat
  BY LenProperties DEF IInv, TypeOK, Publish
<1>2. TypeOK'
  BY <1>1 DEF IInv, TypeOK, Publish
<1>3. BytesConserved' /\ Reading'
  BY StreamsStay DEF IInv, Publish
<1>4. Sending' /\ Matching'
  BY <1>1, Sizes DEF IInv, Sending, Matching, Publish
<1> QED BY <1>2, <1>3, <1>4 DEF IInv

LEMMA ProcessRequestKeeps == IInv /\ ProcessRequest => IInv'
<1> SUFFICES ASSUME IInv, ProcessRequest PROVE IInv'
  OBVIOUS
<1>1. i \in Clients /\ up[i] # <<>> /\ pc = "scan" /\ left = 0 /\ targets = {}
  BY DEF IInv, TypeOK, Sending, ProcessRequest
<1>2. /\ UNCHANGED <<pc, ready, arrived, matched, targets, i, down, process>>
      /\ up' = [up EXCEPT ![i] = Tail(up[i])]
      /\ subscribed' = Requested(i, Head(up[i]))
  BY DEF ProcessRequest
<1>3. up' \in [Clients -> Seq(Requests)] /\ \A c \in Clients : Len(up'[c]) <= UpRoom
  <2>1. /\ Tail(up[i]) \in Seq(Requests) /\ Len(Tail(up[i])) <= UpRoom
    <3>1. up[i] \in Seq(Requests) /\ Len(up[i]) \in Nat /\ Len(up[i]) <= UpRoom
      BY <1>1, ClientTypes DEF IInv
    <3>2. Tail(up[i]) \in Seq(Requests) /\ Len(Tail(up[i])) = Len(up[i]) - 1
      BY <1>1, <3>1, HeadTailProperties
    <3> QED BY <3>1, <3>2, Sizes
  <2> QED BY <1>1, <1>2, <2>1 DEF IInv, TypeOK
<1>4. subscribed' \in SUBSET Clients
  BY <1>1, <1>2 DEF IInv, TypeOK, Requested
<1>5. CASE UNCHANGED <<frames, left, to>>
  <2>1. TypeOK'
    BY <1>2, <1>3, <1>4, <1>5 DEF IInv, TypeOK
  <2>2. BytesConserved' /\ Reading'
    BY <1>2, <1>5, StreamsStay DEF IInv
  <2>3. Sending' /\ Matching'
    BY <1>2, <1>5 DEF IInv, Sending, Matching
  <2> QED BY <2>1, <2>2, <2>3 DEF IInv
<1>6. CASE Begin(i, Ack)
  <2>1. Ack \in 0..MaxMessages
    BY Sizes DEF Ack
  <2>2. /\ BytesConserved' /\ Reading'
        /\ frames' \in [Clients -> Seq(0..MaxMessages)]
        /\ left' \in 0..(MessageLen + AckLen) /\ to' = i
        /\ \A d \in Clients : Len(frames[d]) <= Len(frames'[d])
        /\ Len(frames'[i]) = Len(frames[i]) + 1 /\ frames'[i][Len(frames[i]) + 1] = Ack
        /\ \A d \in Clients : \A j \in 1..Len(frames[d]) : frames'[d][j] = frames[d][j]
        /\ \A d \in Clients : \A j \in 1..Len(frames'[d]) :
              j \in 1..Len(frames[d]) \/ (d = i /\ j = Len(frames[i]) + 1)
        /\ shown'[to'] < Len(frames'[to'])
        /\ left' <= FrameLen(frames'[to'][Len(frames'[to'])])
    BY <1>1, <1>2, <1>6, <2>1, BeginKeeps DEF IInv
  <2>3. TypeOK'
    BY <1>1, <1>2, <1>3, <1>4, <2>2, FramesGrow DEF IInv, TypeOK
  <2>4. Sending'
    BY <1>1, <1>2, <2>2 DEF IInv, Sending
  <2>5. Matching'
    <3>1. ASSUME NEW d \in Clients, NEW j \in 1..Len(frames'[d])
          PROVE  frames'[d][j] <= Len(matched)
      <4>1. CASE j \in 1..Len(frames[d])
        BY <2>2, <4>1 DEF IInv, Matching
      <4>2. CASE d = i /\ j = Len(frames[i]) + 1
        <5>1. Len(matched) \in Nat
          BY LenProperties DEF IInv, TypeOK
        <5> QED BY <2>2, <4>2, <5>1 DEF Ack
      <4> QED BY <2>2, <4>1, <4>2
    <3>2. ASSUME NEW k \in 1..Len(matched), NEW d \in matched[k]
          PROVE  \E j \in 1..Len(frames'[d]) : frames'[d][j] = k
      <4>1. d \in Clients
        <5>1. matched \in Seq(SUBSET Clients)
          BY DEF IInv, TypeOK
        <5> QED BY <5>1, ElementOfSeq
      <4>2. Len(frames[d]) \in Nat /\ Len(frames'[d]) \in Nat
        BY <2>2, <4>1, LenProperties, ClientTypes DEF IInv
      <4>3. \E j \in 1..Len(frames[d]) : frames[d][j] = k
        BY <1>1 DEF IInv, Matching
      <4> QED BY <2>2, <4>1, <4>2, <4>3
    <3> QED BY <1>2, <3>1, <3>2 DEF Matching
  <2> QED BY <2>2, <2>3, <2>4, <2>5 DEF IInv
<1> QED BY <1>5, <1>6 DEF ProcessRequest

LEMMA AskKeeps == ASSUME NEW c \in Clients, NEW op \in Requests
                  PROVE  IInv /\ Ask(c, op) => IInv'
<1> SUFFICES ASSUME IInv, Ask(c, op) PROVE IInv'
  OBVIOUS
<1>1. TypeOK'
  <2>1. /\ asked' \in [Clients -> Nat]
        /\ cpc' \in [Clients -> Requests \cup {"poll", "body", "print"}]
    BY DEF IInv, TypeOK, Ask
  <2>2. UNCHANGED <<server, frames, down, up, incoming, shown>>
    BY DEF Ask
  <2> QED BY <2>1, <2>2 DEF IInv, TypeOK, server
<1>2. BytesConserved' /\ Reading'
  <2>1. \A d \in Clients : cpc'[d] = "print" <=> cpc[d] = "print"
    BY DEF IInv, TypeOK, Ask, Requests
  <2> QED BY <2>1, StreamsStay DEF IInv, Ask
<1>3. Sending' /\ Matching'
  BY DEF IInv, Sending, Matching, Ask
<1> QED BY <1>1, <1>2, <1>3 DEF IInv

LEMMA SendRequestKeeps == ASSUME NEW c \in Clients PROVE IInv /\ SendRequest(c) => IInv'
<1> SUFFICES ASSUME IInv, SendRequest(c) PROVE IInv'
  OBVIOUS
<1>1. TypeOK'
  <2>1. cpc' \in [Clients -> Requests \cup {"poll", "body", "print"}]
    BY DEF IInv, TypeOK, SendRequest
  <2>2. /\ Append(up[c], cpc[c]) \in Seq(Requests) /\ Len(Append(up[c], cpc[c])) = Len(up[c]) + 1
        /\ Len(up[c]) \in Nat
    BY ClientTypes, AppendProperties DEF IInv, SendRequest
  <2>3. up' \in [Clients -> Seq(Requests)] /\ \A d \in Clients : Len(up'[d]) <= UpRoom
    <3>1. up \in [Clients -> Seq(Requests)] /\ \A d \in Clients : Len(up[d]) <= UpRoom
      BY DEF IInv, TypeOK
    <3>2. Len(up[c]) < UpRoom /\ up' = [up EXCEPT ![c] = Append(up[c], cpc[c])]
      BY DEF SendRequest
    <3>3. Len(Append(up[c], cpc[c])) <= UpRoom
      BY <2>2, <3>2, Sizes
    <3> QED BY <2>2, <3>1, <3>2, <3>3
  <2> QED BY <2>1, <2>3 DEF IInv, TypeOK, SendRequest
<1>2. BytesConserved' /\ Reading'
  <2>1. \A d \in Clients : cpc'[d] = "print" <=> cpc[d] = "print"
    BY DEF IInv, TypeOK, SendRequest, Requests
  <2> QED BY <2>1, StreamsStay DEF IInv, SendRequest
<1>3. Sending' /\ Matching'
  BY DEF IInv, Sending, Matching, SendRequest
<1> QED BY <1>1, <1>2, <1>3 DEF IInv

LEMMA RecvUnitsKeeps == ASSUME NEW c \in Clients PROVE IInv /\ RecvUnits(c) => IInv'
<1> SUFFICES ASSUME IInv, RecvUnits(c) PROVE IInv'
  OBVIOUS
<1>1. /\ BytesConserved' /\ Reading'
      /\ down' \in [Clients -> 0..DownRoom] /\ incoming' \in [Clients -> Nat]
      /\ cpc' \in [Clients -> Requests \cup {"poll", "body", "print"}]
  BY RecvUnitsBytes DEF IInv
<1>2. TypeOK'
  <2>1. UNCHANGED <<pc, ready, subscribed, arrived, matched, targets, i, left, to,
                    frames, up, asked, shown>>
    BY DEF RecvUnits
  <2> QED BY <1>1, <2>1 DEF IInv, TypeOK
<1>3. Sending' /\ Matching'
  BY DEF IInv, Sending, Matching, RecvUnits
<1> QED BY <1>1, <1>2, <1>3 DEF IInv

LEMMA DisplayKeeps == ASSUME NEW c \in Clients PROVE IInv /\ Display(c) => IInv'
<1> SUFFICES ASSUME IInv, Display(c) PROVE IInv'
  OBVIOUS
<1>1. /\ BytesConserved' /\ Reading'
      /\ incoming' \in [Clients -> Nat]
      /\ cpc' \in [Clients -> Requests \cup {"poll", "body", "print"}]
      /\ \A d \in Clients : shown'[d] \in 0..Len(frames[d])
      /\ shown'[c] = shown[c] + 1 /\ \A d \in Clients : d # c => shown'[d] = shown[d]
  BY DisplayBytes DEF IInv
<1>2. TypeOK'
  <2>1. shown' \in [Clients -> Nat]
    BY DEF IInv, TypeOK, Display
  <2>2. UNCHANGED <<pc, ready, subscribed, arrived, matched, targets, i, left, to,
                    frames, down, up, asked>>
    BY DEF Display
  <2> QED BY <1>1, <2>1, <2>2 DEF IInv, TypeOK
<1>3. Sending'
  <2>1. ASSUME left > 0, to = c PROVE shown'[c] < Len(frames[c])
    <3>1. Due(c)' = incoming'[c] + down'[c] + left
      BY <1>1, <2>1 DEF BytesConserved, Due, Display
    <3>2. /\ incoming'[c] \in Nat /\ down'[c] \in Nat /\ left \in Nat
          /\ shown'[c] \in 0..Len(frames[c])
      BY <1>1, ClientTypes DEF IInv, Display
    <3>3. Due(c)' # 0
      BY <2>1, <3>1, <3>2
    <3>4. shown'[c] # Len(frames'[c])
      BY <1>2, <3>3, NothingDueNext
    <3> QED BY <3>2, <3>4 DEF Display
  <2>2. left > 0 => shown'[to] < Len(frames[to])
    BY <1>1, <2>1, ClientTypes DEF IInv, Sending
  <2> QED BY <2>2 DEF IInv, Sending, Display
<1>4. Matching'
  BY DEF IInv, Matching, Display
<1> QED BY <1>1, <1>2, <1>3, <1>4 DEF IInv

LEMMA Inductive == IInv /\ [Next]_vars => IInv'
<1> SUFFICES ASSUME IInv, [Next]_vars PROVE IInv'
  OBVIOUS
<1>1. CASE ServerStep
  BY <1>1, PollKeeps, SendKeeps, ReceiveKeeps, BeginMessageKeeps, UdpDrainedKeeps,
     ProcessRequestKeeps, NextClientKeeps, EndTurnKeeps DEF ServerStep
<1>2. CASE Publish
  BY <1>2, PublishKeeps
<1>3. CASE \E c \in Clients : Subscriber(c) \/ Display(c)
  BY <1>3, SendRequestKeeps, RecvUnitsKeeps, DisplayKeeps DEF Subscriber
<1>4. CASE \E c \in Clients, op \in Requests : Ask(c, op)
  BY <1>4, AskKeeps
<1>5. CASE UNCHANGED vars
  <2>1. UNCHANGED <<pc, ready, subscribed, arrived, matched, targets, i, left, to,
                    frames, down, up, cpc, asked, incoming, shown>>
    BY <1>5 DEF vars
  <2>2. TypeOK' /\ Sending' /\ Matching'
    BY <2>1 DEF IInv, TypeOK, Sending, Matching
  <2>3. BytesConserved' /\ Reading'
    BY <2>1, StreamsStay DEF IInv
  <2> QED BY <2>2, <2>3 DEF IInv
<1> QED BY <1>1, <1>2, <1>3, <1>4, <1>5 DEF Next

LEMMA Invariance == Spec => []IInv
  BY Initial, Inductive, PTL DEF Spec

\* Every variable of the fan-out keeps its type: no sendall() has more than a
\* frame in hand, no buffer more than it holds, and nobody shows a frame that
\* was not begun.
THEOREM FanoutTypes == Spec => []TypeOK
<1>1. IInv => TypeOK
  BY DEF IInv
<1> QED BY <1>1, Invariance, PTL

\* However many subscribers are slow and wherever send() and recv() cut the
\* frames, the bytes of what was begun for a client are in its process, in its
\* buffers, or in the hand of the one sendall() under way (utils.cpp:24-39).
THEOREM BytesAreConserved == Spec => []BytesConserved
<1>1. IInv => BytesConserved
  BY DEF IInv
<1> QED BY <1>1, Invariance, PTL

------------------------------------------------------------------------------
(* How far a subscriber may lag behind the others *)

LEMMA Monotone ==
    ASSUME NEW m \in Nat, NEW u \in Nat, NEW v \in Nat, u <= v
    PROVE  m * u <= m * v
<1>1. PICK e \in Nat : v = u + e
  <2>1. v - u \in Nat
    OBVIOUS
  <2> QED BY <2>1
<1>2. m * v = m * u + m * e
  BY <1>1
<1>3. m * e \in Nat /\ m * u \in Nat
  OBVIOUS
<1> QED BY <1>2, <1>3

\* A buffer of room units holds no more than room \div m frames of m units.
LEMMA RoomBound ==
    ASSUME NEW room \in Nat, NEW m \in Nat, m > 0, NEW u \in Nat, m * u <= room
    PROVE  room \div m \in Nat /\ u <= room \div m
<1>1. room \div m \in Nat /\ room < m * ((room \div m) + 1)
  OBVIOUS
<1>2. PICK q \in Nat : q = room \div m
  BY <1>1
<1>3. m * u < m * (q + 1)
  <2>1. m * u \in Nat /\ m * (q + 1) \in Nat
    OBVIOUS
  <2> QED BY <1>1, <1>2, <2>1
<1>4. ~(q + 1 <= u)
  <2> SUFFICES ASSUME q + 1 <= u PROVE FALSE
    OBVIOUS
  <2>1. m * (q + 1) <= m * u
    BY Monotone
  <2>2. m * u \in Nat /\ m * (q + 1) \in Nat
    OBVIOUS
  <2> QED BY <1>3, <2>1, <2>2
<1> QED BY <1>2, <1>4

\* The same when extra frames more are on the way than the buffer holds.
LEMMA RoomAndMore ==
    ASSUME NEW room \in Nat, NEW m \in Nat, m > 0, NEW u \in Nat, NEW extra \in Nat,
           m * u <= room + m * extra
    PROVE  room \div m \in Nat /\ u <= room \div m + extra
<1>1. CASE u <= extra
  <2>1. room \div m \in Nat
    OBVIOUS
  <2> QED BY <1>1, <2>1
<1>2. CASE ~(u <= extra)
  <2>1. PICK e \in Nat : u = extra + e
    <3>1. u - extra \in Nat
      BY <1>2
    <3> QED BY <3>1
  <2>2. m * u = m * extra + m * e
    BY <2>1
  <2>3. m * e \in Nat /\ m * extra \in Nat
    OBVIOUS
  <2>4. m * e <= room
    BY <2>2, <2>3
  <2>5. room \div m \in Nat /\ e <= room \div m
    BY <2>4, RoomBound
  <2> QED BY <2>1, <2>5
<1> QED BY <1>1, <1>2

\* The datagrams for client d that it has not displayed.
Lagging(d) == {k \in 1..Len(matched) : d \in matched[k] /\ k \notin Displayed(d)}

\* All of them but the one being routed are among its frames.
LEMMA LaggingBegun ==
    ASSUME IInv, NEW d \in Clients
    PROVE  /\ IsFiniteSet(Lagging(d))
           /\ Cardinality(Lagging(d)) \in Nat
           /\ Cardinality(Lagging(d))
                <= Cardinality(UnshownMessages(d)) + IF d \in targets THEN 1 ELSE 0
<1> DEFINE begun == {k \in Lagging(d) : \E j \in 1..Len(frames[d]) : frames[d][j] = k}
           place == [k \in begun |-> CHOOSE j \in 1..Len(frames[d]) : frames[d][j] = k]
           last == Len(matched)
<1>1. last \in Nat
  BY LenProperties DEF IInv, TypeOK
<1>2. IsFiniteSet(UnshownMessages(d)) /\ Cardinality(UnshownMessages(d)) \in Nat
  BY Counts DEF IInv
<1>3. \A k \in begun : place[k] \in 1..Len(frames[d]) /\ frames[d][place[k]] = k
  OBVIOUS
<1>4. \A k \in begun : place[k] \in UnshownMessages(d)
  <2> SUFFICES ASSUME NEW k \in begun PROVE place[k] \in UnshownMessages(d)
    OBVIOUS
  <2>1. PICK j : j = place[k]
    OBVIOUS
  <2>2. /\ j \in 1..Len(frames[d]) /\ frames[d][j] = k
        /\ k \in 1..last /\ k \notin Displayed(d)
    BY <1>3, <2>1 DEF Lagging
  <2> HIDE DEF place, begun, last
  <2>3. k # Ack
    BY <1>1, <2>2 DEF Ack
  <2>4. j \notin 1..shown[d]
    BY <2>2, <2>3 DEF Displayed
  <2>5. j \in Unshown(d)
    BY <2>2, <2>4, ClientTypes DEF Unshown, IInv
  <2> QED BY <2>1, <2>2, <2>3, <2>5 DEF UnshownMessages, UnshownAcks
<1>5. place \in Injection(begun, UnshownMessages(d))
  <2>1. place \in [begun -> UnshownMessages(d)]
    BY <1>4
  <2>2. \A k, l \in begun : place[k] = place[l] => k = l
    BY <1>3
  <2>3. IsInjective(place)
    BY <2>2 DEF IsInjective
  <2> QED BY <2>1, <2>3 DEF Injection
<1> HIDE DEF place
<1>6. IsFiniteSet(begun) /\ Cardinality(begun) <= Cardinality(UnshownMessages(d))
  BY <1>2, <1>5, FS_Injection
<1>7. Cardinality(begun) \in Nat
  BY <1>6, FS_CardinalityType
<1>8. CASE d \in targets
  <2>1. Lagging(d) \subseteq begun \cup {last}
    BY DEF Lagging, IInv, Matching
  <2>2. /\ IsFiniteSet(begun \cup {last})
        /\ Cardinality(begun \cup {last}) \in Nat
        /\ Cardinality(begun \cup {last}) <= Cardinality(begun) + 1
    <3>1. /\ IsFiniteSet(begun \cup {last})
          /\ Cardinality(begun \cup {last})
               = IF last \in begun THEN Cardinality(begun) ELSE Cardinality(begun) + 1
      BY <1>6, FS_AddElement
    <3> HIDE DEF begun, last
    <3> QED BY <1>7, <3>1
  <2>3. /\ IsFiniteSet(Lagging(d))
        /\ Cardinality(Lagging(d)) <= Cardinality(begun \cup {last})
    BY <2>1, <2>2, FS_Subset
  <2>4. Cardinality(Lagging(d)) \in Nat
    BY <2>3, FS_CardinalityType
  <2> HIDE DEF begun, last
  <2> QED BY <1>2, <1>6, <1>7, <1>8, <2>2, <2>3, <2>4
<1>9. CASE d \notin targets
  <2>1. Lagging(d) = begun
    BY <1>9 DEF Lagging, IInv, Matching
  <2> HIDE DEF begun
  <2> QED BY <1>2, <1>6, <1>7, <1>9, <2>1
<1> QED BY <1>8, <1>9

\* The acknowledgements at the ends of what client d has not shown are counted.
LEMMA AcksCounted ==
    ASSUME IInv, NEW d \in Clients, NEW j \in UnshownAcks(d)
    PROVE  /\ AckLen <= AckLen * Cardinality(UnshownAcks(d))
           /\ \A k \in UnshownAcks(d) : k # j => AckLen + AckLen <= AckLen * Cardinality(UnshownAcks(d))
<1> DEFINE v == Cardinality(UnshownAcks(d))
<1>1. IsFiniteSet(UnshownAcks(d)) /\ v \in Nat
  BY Counts DEF IInv
<1>2. IsFiniteSet({j}) /\ Cardinality({j}) = 1
  BY FS_Singleton
<1>3. 1 <= v
  BY <1>1, <1>2, FS_Subset
<1>4. \A k \in UnshownAcks(d) : k # j => 2 <= v
  <2> SUFFICES ASSUME NEW k \in UnshownAcks(d), k # j PROVE 2 <= v
    OBVIOUS
  <2>1. Cardinality({j} \cup {k}) = 1 + 1
    BY <1>2, FS_AddElement
  <2>2. {j} \cup {k} \in SUBSET UnshownAcks(d)
    OBVIOUS
  <2>3. Cardinality({j} \cup {k}) <= v
    BY <1>1, <2>2, FS_Subset
  <2> QED BY <1>1, <2>1, <2>3
<1> HIDE DEF v
<1>5. AckLen * 1 <= AckLen * v /\ (2 <= v => AckLen * 2 <= AckLen * v)
  BY <1>1, <1>3, Sizes, Monotone
<1>6. AckLen * 1 = AckLen /\ AckLen * 2 = AckLen + AckLen
  BY Sizes
<1> QED BY <1>4, <1>5, <1>6 DEF v

\* The datagrams begun for client d and not shown: what its buffers hold, the
\* one it reads or prints and, if sendall() is at work for it, one more.
LEMMA MessagesOnTheWay ==
    ASSUME IInv, NEW d \in Clients
    PROVE  /\ MessageLen * Cardinality(UnshownMessages(d)) <= DownRoom + MessageLen * 2
           /\ d \in targets =>
                 MessageLen * Cardinality(UnshownMessages(d)) <= DownRoom + MessageLen * 1
<1>1. /\ TypeOK /\ BytesConserved /\ Reading /\ Sending
      /\ IsFiniteSet(UnshownMessages(d)) /\ Cardinality(UnshownMessages(d)) \in Nat
      /\ Cardinality(UnshownAcks(d)) \in Nat
  BY Counts DEF IInv
<1>2. /\ shown[d] \in Nat /\ Len(frames[d]) \in Nat /\ shown[d] <= Len(frames[d])
      /\ down[d] \in Nat /\ down[d] <= DownRoom /\ incoming[d] \in Nat /\ left \in Nat
  BY <1>1, ClientTypes
<1>3. /\ MessageLen \in Nat /\ AckLen \in Nat /\ DownRoom \in Nat
      /\ MessageLen * 2 = MessageLen + MessageLen /\ MessageLen * 1 = MessageLen
  BY Sizes
<1>4. PICK acks \in Nat : acks = AckLen * Cardinality(UnshownAcks(d))
  BY <1>1, <1>3
<1>5. PICK messages \in Nat : messages = MessageLen * Cardinality(UnshownMessages(d))
  BY <1>1, <1>3
<1>6. PICK rest \in Nat : rest = IF to = d THEN left ELSE 0
  BY <1>2
<1>7. acks + messages = incoming[d] + down[d] + rest
  BY <1>1, <1>4, <1>5, <1>6, BytesDue DEF Due
<1>8. CASE UnshownMessages(d) = {}
  <2>1. messages = 0
    <3>1. messages = MessageLen * 0
      BY <1>5, <1>8, FS_EmptySet
    <3> QED BY <1>3, <3>1
  <2> QED BY <1>3, <1>5, <2>1
<1>9. CASE UnshownMessages(d) # {}
  <2> DEFINE p == shown[d] + 1
             q == Len(frames[d])
  <2>1. p \in Unshown(d) /\ q \in Unshown(d) /\ shown[d] < Len(frames[d])
    BY <1>2, <1>9 DEF Unshown, UnshownMessages
  <2>2. incoming[d] <= FrameLen(frames[d][p])
    BY <1>1, <2>1 DEF Reading, First
  <2>3. /\ rest <= FrameLen(frames[d][q])
        /\ d \in targets => rest = 0
    BY <1>1, <1>6, FrameSizes DEF Sending
  <2>4. p = q => frames[d][p] # Ack
    <3> SUFFICES ASSUME p = q, frames[d][p] = Ack PROVE FALSE
      OBVIOUS
    <3>1. Unshown(d) = {p}
      BY <1>2 DEF Unshown
    <3> QED BY <1>9, <3>1 DEF UnshownMessages, UnshownAcks
  <2>5. /\ frames[d][p] = Ack => p \in UnshownAcks(d)
        /\ frames[d][q] = Ack => q \in UnshownAcks(d)
    BY <2>1 DEF UnshownAcks
  <2> HIDE DEF p, q
  <2>6. /\ frames[d][p] = Ack => AckLen <= acks
        /\ frames[d][q] = Ack => AckLen <= acks
        /\ frames[d][p] = Ack /\ frames[d][q] = Ack => AckLen + AckLen <= acks
    BY <1>4, <2>4, <2>5, AcksCounted
  <2>7. /\ incoming[d] <= IF frames[d][p] = Ack THEN AckLen ELSE MessageLen
        /\ rest <= IF frames[d][q] = Ack THEN AckLen ELSE MessageLen
    BY <2>2, <2>3 DEF FrameLen
  <2>8. messages <= DownRoom + (MessageLen + MessageLen)
    BY <1>2, <1>3, <1>7, <2>6, <2>7
  <2>9. d \in targets => messages <= DownRoom + MessageLen
    BY <1>2, <1>3, <1>7, <2>3, <2>6, <2>7
  <2> QED BY <1>3, <1>5, <2>8, <2>9
<1> QED BY <1>8, <1>9

LEMMA PaceKept == IInv => OnePace
<1> SUFFICES ASSUME IInv, NEW c \in Clients, NEW d \in Clients, NEW m \in Displayed(c)
             PROVE  Cardinality({k \in 1..m : d \in matched[k] /\ k \notin Displayed(d)})
                      <= DownRoom \div MessageLen + 2
  BY DEF OnePace
<1> DEFINE behind == {k \in 1..m : d \in matched[k] /\ k \notin Displayed(d)}
           u == Cardinality(UnshownMessages(d))
<1>1. Len(matched) \in Nat /\ m \in Nat /\ m <= Len(matched)
  <2>1. Len(matched) \in Nat
    BY LenProperties DEF IInv, TypeOK
  <2>2. PICK j \in 1..shown[c] : m = frames[c][j]
    BY DEF Displayed
  <2>3. j \in 1..Len(frames[c])
    BY ClientTypes DEF IInv
  <2>4. m \in 0..MaxMessages
    BY <2>2, <2>3, ClientTypes DEF IInv
  <2>5. m <= Len(matched)
    BY <2>2, <2>3 DEF IInv, Matching
  <2> QED BY <2>1, <2>4, <2>5, Sizes
<1>2. behind \subseteq Lagging(d)
  BY <1>1 DEF Lagging
<1>3. /\ IsFiniteSet(Lagging(d)) /\ Cardinality(Lagging(d)) \in Nat
      /\ Cardinality(Lagging(d)) <= u + IF d \in targets THEN 1 ELSE 0
  BY LaggingBegun
<1>4. IsFiniteSet(behind) /\ Cardinality(behind) <= Cardinality(Lagging(d))
  BY <1>2, <1>3, FS_Subset
<1>5. Cardinality(behind) \in Nat
  BY <1>4, FS_CardinalityType
<1>6. u \in Nat
  BY Counts DEF IInv
<1>7. CASE d \in targets
  <2>1. DownRoom \div MessageLen \in Nat /\ u <= DownRoom \div MessageLen + 1
    BY <1>6, <1>7, MessagesOnTheWay, RoomAndMore, Sizes
  <2> HIDE DEF behind, u
  <2>2. PICK room \in Nat : room = DownRoom \div MessageLen
    BY <2>1
  <2>3. Cardinality(behind) <= room + 2
    BY <1>3, <1>4, <1>5, <1>6, <1>7, <2>1, <2>2
  <2> QED BY <2>2, <2>3 DEF behind
<1>8. CASE d \notin targets
  <2>1. DownRoom \div MessageLen \in Nat /\ u <= DownRoom \div MessageLen + 2
    BY <1>6, MessagesOnTheWay, RoomAndMore, Sizes
  <2> HIDE DEF behind, u
  <2>2. PICK room \in Nat : room = DownRoom \div MessageLen
    BY <2>1
  <2>3. Cardinality(behind) <= room + 2
    BY <1>3, <1>4, <1>5, <1>6, <1>8, <2>1, <2>2
  <2> QED BY <2>2, <2>3 DEF behind
<1> QED BY <1>7, <1>8

\* The slowest subscriber sets the pace of all: the loop waits in sendall() for
\* whoever's buffers are full, so that nobody displays a datagram while another
\* it was for lags by more than its buffers hold (server.cpp:121-132).
THEOREM SlowestSetsPace == Spec => []OnePace
  BY PaceKept, Invariance, PTL

==============================================================================
