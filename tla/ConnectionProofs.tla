-------------------------- MODULE ConnectionProofs --------------------------
(***************************************************************************)
(* Proofs about Connection, for any sizes of requests, messages and        *)
(* buffers and any bounds: its types, that frames are shown whole and in   *)
(* order, and what becomes of the requests when they arrive in pieces.     *)
(***************************************************************************)
EXTENDS Connection, SequenceTheorems, TLAPS

------------------------------------------------------------------------------
(* Runs of units.  Item i of a stream has the units <<i, first>> up to       *)
(* <<i, last[i]>>, and the next item follows it.                             *)

Unit == Nat \X Nat

After(first, last, u) == IF u[2] < last[u[1]] THEN <<u[1], u[2] + 1>> ELSE <<u[1] + 1, first>>

IsUnit(first, last, u) == u \in Unit /\ u[1] \in DOMAIN last /\ u[2] \in first..last[u[1]]

\* s holds the units of a stream from u on, up to the one before v.  Within an
\* item the place of a unit gives its number.
Run(first, last, u, s, v) ==
    /\ \A k \in 1..Len(s) : IsUnit(first, last, s[k])
    /\ \A j, k \in 1..Len(s) :
          j <= k /\ s[j][2] + (k - j) <= last[s[j][1]] => s[k] = <<s[j][1], s[j][2] + (k - j)>>
    /\ \A k \in 1..Len(s) : k + 1 <= Len(s) => s[k+1] = After(first, last, s[k])
    /\ IF s = <<>> THEN u = v ELSE u = s[1] /\ v = After(first, last, s[Len(s)])

------------------------------------------------------------------------------
(* The inductive invariant *)

\* The unit recvall() is to get next, and the last unit of each frame.
NextUnit == <<Len(shown) + 1, IF cpc = "body" THEN Len(incoming) + 1 ELSE 0>>

Bodies == [f \in 1..Len(frames) |-> BodyLen(frames[f])]

\* What one recv() of the server returned.
Read == [request : BOOLEAN, units : Seq(Unit)]

\* The kinds of pieces, beyond TypeOK.
PieceTypes ==
    /\ frames \in Seq({"message", "ack"})
    /\ shown \in Seq([kind : {"message", "ack"}, body : Seq(Unit)])
    /\ {outgoing, incoming, up, down, reply} \subseteq Seq(Unit)
    /\ reads \in Seq(Read)
    /\ requests \in Nat

\* Where the processes are says which ends are open and what is half done.
Phases ==
    /\ copen <=> cpc # "closed"
    /\ sopen <=> spc # "gone"
    /\ spc = "gone" => reply = <<>>
    /\ cpc # "send" => outgoing = <<>>
    /\ cpc \in {"poll", "stdin", "send", "sock"} => incoming = <<>>
    /\ cpc = "stdin" /\ crev.stdin => buffered < typed

\* In a frame, the subscriber has its header and the first units of its body.
HalfFrame ==
    cpc = "body" =>
        /\ Len(shown) < Len(frames) /\ header = frames[Len(shown) + 1]
        /\ \A k \in 1..Len(incoming) : incoming[k] = <<Len(shown) + 1, k>>

\* What is on its way to the subscriber goes on where recvall() is, and ends
\* where the next frame begins, while the server lives.
FramesOnTheWay ==
    copen => \E mid \in Unit :
        /\ Run(0, Bodies, NextUnit, down, mid)
        /\ sopen => Run(0, Bodies, mid, reply, <<Len(frames) + 1, 0>>)

StreamInv == TypeOK /\ PieceTypes /\ Phases /\ HalfFrame /\ FramesOnTheWay /\ FramesIntact

------------------------------------------------------------------------------
(* Lemmas on runs *)

\* What Take and Drop hold.
LEMMA CutFacts ==
    ASSUME NEW S, NEW s \in Seq(S), NEW n \in 0..Len(s)
    PROVE  /\ Take(s, n) \in Seq(S) /\ Len(Take(s, n)) = n
           /\ \A k \in 1..n : Take(s, n)[k] = s[k]
           /\ Drop(s, n) \in Seq(S) /\ Len(Drop(s, n)) = Len(s) - n
           /\ \A k \in 1..Len(s) - n : Drop(s, n)[k] = s[n + k]
<1>1. Len(s) \in Nat /\ \A k \in 1..Len(s) : s[k] \in S
  BY LenProperties, ElementOfSeq
<1>2. /\ Take(s, n) \in Seq(S) /\ Len(Take(s, n)) = n
      /\ \A k \in 1..n : Take(s, n)[k] = s[k]
  BY <1>1, SubSeqProperties DEF Take
<1>3. /\ Drop(s, n) \in Seq(S) /\ Len(Drop(s, n)) = Len(s) - n
      /\ \A k \in 1..Len(s) - n : Drop(s, n)[k] = s[n + k]
  <2>1. \A k \in n+1..Len(s) : s[k] \in S
    BY <1>1
  <2>2. n+1 \in Int /\ Len(s) \in Int
    BY <1>1
  <2>3. /\ SubSeq(s, n+1, Len(s)) \in Seq(S)
        /\ Len(SubSeq(s, n+1, Len(s))) = IF n+1 <= Len(s) THEN Len(s)-(n+1)+1 ELSE 0
        /\ \A k \in 1..Len(s)-(n+1)+1 : SubSeq(s, n+1, Len(s))[k] = s[(n+1)+k-1]
    BY <2>1, <2>2, SubSeqProperties
  <2>4. Len(s)-(n+1)+1 = Len(s) - n
    BY <1>1
  <2>5. \A k \in 1..Len(s) - n : (n+1)+k-1 = n + k
    BY <1>1
  <2> QED BY <1>1, <2>3, <2>4, <2>5 DEF Drop
<1> QED BY <1>2, <1>3

\* A sequence without elements is the empty one.
LEMMA EmptyByLength ==
    ASSUME NEW S, NEW s \in Seq(S)
    PROVE  Len(s) \in Nat /\ (s = <<>> <=> Len(s) = 0)
  BY EmptySeq, LenProperties

\* Units are pairs.
LEMMA UnitFacts ==
    /\ \A u \in Unit : u = <<u[1], u[2]>> /\ u[1] \in Nat /\ u[2] \in Nat
    /\ \A f, k \in Nat : <<f, k>> \in Unit /\ <<f, k>>[1] = f /\ <<f, k>>[2] = k
  BY DEF Unit

\* The first piece of a run is a run, and what is left goes on from there.
LEMMA RunCut ==
    ASSUME NEW first \in Nat, NEW last, NEW s \in Seq(Unit), NEW n \in 0..Len(s),
           NEW u \in Unit, NEW v \in Unit, Run(first, last, u, s, v)
    PROVE  \E mid \in Unit : /\ Run(first, last, u, Take(s, n), mid)
                             /\ Run(first, last, mid, Drop(s, n), v)
<1> DEFINE t == Take(s, n)
           d == Drop(s, n)
           mid == IF n < Len(s) THEN s[n+1] ELSE v
<1>1. /\ t \in Seq(Unit) /\ Len(t) = n /\ \A k \in 1..n : t[k] = s[k]
      /\ d \in Seq(Unit) /\ Len(d) = Len(s) - n /\ \A k \in 1..Len(s) - n : d[k] = s[n + k]
  BY CutFacts
<1>2. Len(s) \in Nat /\ n \in Nat /\ n <= Len(s)
  BY LenProperties
<1>3. (t = <<>> <=> n = 0) /\ (d = <<>> <=> n = Len(s)) /\ (s = <<>> <=> Len(s) = 0)
  <2> HIDE DEF t, d
  <2> QED BY <1>1, <1>2, EmptyByLength
<1>4. mid \in Unit
  BY <1>2, ElementOfSeq
<1> HIDE DEF t, d
<1>5. Run(first, last, u, t, mid)
  <2> USE DEF Run
  <2>0. \A k \in 1..Len(t) : k \in 1..Len(s) /\ t[k] = s[k]
    BY <1>1, <1>2
  <2>1. \A k \in 1..Len(t) : IsUnit(first, last, t[k])
    BY <2>0
  <2>2. ASSUME NEW j \in 1..Len(t), NEW k \in 1..Len(t),
               j <= k, t[j][2] + (k - j) <= last[t[j][1]]
        PROVE  t[k] = <<t[j][1], t[j][2] + (k - j)>>
    BY <2>0, <2>2
  <2>3. ASSUME NEW k \in 1..Len(t), k + 1 <= Len(t)
        PROVE  t[k+1] = After(first, last, t[k])
    <3>1. k + 1 \in 1..Len(t) /\ k + 1 <= Len(s)
      BY <1>1, <1>2, <2>3
    <3> QED BY <2>0, <3>1
  <2>4. IF t = <<>> THEN u = mid ELSE u = t[1] /\ mid = After(first, last, t[Len(t)])
    BY <1>1, <1>2, <1>3 DEF Run
  <2> QED BY <2>1, <2>2, <2>3, <2>4 DEF Run
<1>6. Run(first, last, mid, d, v)
  <2>1. ASSUME NEW k \in 1..Len(d) PROVE IsUnit(first, last, d[k])
    <3>1. n + k \in 1..Len(s) /\ d[k] = s[n+k]
      BY <1>1, <1>2
    <3> QED BY <3>1 DEF Run
  <2>2. ASSUME NEW j \in 1..Len(d), NEW k \in 1..Len(d),
               j <= k, d[j][2] + (k - j) <= last[d[j][1]]
        PROVE  d[k] = <<d[j][1], d[j][2] + (k - j)>>
    <3>1. d[j] = s[n+j] /\ d[k] = s[n+k] /\ n+j \in 1..Len(s) /\ n+k \in 1..Len(s)
          /\ n+j <= n+k /\ (n+k) - (n+j) = k - j
      BY <1>1, <1>2, <2>2
    <3> QED BY <2>2, <3>1 DEF Run
  <2>3. ASSUME NEW k \in 1..Len(d), k + 1 <= Len(d)
        PROVE  d[k+1] = After(first, last, d[k])
    <3>1. d[k] = s[n+k] /\ d[k+1] = s[(n+k)+1] /\ n+k \in 1..Len(s) /\ (n+k)+1 <= Len(s)
      BY <1>1, <1>2, <2>3
    <3> QED BY <3>1 DEF Run
  <2>4. IF d = <<>> THEN mid = v ELSE mid = d[1] /\ v = After(first, last, d[Len(d)])
    <3>1. CASE d = <<>>
      BY <1>2, <1>3, <3>1
    <3>2. CASE d # <<>>
      <4>0. /\ n < Len(s) /\ 1 \in 1..Len(s) - n /\ Len(d) \in 1..Len(s) - n
            /\ n + Len(d) = Len(s) /\ s # <<>>
        BY <1>1, <1>2, <1>3, <3>2
      <4>1. n < Len(s) /\ d[1] = s[n+1] /\ d[Len(d)] = s[Len(s)] /\ s # <<>>
        BY <1>1, <4>0
      <4> QED BY <3>2, <4>1 DEF Run
    <3> QED BY <3>1, <3>2
  <2> QED BY <2>1, <2>2, <2>3, <2>4 DEF Run
<1> QED BY <1>4, <1>5, <1>6 DEF t, d

\* Two runs of which the second begins where the first ends are one run.
LEMMA RunJoin ==
    ASSUME NEW first \in Nat, NEW last, last \in [DOMAIN last -> Nat],
           NEW s \in Seq(Unit), NEW t \in Seq(Unit),
           NEW u \in Unit, NEW mid \in Unit, NEW v \in Unit,
           Run(first, last, u, s, mid), Run(first, last, mid, t, v)
    PROVE  Run(first, last, u, s \o t, v)
<1> DEFINE w == s \o t
           m == Len(s)
           n == Len(t)
<1>1. m \in Nat /\ n \in Nat /\ (s = <<>> <=> m = 0) /\ (t = <<>> <=> n = 0)
  BY EmptyByLength
<1>2. /\ w \in Seq(Unit) /\ Len(w) = m + n
      /\ \A k \in 1..m : w[k] = s[k]
      /\ \A k \in 1..n : w[m + k] = t[k]
  <2>1. /\ w \in Seq(Unit) /\ Len(w) = m + n
        /\ \A k \in 1..m + n : w[k] = IF k <= m THEN s[k] ELSE t[k - m]
    BY ConcatProperties
  <2>2. \A k \in 1..m : k \in 1..m + n /\ k <= m
    BY <1>1
  <2>3. \A k \in 1..n : m + k \in 1..m + n /\ ~(m + k <= m) /\ (m + k) - m = k
    BY <1>1
  <2> QED BY <2>1, <2>2, <2>3
<1>3. w = <<>> <=> m + n = 0
  BY <1>1, <1>2, EmptyByLength
<1> HIDE DEF w
<1>20. Len(s) = m /\ Len(t) = n
  OBVIOUS
<1> HIDE DEF m, n
<1>4. /\ \A k \in 1..m : IsUnit(first, last, s[k]) /\ s[k] \in Unit /\ last[s[k][1]] \in Nat
                         /\ s[k][1] \in Nat /\ s[k][2] \in Nat
      /\ \A k \in 1..n : IsUnit(first, last, t[k]) /\ t[k] \in Unit /\ last[t[k][1]] \in Nat
                         /\ t[k][1] \in Nat /\ t[k][2] \in Nat
  BY <1>20, UnitFacts DEF Run, IsUnit
<1>5. \A k \in 1..m + n : k \in 1..m \/ \E l \in 1..n : k = m + l
  <2> SUFFICES ASSUME NEW k \in 1..m + n, k \notin 1..m PROVE k - m \in 1..n /\ k = m + (k - m)
    OBVIOUS
  <2> QED BY <1>1
<1>6. \A k \in 1..Len(w) : IsUnit(first, last, w[k])
  BY <1>2, <1>4, <1>5
<1>7. m > 0 /\ n > 0 => t[1] = After(first, last, s[m])
  BY <1>20, <1>1 DEF Run
<1>8. ASSUME NEW j \in 1..Len(w), NEW k \in 1..Len(w),
             j <= k, w[j][2] + (k - j) <= last[w[j][1]]
      PROVE  w[k] = <<w[j][1], w[j][2] + (k - j)>>
  <2>1. CASE k \in 1..m
    <3>1. j \in 1..m
      BY <1>1, <1>8, <2>1
    <3> QED BY <1>20, <1>2, <1>8, <2>1, <3>1 DEF Run
  <2>2. CASE \E l \in 1..n : k = m + l
    <3>1. PICK l \in 1..n : k = m + l
      BY <2>2
    <3>2. CASE j \in 1..m
      \* the last unit of s and the first of t are between them
      <4> DEFINE item == s[j][1]
                 place == s[j][2]
                 end == last[item]
      <4>1. w[j] = s[j] /\ w[k] = t[l]
        BY <1>2, <3>1, <3>2
      <4>2. place \in Nat /\ end \in Nat /\ place + (k - j) <= end /\ s[j] = <<item, place>>
        BY <1>4, <1>8, <3>2, <4>1, UnitFacts
      <4>3. \A i \in 1..m : j <= i /\ place + (i - j) <= end => s[i] = <<item, place + (i - j)>>
        BY <1>20, <3>2 DEF Run
      <4> HIDE DEF item, place, end
      <4>4. /\ m \in 1..m /\ 1 \in 1..n /\ j <= m /\ m > 0 /\ n > 0 /\ 1 <= l /\ l \in Nat
            /\ k = m + l /\ j \in Nat /\ l \in 1..n
        BY <1>1, <3>1, <3>2
      <4>5. /\ place + (m - j) < end
            /\ place + (m - j) + 1 + (l - 1) = place + (k - j)
        <5>1. \A x, y, a, b, c \in Int : x + ((a + b) - c) <= y /\ 1 <= b
                => /\ x + (a - c) < y
                   /\ x + (a - c) + 1 + (b - 1) = x + ((a + b) - c)
          OBVIOUS
        <5>2. place \in Int /\ end \in Int /\ m \in Int /\ l \in Int /\ j \in Int
          BY <1>1, <4>2, <4>4
        <5>3. place + ((m + l) - j) <= end /\ 1 <= l
          BY <4>2, <4>4
        <5> QED BY <4>4, <5>1, <5>2, <5>3
      <4>6. s[m] = <<item, place + (m - j)>>
        <5>1. place + (m - j) <= end
          BY <1>1, <4>2, <4>4, <4>5
        <5> QED BY <4>3, <4>4, <5>1
      <4>7. t[1] = <<item, place + (m - j) + 1>>
        BY <1>7, <4>4, <4>5, <4>6 DEF After, end
      <4>8. t[l] = <<item, place + (m - j) + 1 + (l - 1)>>
        <5>1. t[1][1] = item /\ t[1][2] = place + (m - j) + 1
          BY <4>7
        <5>2. t[1][2] + (l - 1) <= last[t[1][1]]
          BY <4>2, <4>5, <5>1 DEF end
        <5> QED BY <1>20, <4>4, <5>1, <5>2 DEF Run
      <4> QED BY <4>1, <4>2, <4>5, <4>8
    <3>3. CASE \E i \in 1..n : j = m + i
      <4>1. PICK i \in 1..n : j = m + i
        BY <3>3
      <4>2. w[j] = t[i] /\ w[k] = t[l] /\ i <= l /\ k - j = l - i
        BY <1>1, <1>2, <1>8, <3>1, <4>1
      <4> QED BY <1>20, <1>8, <4>2 DEF Run
    <3> QED BY <1>2, <1>5, <3>2, <3>3
  <2> QED BY <1>2, <1>5, <2>1, <2>2
<1>9. ASSUME NEW k \in 1..Len(w), k + 1 <= Len(w)
      PROVE  w[k+1] = After(first, last, w[k])
  <2>1. CASE k < m
    <3>1. k \in 1..m /\ k + 1 \in 1..m /\ k + 1 <= m
      BY <1>1, <1>2, <2>1
    <3> QED BY <1>20, <1>2, <3>1 DEF Run
  <2>2. CASE k = m
    <3>1. m \in 1..m /\ 1 \in 1..n /\ m > 0 /\ n > 0
      BY <1>1, <1>2, <1>9, <2>2
    <3>2. w[k] = s[m] /\ w[k+1] = t[1]
      BY <1>2, <2>2, <3>1
    <3> QED BY <1>7, <3>1, <3>2
  <2>3. CASE k > m
    <3>1. k - m \in 1..n /\ (k - m) + 1 \in 1..n /\ m + (k - m) = k /\ m + ((k - m) + 1) = k + 1
      BY <1>1, <1>2, <1>9, <2>3
    <3>2. w[k] = t[k - m] /\ w[k+1] = t[(k - m) + 1]
      BY <1>2, <3>1
    <3>3. (k - m) + 1 <= n
      BY <3>1, <1>1
    <3> QED BY <1>20, <3>1, <3>2, <3>3 DEF Run
  <2> QED BY <1>1, <2>1, <2>2, <2>3
<1>10. IF w = <<>> THEN u = v ELSE u = w[1] /\ v = After(first, last, w[Len(w)])
  <2>1. CASE m = 0 /\ n = 0
    BY <1>20, <1>1, <1>3, <2>1 DEF Run
  <2>2. CASE m = 0 /\ n > 0
    <3>1. w[1] = t[1] /\ w[Len(w)] = t[n] /\ w # <<>>
      BY <1>1, <1>2, <1>3, <2>2
    <3> QED BY <1>20, <1>1, <2>2, <3>1 DEF Run
  <2>3. CASE m > 0 /\ n = 0
    <3>1. w[1] = s[1] /\ w[Len(w)] = s[m] /\ w # <<>>
      BY <1>1, <1>2, <1>3, <2>3
    <3> QED BY <1>20, <1>1, <2>3, <3>1 DEF Run
  <2>4. CASE m > 0 /\ n > 0
    <3>0. 1 \in 1..m /\ n \in 1..n /\ Len(w) = m + n /\ m + n # 0
      BY <1>1, <1>2, <2>4
    <3>1. w[1] = s[1] /\ w[Len(w)] = t[n] /\ w # <<>>
      BY <1>2, <1>3, <3>0
    <3> QED BY <1>20, <1>1, <2>4, <3>1 DEF Run
  <2> QED BY <1>1, <2>1, <2>2, <2>3, <2>4
<1> QED BY <1>6, <1>8, <1>9, <1>10 DEF Run, w

\* The units of an item are a run from its first one to the next item's.
LEMMA RunItem ==
    ASSUME NEW first \in Nat, NEW last, last \in [DOMAIN last -> Nat], DOMAIN last \subseteq Nat,
           NEW item \in DOMAIN last, first <= last[item],
           NEW s \in Seq(Unit), Len(s) = last[item] - first + 1,
           \A k \in 1..Len(s) : s[k] = <<item, first + k - 1>>
    PROVE  Run(first, last, <<item, first>>, s, <<item + 1, first>>)
<1>1. /\ last[item] \in Nat /\ item \in Nat /\ Len(s) \in Nat /\ Len(s) > 0
      /\ s # <<>>
  BY EmptyByLength
<1>2. \A k \in 1..Len(s) : /\ s[k][1] = item /\ s[k][2] = first + k - 1
                          /\ s[k][2] \in first..last[item]
  BY <1>1
<1>3. \A k \in 1..Len(s) : IsUnit(first, last, s[k])
  BY <1>1, <1>2, ElementOfSeq DEF IsUnit
<1>4. ASSUME NEW j \in 1..Len(s), NEW k \in 1..Len(s)
      PROVE  s[k] = <<s[j][1], s[j][2] + (k - j)>>
  <2>1. s[j][2] + (k - j) = first + k - 1
    BY <1>1, <1>2
  <2> QED BY <1>2, <2>1
<1>5. ASSUME NEW k \in 1..Len(s), k + 1 <= Len(s)
      PROVE  s[k+1] = After(first, last, s[k])
  <2>1. k + 1 \in 1..Len(s) /\ s[k][2] < last[item] /\ first + (k + 1) - 1 = s[k][2] + 1
    BY <1>1, <1>2, <1>5
  <2> QED BY <1>2, <2>1 DEF After
<1>6. s[1] = <<item, first>>
  <2>1. 1 \in 1..Len(s) /\ first + 1 - 1 = first
    BY <1>1
  <2> QED BY <2>1
<1>7. After(first, last, s[Len(s)]) = <<item + 1, first>>
  <2>1. Len(s) \in 1..Len(s) /\ s[Len(s)][2] = last[item]
    BY <1>1, <1>2
  <2> QED BY <1>1, <1>2, <2>1 DEF After
<1> QED BY <1>1, <1>3, <1>4, <1>5, <1>6, <1>7 DEF Run

\* More items do not change what is a run.
LEMMA RunGrows ==
    ASSUME NEW first \in Nat, NEW last, NEW more, NEW u, NEW v, NEW s \in Seq(Unit),
           DOMAIN last \subseteq DOMAIN more, \A item \in DOMAIN last : more[item] = last[item],
           Run(first, last, u, s, v)
    PROVE  Run(first, more, u, s, v)
<1>1. \A k \in 1..Len(s) : /\ IsUnit(first, last, s[k]) /\ IsUnit(first, more, s[k])
                          /\ more[s[k][1]] = last[s[k][1]]
                          /\ After(first, more, s[k]) = After(first, last, s[k])
  BY DEF Run, IsUnit, After
<1>2. s # <<>> => Len(s) \in 1..Len(s)
  BY EmptyByLength
<1>3. ASSUME NEW j \in 1..Len(s), NEW k \in 1..Len(s),
             j <= k, s[j][2] + (k - j) <= more[s[j][1]]
      PROVE  s[k] = <<s[j][1], s[j][2] + (k - j)>>
  BY <1>1, <1>3 DEF Run
<1>4. \A k \in 1..Len(s) : k + 1 <= Len(s) => s[k+1] = After(first, more, s[k])
  BY <1>1 DEF Run
<1>5. IF s = <<>> THEN u = v ELSE u = s[1] /\ v = After(first, more, s[Len(s)])
  BY <1>1, <1>2 DEF Run
<1> QED BY <1>1, <1>3, <1>4, <1>5 DEF Run

\* Up to the end of the item, a run holds the item's units one after the other.
LEMMA RunReads ==
    ASSUME NEW first \in Nat, NEW last, NEW s \in Seq(Unit), NEW u, NEW v,
           Run(first, last, u, s, v),
           NEW n \in 1..Len(s), u[2] + (n - 1) <= last[u[1]]
    PROVE  s[n] = <<u[1], u[2] + (n - 1)>> /\ v = After(first, last, s[Len(s)]) /\ u = s[1]
<1>1. 1 \in 1..Len(s) /\ s # <<>> /\ 1 <= n
  BY EmptyByLength
<1>2. u = s[1] /\ v = After(first, last, s[Len(s)])
  BY <1>1 DEF Run
<1> QED BY <1>1, <1>2 DEF Run

------------------------------------------------------------------------------
(* Sizes and pieces *)

USE DEF subscriber, server

LEMMA Sizes ==
    /\ RequestLen \in Nat /\ RequestLen > 0 /\ MessageLen \in Nat /\ MessageLen > 0
    /\ UpRoom \in Nat /\ DownRoom \in Nat /\ MaxLines \in Nat /\ MaxMessages \in Nat
    /\ \A kind : BodyLen(kind) \in Nat /\ BodyLen(kind) > 0
  BY ConnectionAssumption DEF BodyLen

\* What sendall() is given: a request, or a frame with its header.
LEMMA RequestPiece ==
    ASSUME NEW r \in Nat
    PROVE  /\ RequestUnits(r) \in Seq(Unit) /\ Len(RequestUnits(r)) = RequestLen
           /\ \A k \in 1..RequestLen : RequestUnits(r)[k] = <<r, k>>
<1>1. RequestUnits(r) \in [1..RequestLen -> Unit]
  BY Sizes, UnitFacts DEF RequestUnits
<1> QED BY <1>1, Sizes DEF RequestUnits

LEMMA FramePiece ==
    ASSUME NEW f \in Nat, NEW kind
    PROVE  /\ FrameUnits(f, kind) \in Seq(Unit)
           /\ Len(FrameUnits(f, kind)) = BodyLen(kind) + 1
           /\ \A k \in 1..BodyLen(kind) + 1 : FrameUnits(f, kind)[k] = <<f, k - 1>>
<1> DEFINE n == BodyLen(kind) + 1
<1>1. FrameUnits(f, kind) = [k \in 1..n |-> <<f, k - 1>>]
  <2>1. n = 1 + (IF kind = "message" THEN MessageLen ELSE RequestLen)
    BY Sizes DEF BodyLen
  <2> QED BY <2>1 DEF FrameUnits
<1>2. n \in Nat
  BY Sizes
<1> HIDE DEF n
<1>3. [k \in 1..n |-> <<f, k - 1>>] \in [1..n -> Unit]
  BY <1>2, UnitFacts
<1>4. /\ FrameUnits(f, kind) \in Seq(Unit) /\ Len(FrameUnits(f, kind)) = n
      /\ \A k \in 1..n : FrameUnits(f, kind)[k] = <<f, k - 1>>
  BY <1>1, <1>2, <1>3
<1> QED BY <1>4 DEF n

\* The bodies of the frames.
LEMMA BodiesFacts ==
    ASSUME PieceTypes
    PROVE  /\ Len(frames) \in Nat /\ Bodies \in [1..Len(frames) -> Nat]
           /\ Bodies \in [DOMAIN Bodies -> Nat] /\ DOMAIN Bodies = 1..Len(frames)
           /\ \A f \in 1..Len(frames) : /\ Bodies[f] = BodyLen(frames[f]) /\ Bodies[f] > 0
                                        /\ frames[f] \in {"message", "ack"}
<1>1. frames \in Seq({"message", "ack"})
  BY DEF PieceTypes
<1>2. Len(frames) \in Nat /\ \A f \in 1..Len(frames) : frames[f] \in {"message", "ack"}
  BY <1>1, LenProperties, ElementOfSeq
<1> QED BY <1>2, Sizes DEF Bodies

\* Where recvall() is.
LEMMA NextUnitFacts ==
    ASSUME PieceTypes
    PROVE  /\ Len(shown) \in Nat /\ Len(incoming) \in Nat /\ NextUnit \in Unit
           /\ shown \in Seq([kind : {"message", "ack"}, body : Seq(Unit)])
           /\ incoming \in Seq(Unit) /\ down \in Seq(Unit) /\ reply \in Seq(Unit)
<1>1. Len(shown) \in Nat /\ Len(incoming) \in Nat
  BY LenProperties DEF PieceTypes
<1>2. NextUnit \in Unit
  <2>1. Len(shown) + 1 \in Nat /\ Len(incoming) + 1 \in Nat /\ 0 \in Nat
    BY <1>1
  <2> QED BY <2>1, UnitFacts DEF NextUnit
<1> QED BY <1>1, <1>2 DEF PieceTypes

------------------------------------------------------------------------------
(* Steps that leave the frames alone *)

LEMMA SameFrames ==
    ASSUME StreamInv, UNCHANGED <<header, incoming, shown, down, frames>>,
           cpc' = "body" => cpc = "body",
           copen' => copen /\ (cpc = "body" => cpc' = "body"),
           sopen' => sopen /\ reply' = reply
    PROVE  HalfFrame' /\ FramesOnTheWay' /\ FramesIntact'
<1>1. HalfFrame'
  BY DEF StreamInv, HalfFrame
<1>2. FramesIntact'
  BY DEF StreamInv, FramesIntact
<1>3. FramesOnTheWay'
  <2> SUFFICES ASSUME copen' PROVE FramesOnTheWay'
    BY DEF FramesOnTheWay
  <2>1. NextUnit' = NextUnit /\ Bodies' = Bodies
    BY DEF NextUnit, Bodies
  <2>2. PICK mid \in Unit : /\ Run(0, Bodies, NextUnit, down, mid)
                            /\ sopen => Run(0, Bodies, mid, reply, <<Len(frames) + 1, 0>>)
    BY DEF StreamInv, FramesOnTheWay
  <2> QED BY <2>1, <2>2 DEF FramesOnTheWay
<1> QED BY <1>1, <1>2, <1>3

\* A line is taken only when one is there that the buffer does not hold yet.
LEMMA LineFacts ==
    ASSUME TypeOK, Phases, cpc = "stdin", crev.stdin, GetLine
    PROVE  /\ buffered' \in 0..typed /\ handled' \in 0..buffered'
           /\ requests \in 0..handled' /\ requests + 1 \in 0..handled'
  BY DEF TypeOK, Phases, GetLine

LEMMA SubscriberQuiet ==
    ASSUME StreamInv,
           \/ ClientPoll \/ NoInput \/ RequestLine \/ InvalidLine \/ ExitLine
           \/ SendFails \/ RequestSent \/ NoPacket \/ ServerGone
    PROVE  StreamInv'
<1> USE DEF StreamInv, Close
<1>1. /\ \A r \in Nat : RequestUnits(r) \in Seq(Unit) /\ Len(RequestUnits(r)) = RequestLen
      /\ <<>> \in Seq(Unit) /\ Len(<<>>) = 0 /\ RequestLen \in Nat
  BY RequestPiece, EmptySeq, Sizes
<1>2. TypeOK' /\ PieceTypes' /\ Phases'
  <2>1. CASE ClientPoll
    <3>1. ClientReady \in [stdin : BOOLEAN, sock : BOOLEAN]
      BY DEF ClientReady
    <3> QED BY <2>1, <3>1 DEF TypeOK, PieceTypes, Phases, ClientPoll, ClientReady
  <2>2. CASE NoInput
    BY <2>2 DEF TypeOK, PieceTypes, Phases, NoInput
  <2>3. CASE RequestLine
    BY <1>1, <2>3, LineFacts DEF TypeOK, PieceTypes, Phases, RequestLine
  <2>4. CASE InvalidLine
    BY <2>4, LineFacts DEF TypeOK, PieceTypes, Phases, InvalidLine
  <2>5. CASE ExitLine
    BY <1>1, <2>5, LineFacts DEF TypeOK, PieceTypes, Phases, ExitLine
  <2>6. CASE SendFails
    <3>1. /\ cpc = "send" /\ ~sopen /\ outgoing' = <<>>
          /\ UNCHANGED <<crev, typed, buffered, handled, requests, header, incoming, shown,
                         up, down, sopen, server>>
      BY <2>6 DEF SendFails
    <3>2. \/ cpc' = "sock" /\ copen' = copen
          \/ cpc' = "closed" /\ copen' = FALSE
      BY <2>6 DEF SendFails
    <3>3. cpc' \in {"sock", "closed"} /\ copen' \in BOOLEAN
      BY <3>2 DEF TypeOK
    <3>4. TypeOK'
      BY <1>1, <3>1, <3>3 DEF TypeOK
    <3>5. PieceTypes'
      BY <1>1, <3>1 DEF PieceTypes
    <3>6. Phases'
      BY <3>1, <3>2 DEF Phases
    <3> QED BY <3>4, <3>5, <3>6
  <2>7. CASE RequestSent
    BY <2>7 DEF TypeOK, PieceTypes, Phases, RequestSent
  <2>8. CASE NoPacket
    BY <2>8 DEF TypeOK, PieceTypes, Phases, NoPacket
  <2>9. CASE ServerGone
    BY <1>1, <2>9 DEF TypeOK, PieceTypes, Phases, ServerGone
  <2> QED BY <2>1, <2>2, <2>3, <2>4, <2>5, <2>6, <2>7, <2>8, <2>9
<1>3. /\ UNCHANGED <<header, incoming, shown, down, frames, reply, sopen>>
      /\ cpc' = "body" => cpc = "body"
      /\ copen' => copen /\ (cpc = "body" => cpc' = "body")
  BY DEF Phases, ClientPoll, NoInput, RequestLine, InvalidLine, ExitLine, SendFails, RequestSent,
         NoPacket, ServerGone
<1> QED BY <1>2, <1>3, SameFrames

\* A send() moves the front of what is left into the buffer.
LEMMA SendRequestKeeps == ASSUME StreamInv, SendRequest PROVE StreamInv'
<1>1. outgoing \in Seq(Unit) /\ up \in Seq(Unit) /\ Len(outgoing) \in Nat /\ Len(up) \in Nat
  BY LenProperties DEF StreamInv, PieceTypes
<1>2. PICK n \in 1..Least(Len(outgoing), UpRoom - Len(up)) :
          up' = up \o Take(outgoing, n) /\ outgoing' = Drop(outgoing, n)
  BY DEF SendRequest
<1>3. n \in 0..Len(outgoing) /\ n <= UpRoom - Len(up) /\ Len(outgoing) <= RequestLen
  BY <1>1, <1>2, Sizes DEF Least, StreamInv, TypeOK
<1>4. /\ Take(outgoing, n) \in Seq(Unit) /\ Len(Take(outgoing, n)) = n
      /\ outgoing' \in Seq(Unit) /\ Len(outgoing') = Len(outgoing) - n
  BY <1>1, <1>2, <1>3, CutFacts
<1>5. up' \in Seq(Unit) /\ Len(up') = Len(up) + n
  BY <1>1, <1>2, <1>4, ConcatProperties
<1>6. Len(up') <= UpRoom /\ Len(outgoing') <= RequestLen
  BY <1>1, <1>3, <1>4, <1>5, Sizes
<1>7. TypeOK' /\ PieceTypes' /\ Phases'
  BY <1>4, <1>5, <1>6 DEF SendRequest, StreamInv, TypeOK, PieceTypes, Phases
<1>8. HalfFrame' /\ FramesOnTheWay' /\ FramesIntact'
  BY SameFrames DEF SendRequest
<1> QED BY <1>7, <1>8 DEF StreamInv

LEMMA ServerQuiet ==
    ASSUME StreamInv,
           ServerPoll \/ UdpDrained \/ RecvLess \/ Disconnect \/ ServerEnds \/ TypeLine \/ Publish
    PROVE  StreamInv'
<1> USE DEF StreamInv
<1>1. <<>> \in Seq(Unit) /\ Len(<<>>) = 0 /\ UpRoom \in Nat
  BY EmptySeq, Sizes
<1>2. TypeOK' /\ PieceTypes' /\ Phases'
  <2>1. CASE ServerPoll
    <3>1. [udp |-> udp > 0, sock |-> up # <<>> \/ ~copen] \in [udp : BOOLEAN, sock : BOOLEAN]
      OBVIOUS
    <3> QED BY <2>1, <3>1 DEF TypeOK, PieceTypes, Phases, ServerPoll
  <2>2. CASE UdpDrained
    BY <2>2 DEF TypeOK, PieceTypes, Phases, UdpDrained
  <2>3. CASE RecvLess
    <3>1. reads' \in Seq(Read)
      <4>1. [request |-> FALSE, units |-> up] \in Read
        BY DEF Read, PieceTypes
      <4> QED BY <2>3, <4>1, AppendProperties DEF RecvLess, PieceTypes
    <3>2. /\ spc' = "poll" /\ up' = <<>> /\ reply = <<>> /\ sopen
          /\ UNCHANGED <<subscriber, down, copen, sopen, srev, udp, reply, frames, arrived>>
      BY <2>3 DEF RecvLess, Phases
    <3> QED BY <1>1, <3>1, <3>2 DEF TypeOK, PieceTypes, Phases, subscriber
  <2>4. CASE Disconnect
    BY <2>4 DEF TypeOK, PieceTypes, Phases, Disconnect
  <2>5. CASE ServerEnds
    BY <1>1, <2>5 DEF TypeOK, PieceTypes, Phases, ServerEnds
  <2>6. CASE TypeLine
    BY <2>6, Sizes DEF TypeOK, PieceTypes, Phases, TypeLine
  <2>7. CASE Publish
    BY <2>7, Sizes DEF TypeOK, PieceTypes, Phases, Publish
  <2> QED BY <2>1, <2>2, <2>3, <2>4, <2>5, <2>6, <2>7
<1>3. /\ UNCHANGED <<header, incoming, shown, down, frames, cpc, copen>>
      /\ sopen' => sopen /\ reply' = reply
  BY DEF Phases, ServerPoll, UdpDrained, RecvLess, Disconnect, ServerEnds, TypeLine, Publish
<1> QED BY <1>2, <1>3, SameFrames

------------------------------------------------------------------------------
(* Steps that move frames *)

\* A send() of the server moves the front of the frame into the buffer.
LEMMA SendFrameKeeps == ASSUME StreamInv, SendFrame PROVE StreamInv'
<1> USE DEF StreamInv
<1>1. /\ reply \in Seq(Unit) /\ down \in Seq(Unit) /\ Len(reply) \in Nat /\ Len(down) \in Nat
      /\ <<>> \in Seq(Unit)
  BY LenProperties, EmptySeq DEF PieceTypes
<1>2. /\ UNCHANGED <<cpc, header, incoming, shown, frames, copen, sopen, spc, outgoing>> /\ sopen
      /\ UNCHANGED <<crev, typed, buffered, handled, requests, up, srev, udp, reads, arrived>>
  BY DEF SendFrame
<1>3. CASE copen
  <2>1. PICK n \in 1..Least(Len(reply), DownRoom - Len(down)) :
            down' = down \o Take(reply, n) /\ reply' = Drop(reply, n)
    BY <1>3 DEF SendFrame
  <2>2. n \in 0..Len(reply) /\ n <= DownRoom - Len(down)
    BY <1>1, <2>1, Sizes DEF Least
  <2>3. /\ Take(reply, n) \in Seq(Unit) /\ Len(Take(reply, n)) = n /\ reply' \in Seq(Unit)
    BY <1>1, <2>1, <2>2, CutFacts
  <2>4. down' \in Seq(Unit) /\ Len(down') = Len(down) + n
    BY <1>1, <2>1, <2>3, ConcatProperties
  <2>5. Len(down') <= DownRoom
    BY <1>1, <2>2, <2>4, Sizes
  <2>6. TypeOK' /\ PieceTypes' /\ Phases'
    <3>1. spc # "gone"
      BY <1>2 DEF Phases
    <3> QED BY <1>2, <2>3, <2>4, <2>5, <3>1 DEF TypeOK, PieceTypes, Phases
  <2>7. HalfFrame' /\ FramesIntact'
    BY <1>2 DEF HalfFrame, FramesIntact
  <2>8. FramesOnTheWay'
    <3>1. PICK mid \in Unit : /\ Run(0, Bodies, NextUnit, down, mid)
                              /\ Run(0, Bodies, mid, reply, <<Len(frames) + 1, 0>>)
      BY <1>2, <1>3 DEF FramesOnTheWay
    <3>2. <<Len(frames) + 1, 0>> \in Unit
      BY BodiesFacts, UnitFacts
    <3>3. PICK next \in Unit :
              /\ Run(0, Bodies, mid, Take(reply, n), next)
              /\ Run(0, Bodies, next, Drop(reply, n), <<Len(frames) + 1, 0>>)
      BY <1>1, <2>2, <3>1, <3>2, RunCut
    <3>4. Run(0, Bodies, NextUnit, down', next)
      BY <1>1, <2>1, <2>3, <3>1, <3>3, RunJoin, BodiesFacts, NextUnitFacts
    <3>5. NextUnit' = NextUnit /\ Bodies' = Bodies
      BY <1>2 DEF NextUnit, Bodies
    <3> QED BY <1>2, <2>1, <3>3, <3>4, <3>5 DEF FramesOnTheWay
  <2> QED BY <2>6, <2>7, <2>8
<1>4. CASE ~copen
  <2>1. reply' = <<>> /\ UNCHANGED down
    BY <1>4 DEF SendFrame
  <2>2. TypeOK' /\ PieceTypes' /\ Phases'
    BY <1>1, <1>2, <2>1 DEF TypeOK, PieceTypes, Phases
  <2>3. HalfFrame' /\ FramesIntact'
    BY <1>2 DEF HalfFrame, FramesIntact
  <2>4. FramesOnTheWay'
    BY <1>2, <1>4 DEF FramesOnTheWay
  <2> QED BY <2>2, <2>3, <2>4
<1> QED BY <1>3, <1>4

\* sendall() starts on a frame when it has nothing left of the one before.
LEMMA FrameBegun ==
    ASSUME StreamInv, sopen, reply = <<>>, NEW kind \in {"message", "ack"}, BeginFrame(kind),
           UNCHANGED <<cpc, header, incoming, shown, down, copen, sopen>>
    PROVE  /\ frames' \in Seq({"message", "ack"}) /\ reply' \in Seq(Unit)
           /\ HalfFrame' /\ FramesOnTheWay' /\ FramesIntact'
<1> USE DEF StreamInv
<1> DEFINE n == Len(frames)
<1>1. frames \in Seq({"message", "ack"}) /\ n \in Nat
  BY BodiesFacts DEF PieceTypes
<1>2. /\ frames' \in Seq({"message", "ack"}) /\ Len(frames') = n + 1
      /\ \A f \in 1..n : frames'[f] = frames[f]
      /\ frames'[n + 1] = kind
  BY <1>1, AppendProperties DEF BeginFrame
<1>3. /\ reply' \in Seq(Unit) /\ Len(reply') = BodyLen(kind) + 1
      /\ \A k \in 1..BodyLen(kind) + 1 : reply'[k] = <<n + 1, k - 1>>
  <2>1. reply' = FrameUnits(n + 1, kind) /\ n + 1 \in Nat
    BY <1>1 DEF BeginFrame
  <2> QED BY <2>1, FramePiece
<1> HIDE DEF n
<1>4. FramesIntact'
  <2>1. Len(shown) <= n /\ \A f \in 1..Len(shown) : f \in 1..n
    BY <1>1, NextUnitFacts DEF FramesIntact, n
  <2>2. Len(shown) <= n + 1
    BY <1>1, <2>1, NextUnitFacts
  <2> QED BY <1>2, <2>1, <2>2 DEF FramesIntact
<1>5. HalfFrame'
  <2>1. Len(shown) < n => Len(shown) < n + 1 /\ Len(shown) + 1 \in 1..n
    BY <1>1, NextUnitFacts
  <2> QED BY <1>2, <2>1 DEF HalfFrame, n
<1>6. FramesOnTheWay'
  <2> SUFFICES ASSUME copen PROVE FramesOnTheWay'
    BY DEF FramesOnTheWay
  <2>1. PICK mid \in Unit : /\ Run(0, Bodies, NextUnit, down, mid)
                            /\ Run(0, Bodies, mid, reply, <<n + 1, 0>>)
    BY DEF FramesOnTheWay, n
  <2>2. mid = <<n + 1, 0>>
    BY <2>1 DEF Run
  <2>3. /\ DOMAIN Bodies = 1..n /\ DOMAIN Bodies' = 1..n + 1
        /\ \A f \in 1..n : Bodies'[f] = Bodies[f]
        /\ Bodies'[n + 1] = BodyLen(kind) /\ Bodies' \in [DOMAIN Bodies' -> Nat]
    <3>1. \A f \in 1..n : f \in 1..n + 1
      BY <1>1
    <3>2. n + 1 \in 1..n + 1
      BY <1>1
    <3> QED BY <1>2, <3>1, <3>2, Sizes DEF Bodies, n
  <2>4. Run(0, Bodies', NextUnit, down, mid)
    <3>1. DOMAIN Bodies \subseteq DOMAIN Bodies'
      BY <1>1, <2>3
    <3> QED BY <2>1, <2>3, <3>1, RunGrows, NextUnitFacts
  <2>5. Run(0, Bodies', <<n + 1, 0>>, reply', <<n + 1 + 1, 0>>)
    <3> DEFINE last == Bodies'
               item == n + 1
               s == reply'
    <3>1. last \in [DOMAIN last -> Nat] /\ DOMAIN last \subseteq Nat /\ item \in DOMAIN last
      BY <1>1, <2>3
    <3>2. /\ 0 \in Nat /\ 0 <= last[item] /\ s \in Seq(Unit) /\ Len(s) = last[item] - 0 + 1
          /\ \A k \in 1..Len(s) : s[k] = <<item, 0 + k - 1>>
      <4>1. last[item] = BodyLen(kind) /\ BodyLen(kind) \in Nat
        BY <2>3, Sizes
      <4>2. \A k \in 1..BodyLen(kind) + 1 : 0 + k - 1 = k - 1
        BY <4>1
      <4> QED BY <1>3, <4>1, <4>2
    <3> HIDE DEF last, item, s
    <3>3. Run(0, last, <<item, 0>>, s, <<item + 1, 0>>)
      BY <3>1, <3>2, RunItem
    <3> QED BY <3>3 DEF last, item, s
  <2>6. NextUnit' = NextUnit
    BY DEF NextUnit
  <2> QED BY <1>2, <2>2, <2>1, <2>4, <2>5, <2>6 DEF FramesOnTheWay
<1> QED BY <1>2, <1>3, <1>4, <1>5, <1>6

LEMMA RouteMessageKeeps == ASSUME StreamInv, RouteMessage PROVE StreamInv'
<1>1. sopen /\ reply = <<>> /\ BeginFrame("message")
      /\ UNCHANGED <<cpc, header, incoming, shown, down, copen, sopen>>
  BY DEF RouteMessage, StreamInv, Phases
<1>2. /\ frames' \in Seq({"message", "ack"}) /\ reply' \in Seq(Unit)
      /\ HalfFrame' /\ FramesOnTheWay' /\ FramesIntact'
  BY <1>1, FrameBegun
<1>3. TypeOK' /\ PieceTypes' /\ Phases'
  BY <1>2 DEF RouteMessage, StreamInv, TypeOK, PieceTypes, Phases
<1> QED BY <1>2, <1>3 DEF StreamInv

LEMMA RecvRequestKeeps == ASSUME StreamInv, RecvRequest PROVE StreamInv'
<1> USE DEF StreamInv
<1>1. /\ sopen /\ spc = "tcp" /\ reply = <<>>
      /\ UNCHANGED <<cpc, header, incoming, shown, down, copen, sopen, spc, outgoing>>
      /\ UNCHANGED <<crev, typed, buffered, handled, requests, srev, udp, arrived>>
      /\ reads' = Append(reads, [request |-> TRUE, units |-> Take(up, RequestSize)])
      /\ up' = Drop(up, RequestSize)
      /\ BeginFrame("ack") \/ UNCHANGED <<reply, frames>>
  BY DEF RecvRequest, Phases
<1>2. /\ frames' \in Seq({"message", "ack"}) /\ reply' \in Seq(Unit)
      /\ HalfFrame' /\ FramesOnTheWay' /\ FramesIntact'
  <2>1. CASE BeginFrame("ack")
    BY <1>1, <2>1, FrameBegun
  <2>2. CASE UNCHANGED <<reply, frames>>
    BY <1>1, <2>2, SameFrames DEF PieceTypes
  <2> QED BY <1>1, <2>1, <2>2
<1>3. /\ reads' \in Seq(Read) /\ up' \in Seq(Unit) /\ Len(up') <= UpRoom
  <2>1. up \in Seq(Unit) /\ Len(up) \in Nat /\ RequestSize \in 0..Len(up)
    BY LenProperties, Sizes DEF PieceTypes, RecvRequest, RequestSize
  <2>2. Take(up, RequestSize) \in Seq(Unit) /\ up' \in Seq(Unit) /\ Len(up') = Len(up) - RequestSize
    BY <1>1, <2>1, CutFacts
  <2>3. reads' \in Seq(Read)
    <3>1. [request |-> TRUE, units |-> Take(up, RequestSize)] \in Read
      BY <2>2 DEF Read
    <3> QED BY <1>1, <3>1, AppendProperties DEF PieceTypes
  <2> QED BY <2>1, <2>2, <2>3, Sizes DEF TypeOK
<1>4. TypeOK'
  BY <1>1, <1>3 DEF TypeOK
<1>5. PieceTypes' /\ Phases'
  BY <1>1, <1>2, <1>3 DEF PieceTypes, Phases
<1> QED BY <1>2, <1>4, <1>5

\* The header recvall() gets is the next frame's.
LEMMA RecvHeaderKeeps == ASSUME StreamInv, RecvHeader PROVE StreamInv'
<1> USE DEF StreamInv
<1> DEFINE f == Len(shown) + 1
<1>1. /\ cpc = "sock" /\ down # <<>> /\ down' = Tail(down) /\ copen /\ incoming = <<>>
      /\ UNCHANGED <<incoming, shown, frames, reply, copen, sopen, spc, outgoing, up>>
      /\ UNCHANGED <<crev, typed, buffered, handled, requests, srev, udp, reads, arrived>>
  BY DEF RecvHeader, Phases
<1>2. /\ Len(shown) \in Nat /\ f \in Nat /\ down \in Seq(Unit) /\ reply \in Seq(Unit)
      /\ Len(down) \in Nat /\ Len(down) > 0 /\ Len(incoming) = 0
  BY <1>1, NextUnitFacts, EmptyByLength, EmptySeq
<1>3. PICK mid \in Unit : /\ Run(0, Bodies, NextUnit, down, mid)
                          /\ sopen => Run(0, Bodies, mid, reply, <<Len(frames) + 1, 0>>)
  BY <1>1 DEF FramesOnTheWay
<1>4. /\ Take(down, 1) \in Seq(Unit) /\ Len(Take(down, 1)) = 1 /\ Take(down, 1)[1] = down[1]
      /\ down' = Drop(down, 1) /\ down' \in Seq(Unit) /\ Len(down') = Len(down) - 1
  <2>1. 1 \in 0..Len(down) /\ 1 \in 1..1
    BY <1>2
  <2>2. Tail(down) = SubSeq(down, 2, Len(down))
    BY <1>1, <1>2, TailIsSubSeq
  <2>3. Tail(down) = Drop(down, 1)
    BY <2>2 DEF Drop
  <2>4. /\ Take(down, 1) \in Seq(Unit) /\ Len(Take(down, 1)) = 1
        /\ \A k \in 1..1 : Take(down, 1)[k] = down[k]
        /\ Drop(down, 1) \in Seq(Unit) /\ Len(Drop(down, 1)) = Len(down) - 1
    <3>1. PICK n \in 0..Len(down) : n = 1
      BY <2>1
    <3>2. /\ Take(down, n) \in Seq(Unit) /\ Len(Take(down, n)) = n
          /\ \A k \in 1..n : Take(down, n)[k] = down[k]
          /\ Drop(down, n) \in Seq(Unit) /\ Len(Drop(down, n)) = Len(down) - n
      BY <1>2, CutFacts
    <3> QED BY <3>1, <3>2
  <2> QED BY <1>1, <2>1, <2>3, <2>4
<1>5. PICK next \in Unit : /\ Run(0, Bodies, NextUnit, Take(down, 1), next)
                           /\ Run(0, Bodies, next, down', mid)
  <2>1. 1 \in 0..Len(down)
    BY <1>2
  <2> QED BY <1>2, <1>3, <1>4, <2>1, RunCut, NextUnitFacts
<1>6. Head(down) = <<f, 0>> /\ IsUnit(0, Bodies, Head(down)) /\ next = After(0, Bodies, Head(down))
  <2>1. Take(down, 1) # <<>> /\ 1 \in 1..Len(Take(down, 1))
    BY <1>4, EmptyByLength
  <2>2. NextUnit = Take(down, 1)[1] /\ next = After(0, Bodies, Take(down, 1)[1])
        /\ IsUnit(0, Bodies, Take(down, 1)[1])
    BY <1>4, <1>5, <2>1 DEF Run
  <2>3. NextUnit = <<f, 0>>
    BY <1>1 DEF NextUnit
  <2>4. Head(down) = down[1]
    BY <1>1, <1>2
  <2> QED BY <1>4, <2>2, <2>3, <2>4
<1>7. f \in 1..Len(frames) /\ Bodies[f] = BodyLen(frames[f]) /\ Bodies[f] > 0
      /\ frames[f] \in {"message", "ack"}
  BY <1>6, BodiesFacts DEF IsUnit
<1>8. header' = frames[f] /\ cpc' = "body"
  <2>1. Head(down)[2] = 0 /\ Head(down)[1] = f
    BY <1>6
  <2> QED BY <2>1 DEF RecvHeader
<1>9. next = <<f, 1>>
  <2>1. <<f, 0>>[1] = f /\ <<f, 0>>[2] = 0 /\ 0 + 1 = 1
    OBVIOUS
  <2> QED BY <1>6, <1>7, <2>1 DEF After
<1> HIDE DEF f
<1>10. TypeOK'
  <2>1. BodyLen(header') > 0 /\ Len(incoming') = 0 /\ Len(down') <= DownRoom
    BY <1>1, <1>2, <1>4, Sizes DEF TypeOK
  <2> QED BY <1>1, <1>7, <1>8, <2>1 DEF TypeOK
<1>11. PieceTypes' /\ Phases'
  BY <1>1, <1>4, <1>8 DEF PieceTypes, Phases
<1>12. HalfFrame'
  <2>1. Len(shown) < Len(frames)
    BY <1>2, <1>7, BodiesFacts DEF f
  <2> QED BY <1>1, <1>2, <1>8, <2>1 DEF HalfFrame, f
<1>13. FramesOnTheWay'
  <2>1. NextUnit' = <<f, 1>> /\ Bodies' = Bodies
    <3>1. Len(incoming') + 1 = 1 /\ shown' = shown /\ cpc' = "body"
      BY <1>1, <1>2, <1>8
    <3>2. Bodies' = Bodies
      BY <1>1 DEF Bodies
    <3> QED BY <3>1, <3>2 DEF NextUnit, f
  <2> QED BY <1>1, <1>3, <1>5, <1>9, <2>1 DEF FramesOnTheWay
<1>14. FramesIntact'
  BY <1>1 DEF FramesIntact
<1> QED BY <1>10, <1>11, <1>12, <1>13, <1>14

\* What a recv() of recvall() adds goes on with the body, and the body is
\* complete when the frame's last unit is there.
LEMMA RecvBodyKeeps == ASSUME StreamInv, RecvBody PROVE StreamInv'
<1> USE DEF StreamInv
<1> DEFINE f == Len(shown) + 1
           size == BodyLen(header)
           n == Least(size - Len(incoming), Len(down))
           units == incoming \o Take(down, n)
<1>1. /\ cpc = "body" /\ down # <<>> /\ copen /\ down' = Drop(down, n)
      /\ IF Len(units) = size
            THEN /\ shown' = Append(shown, [kind |-> header, body |-> units])
                 /\ incoming' = <<>> /\ cpc' = "poll"
            ELSE incoming' = units /\ UNCHANGED <<shown, cpc>>
      /\ UNCHANGED <<crev, typed, buffered, handled, requests, outgoing, header, up, copen, sopen>>
      /\ UNCHANGED <<spc, srev, udp, reply, frames, reads, arrived>>
  BY DEF RecvBody, Complete, Phases
<1>2. /\ Len(shown) \in Nat /\ f \in Nat /\ down \in Seq(Unit) /\ reply \in Seq(Unit)
      /\ Len(down) \in Nat /\ Len(down) > 0 /\ incoming \in Seq(Unit) /\ Len(incoming) \in Nat
      /\ shown \in Seq([kind : {"message", "ack"}, body : Seq(Unit)])
  BY <1>1, NextUnitFacts, EmptyByLength
<1>3. /\ f \in 1..Len(frames) /\ header = frames[f] /\ header \in {"message", "ack"}
      /\ Bodies[f] = size /\ size \in Nat /\ Len(frames) \in Nat
      /\ \A k \in 1..Len(incoming) : incoming[k] = <<f, k>>
  <2>1. Len(shown) < Len(frames) /\ header = frames[f]
        /\ \A k \in 1..Len(incoming) : incoming[k] = <<f, k>>
    BY <1>1 DEF HalfFrame
  <2>2. f \in 1..Len(frames)
    BY <1>2, <2>1, BodiesFacts
  <2> QED BY <2>1, <2>2, BodiesFacts, Sizes
<1>4. Len(incoming) < size
  BY DEF TypeOK
<1>5. n \in 1..Len(down) /\ n \in 0..Len(down) /\ n <= size - Len(incoming) /\ n \in Nat
  BY <1>2, <1>3, <1>4 DEF Least
<1> HIDE DEF n
<1>6. /\ Take(down, n) \in Seq(Unit) /\ Len(Take(down, n)) = n
      /\ \A k \in 1..n : Take(down, n)[k] = down[k]
      /\ down' \in Seq(Unit) /\ Len(down') = Len(down) - n
  BY <1>1, <1>2, <1>5, CutFacts
<1>7. PICK mid \in Unit : /\ Run(0, Bodies, NextUnit, down, mid)
                          /\ sopen => Run(0, Bodies, mid, reply, <<Len(frames) + 1, 0>>)
  BY <1>1 DEF FramesOnTheWay
<1>8. PICK next \in Unit : /\ Run(0, Bodies, NextUnit, Take(down, n), next)
                           /\ Run(0, Bodies, next, down', mid)
  BY <1>1, <1>2, <1>5, <1>7, RunCut, NextUnitFacts
<1>9. NextUnit = <<f, Len(incoming) + 1>>
  BY <1>1 DEF NextUnit
<1> HIDE DEF f, size
<1>10. \A k \in 1..n : Take(down, n)[k] = <<f, Len(incoming) + k>>
  <2> SUFFICES ASSUME NEW k \in 1..n PROVE Take(down, n)[k] = <<f, Len(incoming) + k>>
    OBVIOUS
  <2>1. NextUnit[1] = f /\ NextUnit[2] = Len(incoming) + 1
    BY <1>9
  <2>2. NextUnit[2] + (k - 1) = Len(incoming) + k /\ Len(incoming) + k <= size
    <3>1. \A a, b, c, d \in Nat : b >= 1 /\ b <= c /\ c <= d - a => (a + 1) + (b - 1) = a + b /\ a + b <= d
      OBVIOUS
    <3>2. k \in Nat /\ k >= 1 /\ k <= n /\ n \in Nat /\ Len(incoming) \in Nat /\ size \in Nat
          /\ n <= size - Len(incoming)
      BY <1>2, <1>3, <1>5
    <3> QED BY <2>1, <3>1, <3>2
  <2>3. k \in 1..Len(Take(down, n)) /\ NextUnit[2] + (k - 1) <= Bodies[NextUnit[1]]
    BY <1>3, <1>6, <2>1, <2>2
  <2>4. Take(down, n)[k] = <<NextUnit[1], NextUnit[2] + (k - 1)>>
    BY <1>6, <1>8, <2>3, RunReads
  <2> QED BY <2>1, <2>2, <2>4
<1>11. next = After(0, Bodies, <<f, Len(incoming) + n>>)
  <2>1. Take(down, n) # <<>> /\ n \in 1..n
    BY <1>5, <1>6, EmptyByLength
  <2>2. next = After(0, Bodies, Take(down, n)[n])
    BY <1>6, <1>8, <2>1 DEF Run
  <2> QED BY <1>10, <2>1, <2>2
<1>12. /\ units \in Seq(Unit) /\ Len(units) = Len(incoming) + n
       /\ \A k \in 1..Len(units) : units[k] = <<f, k>>
  <2>1. /\ units \in Seq(Unit) /\ Len(units) = Len(incoming) + n
        /\ \A k \in 1..Len(incoming) + n : units[k] =
              IF k <= Len(incoming) THEN incoming[k] ELSE Take(down, n)[k - Len(incoming)]
    BY <1>2, <1>6, ConcatProperties
  <2>2. ASSUME NEW k \in 1..Len(incoming) + n PROVE units[k] = <<f, k>>
    <3>1. CASE k <= Len(incoming)
      BY <1>2, <1>3, <2>1, <3>1
    <3>2. CASE ~(k <= Len(incoming))
      <4>1. k - Len(incoming) \in 1..n /\ Len(incoming) + (k - Len(incoming)) = k
        BY <1>2, <1>5, <3>2
      <4>2. Take(down, n)[k - Len(incoming)] = <<f, k>>
        BY <1>10, <4>1
      <4> QED BY <2>1, <3>2, <4>2
    <3> QED BY <3>1, <3>2
  <2> QED BY <2>1, <2>2
<1> HIDE DEF units
<1>13. Len(down') <= DownRoom
  BY <1>2, <1>5, <1>6, Sizes DEF TypeOK
<1>14. Bodies' = Bodies
  BY <1>1 DEF Bodies
<1>15. CASE Len(units) = size
  <2> DEFINE item == [kind |-> header, body |-> units]
  <2>1. shown' = Append(shown, item) /\ incoming' = <<>> /\ cpc' = "poll"
    BY <1>1, <1>15
  <2>2. item \in [kind : {"message", "ack"}, body : Seq(Unit)]
    BY <1>3, <1>12
  <2>3. item.kind = frames[f] /\ item.body = units
    BY <1>3
  <2> HIDE DEF item
  <2>4. /\ shown' \in Seq([kind : {"message", "ack"}, body : Seq(Unit)])
        /\ Len(shown') = f
        /\ \A k \in 1..Len(shown) : shown'[k] = shown[k]
        /\ shown'[f] = item
    BY <1>2, <2>1, <2>2, AppendProperties DEF f
  <2>5. TypeOK'
    <3>1. Len(incoming') < BodyLen(header')
      BY <1>1, <2>1, Sizes, EmptySeq
    <3> QED BY <1>1, <1>13, <2>1, <3>1 DEF TypeOK
  <2>6. PieceTypes' /\ Phases'
    <3>1. incoming' \in Seq(Unit)
      BY <2>1, EmptySeq
    <3> QED BY <1>1, <1>6, <2>1, <2>4, <3>1 DEF PieceTypes, Phases
  <2>7. HalfFrame'
    BY <2>1 DEF HalfFrame
  <2>8. FramesOnTheWay'
    <3>1. Len(incoming) + n = Bodies[f]
      BY <1>3, <1>12, <1>15
    <3>2. next = <<f + 1, 0>>
      <4>1. <<f, Len(incoming) + n>>[1] = f /\ <<f, Len(incoming) + n>>[2] = Bodies[f]
        BY <3>1
      <4>2. ~(Bodies[f] < Bodies[f])
        BY <1>3
      <4> QED BY <1>11, <4>1, <4>2 DEF After
    <3>3. NextUnit' = <<f + 1, 0>>
      BY <2>1, <2>4 DEF NextUnit
    <3> QED BY <1>1, <1>7, <1>8, <1>14, <3>2, <3>3 DEF FramesOnTheWay
  <2>9. FramesIntact'
    <3>1. item = [kind |-> frames[f], body |-> Tail(FrameUnits(f, frames[f]))]
      <4> DEFINE whole == FrameUnits(f, frames[f])
      <4>1. /\ whole \in Seq(Unit) /\ Len(whole) = size + 1
            /\ \A k \in 1..size + 1 : whole[k] = <<f, k - 1>>
        BY <1>2, <1>3, FramePiece DEF size
      <4> HIDE DEF whole
      <4>2. /\ Tail(whole) \in Seq(Unit) /\ Len(Tail(whole)) = size
            /\ \A k \in 1..size : Tail(whole)[k] = whole[k+1]
        <5>1. whole # <<>> /\ Len(whole) - 1 = size
          BY <1>3, <4>1, EmptyByLength
        <5> QED BY <4>1, <5>1, HeadTailProperties
      <4>3. \A k \in 1..size : Tail(whole)[k] = <<f, k>>
        <5>1. \A k \in 1..size : k + 1 \in 1..size + 1 /\ (k + 1) - 1 = k
          BY <1>3
        <5> QED BY <4>1, <4>2, <5>1
      <4>4. Tail(whole) = units
        BY <1>12, <1>15, <4>2, <4>3, SeqEqual
      <4> QED BY <1>3, <4>4 DEF item, whole
    <3>2. f <= Len(frames)
      BY <1>3
    <3>3. \A k \in 1..f : k \in 1..Len(shown) \/ k = f
      BY <1>2 DEF f
    <3> QED BY <1>1, <2>4, <3>1, <3>2, <3>3 DEF FramesIntact
  <2> QED BY <2>5, <2>6, <2>7, <2>8, <2>9
<1>16. CASE Len(units) # size
  <2>1. incoming' = units /\ UNCHANGED <<shown, cpc>>
    BY <1>1, <1>16
  <2>2. Len(units) < size
    <3>1. Len(units) = Len(incoming) + n /\ Len(units) # size
      BY <1>12, <1>16
    <3>2. Len(incoming) \in Nat /\ n \in Nat /\ size \in Nat /\ n <= size - Len(incoming)
      BY <1>2, <1>3, <1>5
    <3> QED BY <3>1, <3>2
  <2>3. TypeOK'
    BY <1>1, <1>13, <2>1, <2>2 DEF TypeOK, size
  <2>4. PieceTypes' /\ Phases'
    BY <1>1, <1>6, <1>12, <2>1 DEF PieceTypes, Phases
  <2>5. HalfFrame'
    BY <1>1, <1>12, <2>1 DEF HalfFrame, f
  <2>6. FramesOnTheWay'
    <3>1. next = <<f, Len(units) + 1>>
      <4>1. <<f, Len(incoming) + n>>[1] = f /\ <<f, Len(incoming) + n>>[2] = Len(units)
        BY <1>12
      <4> QED BY <1>3, <1>11, <1>12, <2>2, <4>1 DEF After
    <3>2. NextUnit' = <<f, Len(units) + 1>>
      BY <1>1, <2>1 DEF NextUnit, f
    <3> QED BY <1>1, <1>7, <1>8, <1>14, <3>1, <3>2 DEF FramesOnTheWay
  <2>7. FramesIntact'
    BY <1>1, <2>1 DEF FramesIntact
  <2> QED BY <2>3, <2>4, <2>5, <2>6, <2>7
<1> QED BY <1>15, <1>16

------------------------------------------------------------------------------
(* The theorems *)

LEMMA InitHolds == Init => StreamInv
<1> SUFFICES ASSUME Init PROVE StreamInv
  OBVIOUS
<1>1. /\ frames = <<>> /\ shown = <<>> /\ outgoing = <<>> /\ incoming = <<>> /\ up = <<>>
      /\ down = <<>> /\ reply = <<>> /\ reads = <<>> /\ Len(<<>>) = 0
      /\ \A S : <<>> \in Seq(S)
  BY EmptySeq DEF Init
<1>2. TypeOK
  BY <1>1, Sizes DEF Init, TypeOK
<1>3. PieceTypes
  BY <1>1 DEF Init, PieceTypes
<1>4. Phases /\ HalfFrame
  BY DEF Init, Phases, HalfFrame
<1>5. FramesIntact
  BY <1>1 DEF FramesIntact
<1>6. FramesOnTheWay
  <2>1. NextUnit = <<1, 0>> /\ <<Len(frames) + 1, 0>> = <<1, 0>> /\ <<1, 0>> \in Unit
    <3>1. Len(shown) + 1 = 1 /\ Len(frames) + 1 = 1 /\ cpc # "body"
      BY <1>1 DEF Init
    <3>2. <<1, 0>> \in Unit
      BY UnitFacts
    <3> QED BY <3>1, <3>2 DEF NextUnit
  <2>2. Run(0, Bodies, <<1, 0>>, <<>>, <<1, 0>>)
    BY <1>1 DEF Run
  <2> QED BY <1>1, <2>1, <2>2 DEF FramesOnTheWay
<1> QED BY <1>2, <1>3, <1>4, <1>5, <1>6 DEF StreamInv

LEMMA NextKeeps == StreamInv /\ [Next]_vars => StreamInv'
<1> SUFFICES ASSUME StreamInv, [Next]_vars PROVE StreamInv'
  OBVIOUS
<1>1. CASE Next
  BY <1>1, SubscriberQuiet, SendRequestKeeps, ServerQuiet, SendFrameKeeps, RouteMessageKeeps,
     RecvRequestKeeps, RecvHeaderKeeps, RecvBodyKeeps DEF Next, SubscriberStep, ServerStep
<1>2. CASE UNCHANGED vars
  <2>1. TypeOK' /\ PieceTypes' /\ Phases'
    BY <1>2 DEF vars, StreamInv, TypeOK, PieceTypes, Phases
  <2> QED BY <1>2, <2>1, SameFrames DEF vars, StreamInv
<1> QED BY <1>1, <1>2

\* The inductive invariant: what is on its way to the subscriber is always the
\* rest of the frames begun (utils.cpp:24-66, subscriber.cpp:61-111).
THEOREM StreamInvariance == Spec => []StreamInv
BY InitHolds, NextKeeps, PTL DEF Spec

\* The variables of both processes keep their types and no buffer overflows,
\* for requests, messages and buffers of any size.
THEOREM ConnectionTypes == Spec => []TypeOK
<1>1. StreamInv => TypeOK
  BY DEF StreamInv
<1> QED BY StreamInvariance, <1>1, PTL

\* Whatever send() takes and recv() gives at a time, and wherever the stream
\* ends, the frames shown are the frames begun, whole, in order, none skipped
\* (utils.cpp:24-66, subscriber.cpp:61-111, 184-201).
THEOREM FramesStayIntact == Spec => []FramesIntact
<1>1. StreamInv => FramesIntact
  BY DEF StreamInv
<1> QED BY StreamInvariance, <1>1, PTL

------------------------------------------------------------------------------
(* The requests *)

\* Every request ends with the same unit.
RequestEnds == [r \in Nat |-> RequestLen]

\* The unit the server reads next.
Unread == IF reads = <<>> THEN <<1, 1>> ELSE Following(Last(reads[Len(reads)].units))

\* The buffer goes on where the server's recv() is, and sendall() where the
\* buffer ends, up to the request made last.
RequestsOnTheWay ==
    sopen => \E mid \in Unit : /\ Run(1, RequestEnds, Unread, up, mid)
                              /\ Run(1, RequestEnds, mid, outgoing, <<requests + 1, 1>>)

SomethingRead == \A r \in 1..Len(reads) : reads[r].units # <<>>

\* While nothing was thrown away, the server reads next where a request begins.
Aligned == (\A r \in 1..Len(reads) : reads[r].request) => Unread = <<Len(reads) + 1, 1>>

ReadsInv == SomethingRead /\ Aligned /\ ReadsAccountedFor

RequestsInv == StreamInv /\ RequestsOnTheWay /\ ReadsInv

LEMMA RequestEndsFacts ==
    /\ RequestEnds \in [DOMAIN RequestEnds -> Nat] /\ DOMAIN RequestEnds = Nat
    /\ \A r \in Nat : RequestEnds[r] = RequestLen
<1>1. RequestEnds \in [Nat -> Nat]
  BY Sizes DEF RequestEnds
<1> QED BY <1>1 DEF RequestEnds

LEMMA FollowingIsAfter ==
    ASSUME NEW u \in Unit
    PROVE  Following(u) = After(1, RequestEnds, u) /\ Following(u) \in Unit
<1>1. u[1] \in Nat /\ u[2] \in Nat /\ RequestEnds[u[1]] = RequestLen
  BY UnitFacts, RequestEndsFacts
<1>2. u[1] + 1 \in Nat /\ u[2] + 1 \in Nat /\ 1 \in Nat
  BY <1>1
<1>3. /\ Following(u) = IF u[2] < RequestLen THEN <<u[1], u[2] + 1>> ELSE <<u[1] + 1, 1>>
      /\ After(1, RequestEnds, u) =
            IF u[2] < RequestEnds[u[1]] THEN <<u[1], u[2] + 1>> ELSE <<u[1] + 1, 1>>
  BY DEF Following, After
<1>4. <<u[1], u[2] + 1>> \in Unit /\ <<u[1] + 1, 1>> \in Unit
  BY <1>1, <1>2, UnitFacts
<1> QED BY <1>1, <1>3, <1>4

LEMMA RequestFacts ==
    ASSUME StreamInv, SomethingRead
    PROVE  /\ outgoing \in Seq(Unit) /\ up \in Seq(Unit) /\ reads \in Seq(Read)
           /\ Len(outgoing) \in Nat /\ Len(up) \in Nat /\ Len(reads) \in Nat
           /\ requests \in Nat
           /\ \A r \in 1..Len(reads) : reads[r] \in Read
           /\ reads = <<>> <=> Len(reads) = 0
           /\ Unread \in Unit /\ <<requests + 1, 1>> \in Unit
<1>1. /\ outgoing \in Seq(Unit) /\ up \in Seq(Unit) /\ reads \in Seq(Read) /\ requests \in Nat
  BY DEF StreamInv, PieceTypes
<1>2. /\ Len(outgoing) \in Nat /\ Len(up) \in Nat /\ Len(reads) \in Nat
      /\ reads = <<>> <=> Len(reads) = 0
      /\ \A r \in 1..Len(reads) : reads[r] \in Read
  BY <1>1, LenProperties, EmptySeq, ElementOfSeq
<1>3. Unread \in Unit
  <2>1. CASE reads = <<>>
    BY <2>1, UnitFacts DEF Unread
  <2>2. CASE reads # <<>>
    <3> DEFINE units == reads[Len(reads)].units
    <3>1. Len(reads) \in 1..Len(reads)
      BY <1>2, <2>2
    <3>2. units \in Seq(Unit) /\ units # <<>>
      BY <1>2, <3>1 DEF SomethingRead, Read
    <3>3. Len(units) \in 1..Len(units) /\ Last(units) = units[Len(units)]
      BY <3>2, EmptyByLength DEF Last
    <3>4. Last(units) \in Unit
      BY <3>2, <3>3, ElementOfSeq
    <3> QED BY <2>2, <3>4, FollowingIsAfter DEF Unread
  <2> QED BY <2>1, <2>2
<1>4. <<requests + 1, 1>> \in Unit
  <2>1. requests + 1 \in Nat /\ 1 \in Nat
    BY <1>1
  <2> QED BY <2>1, UnitFacts
<1> QED BY <1>1, <1>2, <1>3, <1>4

\* Steps that leave the requests alone, or give up sending when nobody reads.
LEMMA SameRequests ==
    ASSUME RequestsInv, UNCHANGED reads, sopen' => sopen,
           \/ UNCHANGED <<up, outgoing, requests>>
           \/ ~sopen'
    PROVE  RequestsOnTheWay' /\ ReadsInv'
<1>1. Unread' = Unread
  BY DEF Unread
<1>2. ReadsInv'
  BY <1>1 DEF RequestsInv, ReadsInv, SomethingRead, Aligned, ReadsAccountedFor
<1>3. RequestsOnTheWay'
  BY <1>1 DEF RequestsInv, RequestsOnTheWay
<1> QED BY <1>2, <1>3

\* A request is a run from its first unit to the next request.
LEMMA RequestIsRun ==
    ASSUME NEW r \in Nat
    PROVE  Run(1, RequestEnds, <<r, 1>>, RequestUnits(r), <<r + 1, 1>>)
<1> DEFINE s == RequestUnits(r)
<1>1. /\ s \in Seq(Unit) /\ Len(s) = RequestLen /\ \A k \in 1..RequestLen : s[k] = <<r, k>>
  BY RequestPiece
<1> HIDE DEF s
<1>2. /\ Len(s) = RequestEnds[r] - 1 + 1
      /\ \A k \in 1..Len(s) : s[k] = <<r, 1 + k - 1>>
      /\ 1 <= RequestEnds[r] /\ r \in DOMAIN RequestEnds
  <2>1. RequestEnds[r] = RequestLen /\ DOMAIN RequestEnds = Nat
    BY RequestEndsFacts
  <2>2. \A k \in 1..Len(s) : 1 + k - 1 = k
    BY <1>1, Sizes
  <2> QED BY <1>1, <2>1, <2>2, Sizes
<1>3. PICK first \in Nat : first = 1
  OBVIOUS
<1>4. Run(first, RequestEnds, <<r, first>>, s, <<r + 1, first>>)
  BY <1>1, <1>2, <1>3, RequestEndsFacts, RunItem
<1> QED BY <1>3, <1>4 DEF s

\* A new request comes after those made before.
LEMMA RequestLineOrder ==
    ASSUME RequestsInv, RequestLine PROVE RequestsOnTheWay' /\ ReadsInv'
<1>1. /\ outgoing = <<>> /\ requests' = requests + 1 /\ outgoing' = RequestUnits(requests')
      /\ UNCHANGED <<up, reads, sopen>>
  BY DEF RequestsInv, StreamInv, Phases, RequestLine
<1>2. requests \in Nat /\ requests + 1 \in Nat /\ <<requests + 1, 1>> \in Unit
  BY RequestFacts DEF RequestsInv, ReadsInv
<1>3. Unread' = Unread
  BY <1>1 DEF Unread
<1>4. ReadsInv'
  BY <1>1, <1>3 DEF RequestsInv, ReadsInv, SomethingRead, Aligned, ReadsAccountedFor
<1>5. Run(1, RequestEnds, <<requests + 1, 1>>, outgoing', <<requests' + 1, 1>>)
  BY <1>1, <1>2, RequestIsRun
<1>6. ASSUME sopen
      PROVE  Run(1, RequestEnds, Unread, up, <<requests + 1, 1>>)
  <2>1. PICK mid \in Unit : /\ Run(1, RequestEnds, Unread, up, mid)
                            /\ Run(1, RequestEnds, mid, outgoing, <<requests + 1, 1>>)
    BY <1>6 DEF RequestsInv, RequestsOnTheWay
  <2>2. mid = <<requests + 1, 1>>
    BY <1>1, <2>1 DEF Run
  <2> QED BY <2>1, <2>2
<1>7. RequestsOnTheWay'
  BY <1>1, <1>2, <1>3, <1>5, <1>6 DEF RequestsOnTheWay
<1> QED BY <1>4, <1>7

\* One send() moves the front of a request into the buffer.
LEMMA PieceSent ==
    ASSUME RequestsInv, SendRequest PROVE RequestsOnTheWay' /\ ReadsInv'
<1>1. PICK n \in 1..Least(Len(outgoing), UpRoom - Len(up)) :
          up' = up \o Take(outgoing, n) /\ outgoing' = Drop(outgoing, n)
  BY DEF SendRequest
<1>2. sopen /\ UNCHANGED <<reads, requests, sopen>>
  BY DEF SendRequest
<1>3. /\ outgoing \in Seq(Unit) /\ up \in Seq(Unit) /\ Len(outgoing) \in Nat /\ Len(up) \in Nat
      /\ Unread \in Unit /\ <<requests + 1, 1>> \in Unit
  BY RequestFacts DEF RequestsInv, ReadsInv
<1>4. n \in 0..Len(outgoing)
  BY <1>1, <1>3, Sizes DEF Least
<1>5. PICK mid \in Unit : /\ Run(1, RequestEnds, Unread, up, mid)
                          /\ Run(1, RequestEnds, mid, outgoing, <<requests + 1, 1>>)
  BY <1>2 DEF RequestsInv, RequestsOnTheWay
<1>6. PICK first \in Nat : first = 1
  OBVIOUS
<1>7. PICK cut \in Unit : /\ Run(first, RequestEnds, mid, Take(outgoing, n), cut)
                          /\ Run(first, RequestEnds, cut, Drop(outgoing, n), <<requests + 1, 1>>)
  BY <1>3, <1>4, <1>5, <1>6, RunCut
<1>8. Take(outgoing, n) \in Seq(Unit)
  BY <1>3, <1>4, CutFacts
<1>9. Run(first, RequestEnds, Unread, up \o Take(outgoing, n), cut)
  BY <1>3, <1>5, <1>6, <1>7, <1>8, RequestEndsFacts, RunJoin
<1>10. Unread' = Unread
  BY <1>2 DEF Unread
<1>11. RequestsOnTheWay'
  BY <1>1, <1>2, <1>6, <1>7, <1>9, <1>10 DEF RequestsOnTheWay
<1>12. ReadsInv'
  BY <1>2, <1>10 DEF RequestsInv, ReadsInv, SomethingRead, Aligned, ReadsAccountedFor
<1> QED BY <1>11, <1>12

\* A recv() returns the units that come next; taken for a request, while nothing
\* was thrown away before, they are one.
LEMMA ReadOn ==
    ASSUME RequestsInv, NEW piece \in Seq(Unit), piece # <<>>, NEW mid \in Unit,
           Run(1, RequestEnds, Unread, piece, mid),
           NEW request \in BOOLEAN, request => Len(piece) = RequestLen,
           reads' = Append(reads, [request |-> request, units |-> piece])
    PROVE  ReadsInv' /\ Unread' = mid
<1> DEFINE r == Len(reads) + 1
           new == [request |-> request, units |-> piece]
<1>1. /\ reads \in Seq(Read) /\ Len(reads) \in Nat /\ (reads = <<>> <=> Len(reads) = 0)
      /\ Unread \in Unit
  BY RequestFacts DEF RequestsInv, ReadsInv
<1>2. /\ Len(reads') = r /\ r \in Nat /\ reads' # <<>>
      /\ \A q \in 1..Len(reads) : reads'[q] = reads[q]
      /\ reads'[r] = new /\ new.units = piece /\ new.request = request
  <2>1. new \in Read
    BY DEF Read
  <2>2. /\ Len(Append(reads, new)) = Len(reads) + 1
        /\ \A q \in 1..Len(reads) : Append(reads, new)[q] = reads[q]
        /\ Append(reads, new)[Len(reads) + 1] = new
    BY <1>1, <2>1, AppendProperties
  <2>3. reads' # <<>>
    BY <1>1, <2>1
  <2> QED BY <1>1, <2>2, <2>3
<1>3. \A q \in 1..r : q \in 1..Len(reads) \/ q = r
  BY <1>1
<1> HIDE DEF new
<1>4. Len(piece) \in Nat /\ Len(piece) \in 1..Len(piece) /\ Last(piece) = piece[Len(piece)]
  BY EmptyByLength DEF Last
<1>5. \A k \in 1..Len(piece) : piece[k] \in Unit
  BY ElementOfSeq
<1>6. Unread' = mid
  <2>1. mid = After(1, RequestEnds, piece[Len(piece)])
    BY DEF Run
  <2>2. piece[Len(piece)] \in Unit
    BY <1>4, <1>5
  <2>3. Unread' = Following(Last(reads'[Len(reads')].units))
    BY <1>2 DEF Unread
  <2> QED BY <1>2, <1>4, <2>1, <2>2, <2>3, FollowingIsAfter
<1>7. SomethingRead'
  BY <1>2, <1>3 DEF RequestsInv, ReadsInv, SomethingRead
<1>8. ASSUME NEW k \in 1..Len(piece)
      PROVE  piece[k] = IF k > 1 THEN Following(piece[k-1])
                        ELSE IF r > 1 THEN Following(Last(reads'[r-1].units)) ELSE <<1, 1>>
  <2>1. CASE k > 1
    <3>1. k - 1 \in 1..Len(piece) /\ (k - 1) + 1 <= Len(piece) /\ (k - 1) + 1 = k
      BY <1>4, <2>1
    <3>2. piece[(k - 1) + 1] = After(1, RequestEnds, piece[k - 1])
      BY <3>1 DEF Run
    <3> QED BY <1>5, <2>1, <3>1, <3>2, FollowingIsAfter
  <2>2. CASE ~(k > 1)
    <3>1. k = 1 /\ piece[k] = Unread
      BY <1>4, <2>2 DEF Run
    <3>2. Unread = IF r > 1 THEN Following(Last(reads'[r-1].units)) ELSE <<1, 1>>
      <4>1. r - 1 = Len(reads) /\ (r > 1 <=> Len(reads) # 0)
        BY <1>1
      <4>2. Len(reads) # 0 => reads'[Len(reads)] = reads[Len(reads)]
        BY <1>1, <1>2
      <4> HIDE DEF r
      <4> QED BY <1>1, <4>1, <4>2 DEF Unread
    <3> QED BY <2>2, <3>1, <3>2
  <2> QED BY <2>1, <2>2
<1>9. ASSUME \A q \in 1..r : reads'[q].request
      PROVE  piece = RequestUnits(r) /\ mid = <<r + 1, 1>>
  <2>1. \A q \in 1..Len(reads) : reads[q].request
    BY <1>1, <1>2, <1>9
  <2>2. Unread = <<r, 1>> /\ Unread[1] = r /\ Unread[2] = 1
    BY <2>1 DEF RequestsInv, ReadsInv, Aligned
  <2>3. Len(piece) = RequestLen
    BY <1>1, <1>2, <1>9
  <2>4. PICK first \in Nat : first = 1
    OBVIOUS
  <2>5. ASSUME NEW k \in 1..RequestLen PROVE piece[k] = <<r, k>>
    <3>1. k \in 1..Len(piece) /\ 1 + (k - 1) = k /\ k <= RequestLen
      BY <2>3, Sizes
    <3>2. Unread[2] + (k - 1) = k /\ k <= RequestEnds[Unread[1]]
      BY <1>2, <2>2, <3>1, RequestEndsFacts
    <3>3. piece[k] = <<Unread[1], Unread[2] + (k - 1)>>
      BY <2>4, <3>1, <3>2, RunReads
    <3> QED BY <2>2, <3>2, <3>3
  <2>6. piece = RequestUnits(r)
    <3>1. /\ RequestUnits(r) \in Seq(Unit) /\ Len(RequestUnits(r)) = RequestLen
          /\ \A k \in 1..RequestLen : RequestUnits(r)[k] = <<r, k>>
      BY <1>2, RequestPiece
    <3> QED BY <2>3, <2>5, <3>1, SeqEqual
  <2>7. mid = <<r + 1, 1>>
    <3>1. RequestLen \in 1..RequestLen /\ ~(RequestLen < RequestLen)
      BY Sizes
    <3>2. piece[Len(piece)] = <<r, RequestLen>>
      BY <2>3, <2>5, <3>1
    <3>3. mid = After(1, RequestEnds, <<r, RequestLen>>)
      BY <3>2 DEF Run
    <3>4. RequestEnds[r] = RequestLen
      BY <1>2, RequestEndsFacts
    <3>5. <<r, RequestLen>>[1] = r /\ <<r, RequestLen>>[2] = RequestLen
      OBVIOUS
    <3> HIDE DEF r
    <3> QED BY <3>1, <3>3, <3>4, <3>5 DEF After
  <2> QED BY <2>6, <2>7
<1>10. ReadsAccountedFor'
  <2> SUFFICES ASSUME NEW q \in 1..r
               PROVE  /\ \A k \in 1..Len(reads'[q].units) :
                            reads'[q].units[k] =
                               IF k > 1 THEN Following(reads'[q].units[k-1])
                               ELSE IF q > 1 THEN Following(Last(reads'[q-1].units)) ELSE <<1, 1>>
                      /\ (\A p \in 1..q : reads'[p].request) => reads'[q].units = RequestUnits(q)
    BY <1>2 DEF ReadsAccountedFor
  <2>1. CASE q \in 1..Len(reads)
    <3>1. /\ \A p \in 1..q : p \in 1..Len(reads) /\ reads'[p] = reads[p]
          /\ q > 1 => q - 1 \in 1..q
          /\ reads'[q] = reads[q]
      BY <1>1, <1>2, <2>1
    <3>2. q > 1 => reads'[q-1] = reads[q-1]
      BY <3>1
    <3>3. \A k \in 1..Len(reads[q].units) :
             reads[q].units[k] = IF k > 1 THEN Following(reads[q].units[k-1])
                                 ELSE IF q > 1 THEN Following(Last(reads[q-1].units)) ELSE <<1, 1>>
      BY <2>1 DEF RequestsInv, ReadsInv, ReadsAccountedFor
    <3>4. (\A p \in 1..q : reads[p].request) => reads[q].units = RequestUnits(q)
      BY <2>1 DEF RequestsInv, ReadsInv, ReadsAccountedFor
    <3> QED BY <3>1, <3>2, <3>3, <3>4
  <2>2. CASE q = r
    BY <1>2, <1>8, <1>9, <2>2
  <2> QED BY <1>3, <2>1, <2>2
<1>11. Aligned'
  BY <1>2, <1>6, <1>9 DEF Aligned
<1> QED BY <1>6, <1>7, <1>10, <1>11 DEF ReadsInv

\* A whole request's length is taken from the buffer.
LEMMA RequestRead ==
    ASSUME RequestsInv, RecvRequest PROVE RequestsOnTheWay' /\ ReadsInv'
<1> DEFINE piece == Take(up, RequestLen)
           rest == Drop(up, RequestLen)
<1>1. /\ Len(up) >= RequestLen /\ up' = rest
      /\ reads' = Append(reads, [request |-> TRUE, units |-> piece])
      /\ UNCHANGED <<outgoing, requests, sopen>>
  BY DEF RecvRequest, RequestSize
<1>2. up \in Seq(Unit) /\ Len(up) \in Nat /\ Unread \in Unit
  BY RequestFacts DEF RequestsInv, ReadsInv
<1>3. sopen
  BY DEF RequestsInv, StreamInv, Phases, RecvRequest
<1>4. PICK mid \in Unit : /\ Run(1, RequestEnds, Unread, up, mid)
                          /\ Run(1, RequestEnds, mid, outgoing, <<requests + 1, 1>>)
  BY <1>3 DEF RequestsInv, RequestsOnTheWay
<1>5. RequestLen \in 0..Len(up) /\ RequestLen > 0
  BY <1>1, <1>2, Sizes
<1>6. PICK cut \in Unit : /\ Run(1, RequestEnds, Unread, piece, cut)
                          /\ Run(1, RequestEnds, cut, rest, mid)
  <2>1. PICK first \in Nat : first = 1
    OBVIOUS
  <2>2. \E cut \in Unit : /\ Run(first, RequestEnds, Unread, piece, cut)
                          /\ Run(first, RequestEnds, cut, rest, mid)
    BY <1>2, <1>4, <1>5, <2>1, RunCut
  <2> QED BY <2>1, <2>2
<1>7. piece \in Seq(Unit) /\ Len(piece) = RequestLen
  BY <1>2, <1>5, CutFacts
<1> HIDE DEF piece, rest
<1>8. piece # <<>>
  BY <1>5, <1>7, EmptyByLength
<1>9. PICK request \in BOOLEAN : request = TRUE
  OBVIOUS
<1>10. ReadsInv' /\ Unread' = cut
  BY <1>1, <1>6, <1>7, <1>8, <1>9, ReadOn
<1>11. RequestsOnTheWay'
  BY <1>1, <1>4, <1>6, <1>10 DEF RequestsOnTheWay
<1> QED BY <1>10, <1>11

\* Less is taken and thrown away.
LEMMA PartThrownAway ==
    ASSUME RequestsInv, RecvLess PROVE RequestsOnTheWay' /\ ReadsInv'
<1>1. /\ up' = <<>> /\ UNCHANGED <<outgoing, requests, sopen>>
      /\ reads' = IF up = <<>> THEN reads ELSE Append(reads, [request |-> FALSE, units |-> up])
  BY DEF RecvLess
<1>2. up \in Seq(Unit) /\ Unread \in Unit
  BY RequestFacts DEF RequestsInv, ReadsInv
<1>3. sopen
  BY DEF RequestsInv, StreamInv, Phases, RecvLess
<1>4. PICK mid \in Unit : /\ Run(1, RequestEnds, Unread, up, mid)
                          /\ Run(1, RequestEnds, mid, outgoing, <<requests + 1, 1>>)
  BY <1>3 DEF RequestsInv, RequestsOnTheWay
<1>5. CASE up = <<>>
  BY <1>1, <1>5, SameRequests
<1>6. CASE up # <<>>
  <2>1. PICK request \in BOOLEAN : request = FALSE
    OBVIOUS
  <2>2. ReadsInv' /\ Unread' = mid
    BY <1>1, <1>2, <1>4, <1>6, <2>1, ReadOn
  <2>3. Run(1, RequestEnds, mid, <<>>, mid)
    <3>1. <<>> \in Seq(Unit) /\ Len(<<>>) = 0
      BY EmptySeq
    <3> QED BY <3>1 DEF Run
  <2>4. RequestsOnTheWay'
    BY <1>1, <1>4, <2>2, <2>3 DEF RequestsOnTheWay
  <2> QED BY <2>2, <2>4
<1> QED BY <1>5, <1>6

LEMMA RequestsKeep == RequestsInv /\ [Next]_vars => RequestsInv'
<1> SUFFICES ASSUME RequestsInv, [Next]_vars PROVE RequestsInv'
  OBVIOUS
<1>1. StreamInv'
  BY NextKeeps DEF RequestsInv
<1>2. RequestsOnTheWay' /\ ReadsInv'
  <2>1. CASE RequestLine \/ SendRequest \/ RecvRequest \/ RecvLess
    BY <2>1, RequestLineOrder, PieceSent, RequestRead, PartThrownAway
  <2>2. CASE \/ ClientPoll \/ NoInput \/ InvalidLine \/ RequestSent \/ NoPacket \/ RecvHeader
             \/ RecvBody \/ ServerPoll \/ RouteMessage \/ UdpDrained \/ SendFrame \/ Disconnect
             \/ ServerEnds \/ TypeLine \/ Publish \/ UNCHANGED vars
    <3>1. UNCHANGED <<up, reads, outgoing, requests>> /\ (sopen' => sopen)
      BY <2>2 DEF ClientPoll, NoInput, InvalidLine, RequestSent, NoPacket, RecvHeader, RecvBody,
                  ServerPoll, RouteMessage, UdpDrained, SendFrame, Disconnect, ServerEnds,
                  TypeLine, Publish, vars, subscriber, server
    <3> QED BY <3>1, SameRequests
  <2>3. CASE ExitLine
    <3>1. UNCHANGED <<up, reads, outgoing, requests, sopen>>
      BY <2>3 DEF ExitLine, Close, RequestsInv, StreamInv, Phases, server
    <3> QED BY <3>1, SameRequests
  <2>4. CASE SendFails \/ ServerGone
    <3>1. UNCHANGED <<reads, sopen>> /\ ~sopen
      BY <2>4 DEF SendFails, ServerGone, server
    <3> QED BY <3>1, SameRequests
  <2> QED BY <2>1, <2>2, <2>3, <2>4 DEF Next, SubscriberStep, ServerStep
<1> QED BY <1>1, <1>2 DEF RequestsInv

\* However the requests are cut on their way, the server's recv()s return every
\* byte the subscriber sends, once and in order; and as long as none returned
\* less than a request, each returned the next request, whole
\* (subscriber.cpp:23-59, server.cpp:221-240).
THEOREM EveryByteIsRead == Spec => []ReadsAccountedFor
<1>1. Init => RequestsInv
  <2> SUFFICES ASSUME Init PROVE RequestsInv
    OBVIOUS
  <2>1. StreamInv
    BY InitHolds
  <2>2. /\ up = <<>> /\ outgoing = <<>> /\ requests = 0 /\ reads = <<>> /\ Len(reads) = 0
        /\ Len(up) = 0 /\ Len(outgoing) = 0
    BY EmptySeq DEF Init
  <2>3. Unread = <<1, 1>> /\ <<requests + 1, 1>> = <<1, 1>> /\ <<1, 1>> \in Unit
    BY <2>2, UnitFacts DEF Unread
  <2>4. RequestsOnTheWay
    BY <2>2, <2>3 DEF RequestsOnTheWay, Run
  <2>5. ReadsInv
    BY <2>2, <2>3 DEF ReadsInv, SomethingRead, Aligned, ReadsAccountedFor
  <2> QED BY <2>1, <2>4, <2>5 DEF RequestsInv
<1>2. RequestsInv => ReadsAccountedFor
  BY DEF RequestsInv, ReadsInv
<1> QED BY <1>1, <1>2, RequestsKeep, PTL DEF Spec

==============================================================================
