------------------------- MODULE TrieRecursionProofs -------------------------
(***************************************************************************)
(* Proofs about TrieRecursion, for any patterns, clients and topics: the   *)
(* recursions of TopicTrie.cpp compute what TrieOps states, and what they  *)
(* find is what the README says.                                           *)
(*                                                                         *)
(* Each recursion is an equation that a function f satisfies.  A function  *)
(* that satisfies it is shown, and that there is no other: two solutions   *)
(* agree where the recursion is the shallowest among those where they do   *)
(* not, which is nowhere.                                                  *)
(***************************************************************************)
EXTENDS TrieRecursion, TopicTrieProofs, WellFoundedInduction

\* Among numbers there is a least one.
LEMMA Least ==
    ASSUME NEW S, S \subseteq Nat, S # {}
    PROVE  \E m \in S : \A n \in S : m <= n
<1> DEFINE Less == {p \in Nat \X Nat : p[1] < p[2]}
<1>1. IsWellFoundedOn(Less, Nat)
  BY NatLessThanWellFounded DEF OpToRel
<1>2. PICK m \in S : \A n \in S : ~(<<n, m>> \in Less)
  <2> HIDE DEF Less
  <2> QED BY <1>1, WFMin
<1>3. \A n \in S : ~(n < m)
  BY <1>2
<1> QED BY <1>3

------------------------------------------------------------------------------
(* Walks over a topic *)

\* What token k of the path makes of the index: "*" goes on from any later
\* index, "+" and an equal token from the next one.
Step(path, tokens, index, k) ==
    \/ path[k] = "*" /\ index[k-1] <= index[k]
    \/ /\ index[k] = index[k-1] + 1
       /\ path[k] \in {"+", tokens[index[k]]}

\* The rest of the path after i tokens consumes the rest of the topic after j.
Way(i, j, path, tokens) ==
    \E index \in [i..Len(path) -> 0..Len(tokens)] :
        /\ index[i] = j
        /\ index[Len(path)] = Len(tokens)
        /\ \A k \in (i+1)..Len(path) : Step(path, tokens, index, k)

LEMMA ReachesIsWay ==
    ASSUME NEW path, NEW tokens
    PROVE  Reaches(path, tokens) <=> Way(0, 0, path, tokens)
  BY DEF Reaches, Way, Step

\* The first step of a way.
LEMMA WayUnfolds ==
    ASSUME NEW path \in Tokens, NEW tokens \in Tokens,
           NEW i \in 0..Len(path), NEW j \in 0..Len(tokens)
    PROVE  /\ i = Len(path) => (Way(i, j, path, tokens) <=> j = Len(tokens))
           /\ i < Len(path) =>
                (Way(i, j, path, tokens) <=>
                    \/ path[i+1] = "*" /\ \E l \in j..Len(tokens) : Way(i+1, l, path, tokens)
                    \/ /\ j < Len(tokens) /\ path[i+1] \in {"+", tokens[j+1]}
                       /\ Way(i+1, j+1, path, tokens))
<1> DEFINE m == Len(path)
           n == Len(tokens)
<1>1. m \in Nat /\ n \in Nat /\ i \in Nat /\ j \in Nat
  BY LenProperties DEF Tokens
<1>2. ASSUME i = m PROVE Way(i, j, path, tokens) <=> j = n
  <2>1. ASSUME j = n PROVE Way(i, j, path, tokens)
    <3> DEFINE index == [k \in i..m |-> n]
    <3>1. index \in [i..m -> 0..n] /\ index[i] = j /\ index[m] = n
      BY <1>1, <1>2, <2>1
    <3>2. (i+1)..m = {}
      BY <1>1, <1>2
    <3> HIDE DEF index
    <3> QED BY <3>1, <3>2 DEF Way
  <2>2. ASSUME Way(i, j, path, tokens) PROVE j = n
    BY <1>2, <2>2 DEF Way
  <2> QED BY <2>1, <2>2
<1>3. ASSUME i < m, Way(i, j, path, tokens)
      PROVE  \/ path[i+1] = "*" /\ \E l \in j..n : Way(i+1, l, path, tokens)
             \/ /\ j < n /\ path[i+1] \in {"+", tokens[j+1]}
                /\ Way(i+1, j+1, path, tokens)
  <2>1. PICK index \in [i..m -> 0..n] :
            /\ index[i] = j /\ index[m] = n
            /\ \A k \in (i+1)..m : Step(path, tokens, index, k)
    BY <1>3 DEF Way
  <2> DEFINE rest == [k \in (i+1)..m |-> index[k]]
             l == index[i+1]
  <2>2. l \in 0..n
    BY <1>1, <1>3
  <2>3. rest \in [(i+1)..m -> 0..n] /\ rest[i+1] = l /\ rest[m] = n
    BY <1>1, <1>3, <2>1
  <2>4. \A k \in ((i+1)+1)..m : Step(path, tokens, rest, k)
    <3> SUFFICES ASSUME NEW k \in ((i+1)+1)..m PROVE Step(path, tokens, rest, k)
      OBVIOUS
    <3>1. rest[k] = index[k] /\ rest[k-1] = index[k-1] /\ Step(path, tokens, index, k)
      BY <1>1, <2>1
    <3> QED BY <3>1 DEF Step
  <2>5. Way(i+1, l, path, tokens)
    <3> HIDE DEF rest, l
    <3> QED BY <2>3, <2>4 DEF Way
  <2>6. Step(path, tokens, index, i+1) /\ (i+1)-1 = i
    BY <1>1, <1>3, <2>1
  <2>7. \/ path[i+1] = "*" /\ j <= l
        \/ l = j + 1 /\ path[i+1] \in {"+", tokens[l]}
    BY <2>1, <2>6 DEF Step
  <2> HIDE DEF l
  <2> QED BY <1>1, <2>2, <2>5, <2>7
<1>4. ASSUME i < m, NEW l \in j..n, Way(i+1, l, path, tokens),
             \/ path[i+1] = "*"
             \/ l = j + 1 /\ path[i+1] \in {"+", tokens[l]}
      PROVE  Way(i, j, path, tokens)
  <2>1. PICK rest \in [(i+1)..m -> 0..n] :
            /\ rest[i+1] = l /\ rest[m] = n
            /\ \A k \in ((i+1)+1)..m : Step(path, tokens, rest, k)
    BY <1>4 DEF Way
  <2> DEFINE index == [k \in i..m |-> IF k = i THEN j ELSE rest[k]]
  <2>2. index \in [i..m -> 0..n] /\ index[i] = j /\ index[m] = n /\ index[i+1] = l
    BY <1>1, <1>4, <2>1
  <2>3. \A k \in (i+1)..m : Step(path, tokens, index, k)
    <3> SUFFICES ASSUME NEW k \in (i+1)..m PROVE Step(path, tokens, index, k)
      OBVIOUS
    <3>1. CASE k = i + 1
      <4>1. index[k] = l /\ index[k-1] = j /\ path[k] = path[i+1] /\ j <= l
        BY <1>1, <1>4, <2>2, <3>1
      <4> HIDE DEF index
      <4> QED BY <1>4, <4>1 DEF Step
    <3>2. CASE k # i + 1
      <4>1. k \in ((i+1)+1)..m /\ index[k] = rest[k] /\ index[k-1] = rest[k-1]
        BY <1>1, <3>2
      <4> QED BY <2>1, <4>1 DEF Step
    <3> QED BY <3>1, <3>2
  <2> HIDE DEF index
  <2> QED BY <2>2, <2>3 DEF Way
<1>5. ASSUME i < m, j < n, path[i+1] \in {"+", tokens[j+1]}, Way(i+1, j+1, path, tokens)
      PROVE  Way(i, j, path, tokens)
  <2>1. j + 1 \in j..n
    BY <1>1, <1>5
  <2> QED BY <1>4, <1>5, <2>1
<1> QED BY <1>2, <1>3, <1>4, <1>5

------------------------------------------------------------------------------
(* find_subscribers *)

\* What a token is, left unexpanded.
Fields == STRING

LEMMA TokensOfFields == Tokens = Seq(Fields)
  BY DEF Tokens, Fields

\* The way from a node to one below it begins with a child.
LEMMA NextNode ==
    ASSUME NEW node \in Tokens, NEW below \in Tokens
    PROVE  /\ IsPrefix(node, below) /\ node # below =>
                /\ Len(node) < Len(below) /\ below[Len(node)+1] \in Fields
                /\ Append(node, below[Len(node)+1]) \in Tokens
                /\ IsPrefix(Append(node, below[Len(node)+1]), below)
           /\ \A token \in Fields :
                /\ Append(node, token) \in Tokens
                /\ Len(Append(node, token)) = Len(node) + 1
                /\ IsPrefix(node, Append(node, token))
                /\ IsPrefix(Append(node, token), below) =>
                      /\ IsPrefix(node, below) /\ Len(node) < Len(below)
                      /\ below[Len(node)+1] = token
           /\ IsPrefix(node, below) /\ Len(node) = Len(below) => node = below
<1>1. Len(node) \in Nat /\ Len(below) \in Nat
  BY LenProperties DEF Tokens
<1>2. \A s, u \in Tokens : IsPrefix(s, u) <=> Len(s) <= Len(u) /\ \A k \in 1..Len(s) : s[k] = u[k]
  BY PrefixByTokens
<1>3. ASSUME NEW token \in Fields
      PROVE  \E child \in Tokens :
                /\ child = Append(node, token) /\ Len(child) = Len(node) + 1
                /\ child[Len(node) + 1] = token
                /\ \A k \in 1..Len(node) : child[k] = node[k]
  <2>1. node \in Seq(Fields)
    BY TokensOfFields
  <2>2. /\ Append(node, token) \in Seq(Fields) /\ Len(Append(node, token)) = Len(node) + 1
        /\ Append(node, token)[Len(node) + 1] = token
        /\ \A k \in 1..Len(node) : Append(node, token)[k] = node[k]
    BY <2>1, AppendProperties
  <2> QED BY <2>2, TokensOfFields
<1>4. \A k \in 1..Len(below) : below[k] \in Fields
  BY ElementOfSeq, TokensOfFields
<1>5. ASSUME IsPrefix(node, below), Len(node) = Len(below) PROVE node = below
  BY <1>1, <1>2, <1>5, SeqEqual DEF Tokens
<1>6. ASSUME IsPrefix(node, below), node # below
      PROVE  /\ Len(node) < Len(below) /\ below[Len(node)+1] \in Fields
             /\ Append(node, below[Len(node)+1]) \in Tokens
             /\ IsPrefix(Append(node, below[Len(node)+1]), below)
  <2>1. Len(node) < Len(below) /\ \A k \in 1..Len(node) : node[k] = below[k]
    BY <1>1, <1>2, <1>5, <1>6
  <2>2. PICK token \in Fields : token = below[Len(node)+1]
    <3>1. Len(node)+1 \in 1..Len(below)
      BY <1>1, <2>1
    <3> QED BY <1>4, <3>1
  <2>3. PICK child \in Tokens :
            /\ child = Append(node, token) /\ Len(child) = Len(node) + 1
            /\ child[Len(node) + 1] = token
            /\ \A k \in 1..Len(node) : child[k] = node[k]
    BY <1>3
  <2>4. Len(child) <= Len(below) /\ \A k \in 1..Len(child) : child[k] = below[k]
    BY <1>1, <2>1, <2>2, <2>3
  <2>5. IsPrefix(child, below)
    BY <1>2, <2>4
  <2> QED BY <2>1, <2>2, <2>3, <2>5
<1>7. ASSUME NEW token \in Fields
      PROVE  /\ Append(node, token) \in Tokens /\ Len(Append(node, token)) = Len(node) + 1
             /\ IsPrefix(node, Append(node, token))
             /\ IsPrefix(Append(node, token), below) =>
                   /\ IsPrefix(node, below) /\ Len(node) < Len(below)
                   /\ below[Len(node)+1] = token
  <2>1. PICK child \in Tokens :
            /\ child = Append(node, token) /\ Len(child) = Len(node) + 1
            /\ child[Len(node) + 1] = token
            /\ \A k \in 1..Len(node) : child[k] = node[k]
    BY <1>3
  <2>2. IsPrefix(node, child)
    <3>1. Len(node) <= Len(child) /\ \A k \in 1..Len(node) : node[k] = child[k]
      BY <1>1, <2>1
    <3> QED BY <2>1, <3>1, PrefixByTokens
  <2>3. ASSUME IsPrefix(child, below)
        PROVE  Len(node) < Len(below) /\ below[Len(node)+1] = token /\ IsPrefix(node, below)
    <3>1. Len(node) + 1 <= Len(below) /\ \A k \in 1..(Len(node) + 1) : child[k] = below[k]
      BY <1>2, <2>1, <2>3
    <3>2. IsPrefix(node, below)
      BY <2>1, <2>2, <2>3, PrefixOrder
    <3>3. Len(node) + 1 \in 1..(Len(node) + 1)
      BY <1>1
    <3> QED BY <1>1, <2>1, <3>1, <3>2, <3>3
  <2> QED BY <2>1, <2>2, <2>3
<1> QED BY <1>5, <1>6, <1>7

\* The nodes collected from a node on are those at or below it with a way
\* through the rest of the topic.
FoundFrom(t, tokens, node, index) ==
    {n \in DOMAIN t : IsPrefix(node, n) /\ Way(Len(node), index, n, tokens)}

Found(t, tokens) ==
    [call \in (DOMAIN t) \X (0..Len(tokens)) |->
        UNION {t[n] : n \in FoundFrom(t, tokens, call[1], call[2])}]

\* A tree of tokens, with its root and without gaps.
Tree(t) ==
    /\ DOMAIN t \subseteq Tokens /\ <<>> \in DOMAIN t
    /\ \A node \in DOMAIN t : \A p \in Tokens : IsPrefix(p, node) => p \in DOMAIN t

\* A node is found from here if it is this one with the topic at its end, or is
\* found from a child that the recursion goes to.
LEMMA FoundUnfolds ==
    ASSUME NEW t, Tree(t), NEW tokens \in Tokens,
           NEW node \in DOMAIN t, NEW index \in 0..Len(tokens), NEW n \in DOMAIN t
    PROVE  n \in FoundFrom(t, tokens, node, index) <=>
             \/ index = Len(tokens) /\ n = node
             \/ \E token \in Fields, next \in index..Len(tokens) :
                  /\ \/ token = "*"
                     \/ index < Len(tokens) /\ next = index + 1 /\ token \in {"+", tokens[index+1]}
                  /\ Append(node, token) \in DOMAIN t
                  /\ n \in FoundFrom(t, tokens, Append(node, token), next)
<1>1. /\ node \in Tokens /\ n \in Tokens
      /\ Len(node) \in Nat /\ Len(n) \in Nat /\ Len(tokens) \in Nat /\ index \in Nat
  BY LenProperties DEF Tree, Tokens
<1>2. ASSUME n \in FoundFrom(t, tokens, node, index), n = node PROVE index = Len(tokens)
  <2>1. Way(Len(n), index, n, tokens) /\ Len(n) \in 0..Len(n)
    BY <1>1, <1>2 DEF FoundFrom
  <2> QED BY <1>1, <2>1, WayUnfolds
<1>3. ASSUME n = node, index = Len(tokens) PROVE n \in FoundFrom(t, tokens, node, index)
  <2>1. Way(Len(n), index, n, tokens)
    <3>1. Len(n) \in 0..Len(n)
      BY <1>1
    <3> QED BY <1>1, <1>3, <3>1, WayUnfolds
  <2>2. IsPrefix(n, n)
    BY <1>1, PrefixOrder
  <2> QED BY <1>3, <2>1, <2>2 DEF FoundFrom
<1>4. ASSUME n \in FoundFrom(t, tokens, node, index), n # node
      PROVE  \E token \in Fields, next \in index..Len(tokens) :
                  /\ \/ token = "*"
                     \/ index < Len(tokens) /\ next = index + 1 /\ token \in {"+", tokens[index+1]}
                  /\ Append(node, token) \in DOMAIN t
                  /\ n \in FoundFrom(t, tokens, Append(node, token), next)
  <2>1. IsPrefix(node, n) /\ Way(Len(node), index, n, tokens)
    BY <1>4 DEF FoundFrom
  <2>2. PICK token \in Fields : token = n[Len(node)+1]
    BY <1>1, <1>4, <2>1, NextNode
  <2>3. /\ Len(node) < Len(n) /\ Append(node, token) \in Tokens
        /\ IsPrefix(Append(node, token), n) /\ Len(Append(node, token)) = Len(node) + 1
    BY <1>1, <1>4, <2>1, <2>2, NextNode
  <2>4. Append(node, token) \in DOMAIN t
    BY <2>3 DEF Tree
  <2>5. \/ token = "*" /\ \E l \in index..Len(tokens) : Way(Len(node)+1, l, n, tokens)
        \/ /\ index < Len(tokens) /\ token \in {"+", tokens[index+1]}
           /\ Way(Len(node)+1, index+1, n, tokens)
    <3>1. Len(node) \in 0..Len(n)
      BY <1>1, <2>3
    <3> QED BY <1>1, <2>1, <2>2, <2>3, <3>1, WayUnfolds
  <2>6. PICK next \in index..Len(tokens) :
            /\ \/ token = "*"
               \/ index < Len(tokens) /\ next = index + 1 /\ token \in {"+", tokens[index+1]}
            /\ Way(Len(node)+1, next, n, tokens)
    <3>1. index < Len(tokens) => index + 1 \in index..Len(tokens)
      BY <1>1
    <3> QED BY <2>5, <3>1
  <2>7. n \in FoundFrom(t, tokens, Append(node, token), next)
    BY <2>3, <2>6 DEF FoundFrom
  <2> QED BY <2>4, <2>6, <2>7
<1>5. ASSUME NEW token \in Fields, NEW next \in index..Len(tokens),
             \/ token = "*"
             \/ index < Len(tokens) /\ next = index + 1 /\ token \in {"+", tokens[index+1]},
             n \in FoundFrom(t, tokens, Append(node, token), next)
      PROVE  n \in FoundFrom(t, tokens, node, index)
  <2>1. /\ Len(Append(node, token)) = Len(node) + 1 /\ IsPrefix(Append(node, token), n)
        /\ Way(Len(node) + 1, next, n, tokens)
    BY <1>1, <1>5, NextNode DEF FoundFrom
  <2>2. IsPrefix(node, n) /\ Len(node) < Len(n) /\ n[Len(node)+1] = token
    BY <1>1, <2>1, NextNode
  <2>3. Way(Len(node), index, n, tokens)
    <3>1. Len(node) \in 0..Len(n)
      BY <1>1, <2>2
    <3> QED BY <1>1, <1>5, <2>1, <2>2, <3>1, WayUnfolds
  <2> QED BY <2>2, <2>3 DEF FoundFrom
<1> QED BY <1>2, <1>3, <1>4, <1>5

\* What is appended to a node is a token if the result is a node.
LEMMA TokenOfChild ==
    ASSUME NEW node \in Tokens, NEW token, Append(node, token) \in Tokens
    PROVE  token \in Fields
<1> DEFINE Wider == Fields \cup {token}
<1>1. node \in Seq(Wider) /\ token \in Wider
  BY TokensOfFields, SeqMonotonic
<1> HIDE DEF Wider
<1>2. /\ Len(Append(node, token)) = Len(node) + 1
      /\ Append(node, token)[Len(node) + 1] = token
  BY <1>1, AppendProperties
<1>3. Len(node) \in Nat
  BY LenProperties DEF Tokens
<1>4. Len(node) + 1 \in 1..Len(Append(node, token))
  BY <1>2, <1>3
<1> QED BY <1>2, <1>4, ElementOfSeq, TokensOfFields

\* What one call collects: at the end of the topic the node's own clients, and
\* what the calls for its children give that it makes.
LEMMA CollectsWhat ==
    ASSUME NEW collect, NEW t, Tree(t), NEW tokens \in Tokens,
           NEW node \in DOMAIN t, NEW index \in 0..Len(tokens), NEW client
    PROVE  client \in collect_matches_recursive(collect, t, tokens, node, index) <=>
             \/ index = Len(tokens) /\ client \in t[node]
             \/ \E token \in Fields, next \in index..Len(tokens) :
                  /\ \/ token = "*"
                     \/ index < Len(tokens) /\ next = index + 1 /\ token \in {"+", tokens[index+1]}
                  /\ Append(node, token) \in DOMAIN t
                  /\ client \in collect[<<Append(node, token), next>>]
<1> DEFINE Into(token, next) ==
              IF Append(node, token) \in DOMAIN t THEN collect[<<Append(node, token), next>>] ELSE {}
           own  == IF index < Len(tokens) THEN Into(tokens[index+1], index+1) ELSE t[node]
           plus == IF index < Len(tokens) THEN Into("+", index+1) ELSE {}
           star == UNION {Into("*", i) : i \in index..Len(tokens)}
           Goes(token, next) ==
              Append(node, token) \in DOMAIN t /\ client \in collect[<<Append(node, token), next>>]
<1>1. Len(tokens) \in Nat /\ index \in Nat
  BY LenProperties DEF Tokens
<1>2. \A token : Append(node, token) \in DOMAIN t => token \in Fields
  BY TokenOfChild DEF Tree
<1>3. index < Len(tokens) => tokens[index+1] \in Fields /\ index + 1 \in index..Len(tokens)
  <2>1. index < Len(tokens) => index + 1 \in 1..Len(tokens)
    BY <1>1
  <2> QED BY <1>1, <2>1, ElementOfSeq, TokensOfFields
<1>4. collect_matches_recursive(collect, t, tokens, node, index) = UNION {own, plus, star}
  BY DEF collect_matches_recursive, StarStart
<1>5. \A token, next : client \in Into(token, next) <=> Goes(token, next)
  OBVIOUS
<1>10. \A token, next : Goes(token, next) => token \in Fields
  BY <1>2
<1> HIDE DEF Into, Goes
<1>6. client \in own <=> \/ index < Len(tokens) /\ Goes(tokens[index+1], index+1)
                         \/ index = Len(tokens) /\ client \in t[node]
  BY <1>1, <1>5
<1>7. client \in plus <=> index < Len(tokens) /\ Goes("+", index+1)
  BY <1>5
<1>8. client \in star <=> \E next \in index..Len(tokens) : Goes("*", next)
  BY <1>5
<1> HIDE DEF own, plus, star
<1>9. client \in collect_matches_recursive(collect, t, tokens, node, index) <=>
             \/ index = Len(tokens) /\ client \in t[node]
             \/ \E token \in Fields, next \in index..Len(tokens) :
                  /\ \/ token = "*"
                     \/ index < Len(tokens) /\ next = index + 1 /\ token \in {"+", tokens[index+1]}
                  /\ Goes(token, next)
  BY <1>3, <1>4, <1>6, <1>7, <1>8, <1>10
<1> QED BY <1>9 DEF Goes

\* A function over the calls that makes one call out of the others.
Collects(f, t, tokens) ==
    f = [call \in (DOMAIN t) \X (0..Len(tokens)) |->
            collect_matches_recursive(f, t, tokens, call[1], call[2])]

\* Found is such a function.
LEMMA FoundCollects ==
    ASSUME NEW t, Tree(t), NEW tokens \in Tokens
    PROVE  Collects(Found(t, tokens), t, tokens)
<1> DEFINE f == Found(t, tokens)
<1>1. \A node \in DOMAIN t, index \in 0..Len(tokens) :
          f[<<node, index>>] = UNION {t[n] : n \in FoundFrom(t, tokens, node, index)}
  BY DEF Found
<1>2. ASSUME NEW node \in DOMAIN t, NEW index \in 0..Len(tokens)
      PROVE  f[<<node, index>>] = collect_matches_recursive(f, t, tokens, node, index)
  <2>1. ASSUME NEW client
        PROVE  client \in f[<<node, index>>] <=>
                  client \in collect_matches_recursive(f, t, tokens, node, index)
    <3>1. \A m \in DOMAIN t, i \in 0..Len(tokens) :
              client \in f[<<m, i>>] <=> \E n \in FoundFrom(t, tokens, m, i) : client \in t[n]
      BY <1>1
    <3> HIDE DEF f
    <3>2. client \in f[<<node, index>>] <=>
            \/ index = Len(tokens) /\ client \in t[node]
            \/ \E token \in Fields, next \in index..Len(tokens) :
                  /\ \/ token = "*"
                     \/ index < Len(tokens) /\ next = index + 1 /\ token \in {"+", tokens[index+1]}
                  /\ Append(node, token) \in DOMAIN t
                  /\ \E n \in FoundFrom(t, tokens, Append(node, token), next) : client \in t[n]
      <4>1. \A m, i : FoundFrom(t, tokens, m, i) \subseteq DOMAIN t
        BY DEF FoundFrom
      <4>2. \A n \in DOMAIN t : n \in FoundFrom(t, tokens, node, index) <=>
             \/ index = Len(tokens) /\ n = node
             \/ \E token \in Fields, next \in index..Len(tokens) :
                  /\ \/ token = "*"
                     \/ index < Len(tokens) /\ next = index + 1 /\ token \in {"+", tokens[index+1]}
                  /\ Append(node, token) \in DOMAIN t
                  /\ n \in FoundFrom(t, tokens, Append(node, token), next)
        BY FoundUnfolds
      <4> QED BY <3>1, <4>1, <4>2, Zenon
    <3>3. \A next \in index..Len(tokens) : next \in 0..Len(tokens)
      BY LenProperties DEF Tokens
    <3>4. client \in f[<<node, index>>] <=>
            \/ index = Len(tokens) /\ client \in t[node]
            \/ \E token \in Fields, next \in index..Len(tokens) :
                  /\ \/ token = "*"
                     \/ index < Len(tokens) /\ next = index + 1 /\ token \in {"+", tokens[index+1]}
                  /\ Append(node, token) \in DOMAIN t
                  /\ client \in f[<<Append(node, token), next>>]
      BY <3>1, <3>2, <3>3, Zenon
    <3> QED BY <3>4, CollectsWhat, Zenon
  <2> QED BY <1>1, <2>1 DEF collect_matches_recursive
<1>3. f = [call \in (DOMAIN t) \X (0..Len(tokens)) |-> f[call]]
  BY DEF Found
<1> HIDE DEF f
<1>4. \A call \in (DOMAIN t) \X (0..Len(tokens)) :
          f[call] = collect_matches_recursive(f, t, tokens, call[1], call[2])
  <2> SUFFICES ASSUME NEW call \in (DOMAIN t) \X (0..Len(tokens))
               PROVE  f[call] = collect_matches_recursive(f, t, tokens, call[1], call[2])
    OBVIOUS
  <2>1. call = <<call[1], call[2]>> /\ call[1] \in DOMAIN t /\ call[2] \in 0..Len(tokens)
    OBVIOUS
  <2> QED BY <1>2, <2>1
<1> QED BY <1>3, <1>4 DEF Collects, f

\* And there is no other: it is settled from the deepest nodes up.
LEMMA CollectsOne ==
    ASSUME NEW t, Tree(t), NEW tokens \in Tokens,
           NEW d \in Nat, \A node \in DOMAIN t : Len(node) <= d,
           NEW f, NEW g, Collects(f, t, tokens), Collects(g, t, tokens)
    PROVE  f = g
<1> DEFINE Height(node) == d - Len(node)
           Apart == {h \in Nat : \E node \in DOMAIN t, index \in 0..Len(tokens) :
                                    h = Height(node) /\ f[<<node, index>>] # g[<<node, index>>]}
<1>1. \A node \in DOMAIN t : node \in Tokens /\ Len(node) \in Nat /\ Height(node) \in Nat
  BY LenProperties DEF Tree, Tokens
<1>2. /\ \A node \in DOMAIN t, index \in 0..Len(tokens) :
            /\ f[<<node, index>>] = collect_matches_recursive(f, t, tokens, node, index)
            /\ g[<<node, index>>] = collect_matches_recursive(g, t, tokens, node, index)
  BY DEF Collects
<1>3. Apart = {}
  <2> SUFFICES ASSUME Apart # {} PROVE FALSE
    OBVIOUS
  <2>1. PICK h \in Apart : \A k \in Apart : h <= k
    <3>1. Apart \subseteq Nat
      OBVIOUS
    <3> HIDE DEF Apart
    <3> QED BY <3>1, Least
  <2>2. PICK node \in DOMAIN t, index \in 0..Len(tokens) :
            h = Height(node) /\ f[<<node, index>>] # g[<<node, index>>]
    OBVIOUS
  <2>3. ASSUME NEW token \in Fields, NEW next \in index..Len(tokens), Append(node, token) \in DOMAIN t
        PROVE  f[<<Append(node, token), next>>] = g[<<Append(node, token), next>>]
    <3>1. Len(Append(node, token)) = Len(node) + 1
      BY <1>1, NextNode
    <3>2. Height(Append(node, token)) < h /\ Height(Append(node, token)) \in Nat
      <4>1. PICK k \in Nat : k = Len(node)
        BY <1>1
      <4>2. Height(Append(node, token)) = d - (k + 1) /\ Height(Append(node, token)) \in Nat /\ h = d - k
        BY <1>1, <2>2, <2>3, <3>1, <4>1
      <4> HIDE DEF Height
      <4> QED BY <4>1, <4>2
    <3>3. next \in 0..Len(tokens)
      BY LenProperties DEF Tokens
    <3>4. Height(Append(node, token)) \notin Apart
      <4>1. h \in Nat
        OBVIOUS
      <4> HIDE DEF Apart, Height
      <4> QED BY <2>1, <3>2, <4>1
    <3> HIDE DEF Height
    <3> QED BY <2>3, <3>2, <3>3, <3>4
  <2>4. ASSUME NEW client
        PROVE  client \in collect_matches_recursive(f, t, tokens, node, index) <=>
                  client \in collect_matches_recursive(g, t, tokens, node, index)
    <3> DEFINE Makes(c, token, next) ==
                  /\ \/ token = "*"
                     \/ index < Len(tokens) /\ next = index + 1 /\ token \in {"+", tokens[index+1]}
                  /\ Append(node, token) \in DOMAIN t
                  /\ client \in c[<<Append(node, token), next>>]
    <3>1. \A c : client \in collect_matches_recursive(c, t, tokens, node, index) <=>
                    \/ index = Len(tokens) /\ client \in t[node]
                    \/ \E token \in Fields, next \in index..Len(tokens) : Makes(c, token, next)
      BY CollectsWhat, Zenon
    <3>2. \A token \in Fields, next \in index..Len(tokens) : Makes(f, token, next) <=> Makes(g, token, next)
      BY <2>3, Zenon
    <3> HIDE DEF Makes
    <3> QED BY <3>1, <3>2, Zenon
  <2>5. collect_matches_recursive(f, t, tokens, node, index) =
            collect_matches_recursive(g, t, tokens, node, index)
    BY <2>4, Zenon DEF collect_matches_recursive
  <2> QED BY <1>2, <2>2, <2>5
<1>4. \A node \in DOMAIN t, index \in 0..Len(tokens) : f[<<node, index>>] = g[<<node, index>>]
  BY <1>1, <1>3
<1>5. /\ f = [call \in (DOMAIN t) \X (0..Len(tokens)) |-> f[call]]
      /\ g = [call \in (DOMAIN t) \X (0..Len(tokens)) |-> g[call]]
  BY DEF Collects
<1>6. \A call \in (DOMAIN t) \X (0..Len(tokens)) : f[call] = g[call]
  BY <1>4
<1> QED BY <1>5, <1>6

\* What find_subscribers gives: the recursion's result is that function's.
LEMMA CollectIsFind ==
    ASSUME NEW t, Tree(t), NEW tokens \in Tokens,
           NEW d \in Nat, \A node \in DOMAIN t : Len(node) <= d
    PROVE  Collect(t, tokens) = UNION {t[n] : n \in {m \in DOMAIN t : Reaches(m, tokens)}}
<1> DEFINE Solves(f) == Collects(f, t, tokens)
           chosen == CHOOSE f : Solves(f)
<1>1. Solves(Found(t, tokens))
  BY FoundCollects
<1>2. Solves(chosen)
  <2> HIDE DEF Solves
  <2> QED BY <1>1
<1>3. Collect(t, tokens) = chosen[<< <<>>, 0 >>]
  BY DEF Collect, Collects
<1>4. chosen = Found(t, tokens)
  <2> HIDE DEF chosen
  <2> QED BY <1>1, <1>2, CollectsOne
<1>5. FoundFrom(t, tokens, <<>>, 0) = {m \in DOMAIN t : Reaches(m, tokens)}
  <2>1. \A m \in DOMAIN t : IsPrefix(<<>>, m)
    BY PrefixesOf DEF Tree
  <2>2. Len(<<>>) = 0
    OBVIOUS
  <2> QED BY <2>1, <2>2, ReachesIsWay DEF FoundFrom
<1>6. <<>> \in DOMAIN t /\ 0 \in 0..Len(tokens)
  BY LenProperties DEF Tree, Tokens
<1> HIDE DEF chosen
<1> QED BY <1>3, <1>4, <1>5, <1>6 DEF Found

------------------------------------------------------------------------------
(* The trie of the specification *)

\* There is a deepest node.
Bounded == \E d \in Nat : \A node \in DOMAIN trie : Len(node) <= d

\* A call adds the nodes of one path at most.
LEMMA BoundedCorrect == Spec => []Bounded
<1>1. Init => Bounded
  <2>1. Init => \A node \in DOMAIN trie : Len(node) <= 0
    BY DEF Init, EmptyTrie
  <2> QED BY <2>1 DEF Bounded
<1>2. TypeOK /\ Bounded /\ [Next]_trie => Bounded'
  <2> SUFFICES ASSUME TypeOK, Bounded, [Next]_trie PROVE Bounded'
    OBVIOUS
  <2>1. PICK d \in Nat : \A node \in DOMAIN trie : Len(node) <= d
    BY DEF Bounded
  <2>2. ASSUME NEW pattern \in Patterns, NEW client \in Clients, Add(pattern, client)
        PROVE  Bounded'
    <3>1. /\ SplitTopic(pattern) \in Tokens
          /\ DOMAIN trie' = DOMAIN trie \cup Prefixes(SplitTopic(pattern))
      BY <2>2, AddResult, NodesAreTokens
    <3>2. PICK l \in Nat : l = Len(SplitTopic(pattern))
      BY <3>1, LenProperties DEF Tokens
    <3>3. \A p \in Prefixes(SplitTopic(pattern)) : Len(p) \in Nat /\ Len(p) <= l
      BY <3>1, <3>2, PrefixesOf, PrefixByTokens, LenProperties DEF Tokens
    <3>4. \A node \in DOMAIN trie : Len(node) \in Nat
      BY NodesAreTokens, LenProperties DEF TypeOK, Tokens
    <3>5. \A node \in DOMAIN trie' : Len(node) <= d + l
      BY <2>1, <3>1, <3>3, <3>4
    <3> QED BY <3>5 DEF Bounded
  <2>3. ASSUME NEW pattern \in Patterns, NEW client \in Clients, Drop(pattern, client)
        PROVE  Bounded'
    <3>1. DOMAIN trie' \subseteq DOMAIN trie
      BY <2>3, DropResult
    <3> QED BY <2>1, <3>1 DEF Bounded
  <2> QED BY <2>2, <2>3 DEF Next, Bounded
<1> QED BY <1>1, <1>2, TypeCorrect, PTL DEF Spec

\* The trie is a tree of tokens.
LEMMA TrieIsTree == ASSUME TypeOK, TrieShape PROVE Tree(trie)
<1>1. DOMAIN trie \subseteq Tokens /\ <<>> \in DOMAIN trie
  BY NodesAreTokens DEF TypeOK, TrieShape
<1>2. \A node \in DOMAIN trie : \A p \in Tokens : IsPrefix(p, node) => p \in DOMAIN trie
  BY <1>1, PrefixesOf DEF TrieShape, PrefixClosed
<1> QED BY <1>1, <1>2 DEF Tree

\* A published topic is split into tokens.
LEMMA TopicsAreTokens == \A topic \in Topics : SplitTopic(topic) \in Tokens
  BY TopicsAssumption, SplitIsTokens DEF Tokens

\* find_subscribers collects by its backtracking recursion just the clients at
\* the nodes with a walk over the topic, in every trie that calls of
\* add_subscription and remove_subscription build (TopicTrie.cpp:50-85).
THEOREM FindIsCollect == Spec => []FindAgrees
<1>1. TypeOK /\ TrieShape /\ Bounded => FindAgrees
  <2> SUFFICES ASSUME TypeOK, TrieShape, Bounded, NEW topic \in Topics
               PROVE  FindSubscribers(trie, topic) = Collect(trie, SplitTopic(topic))
    BY DEF FindAgrees
  <2>1. PICK d \in Nat : \A node \in DOMAIN trie : Len(node) <= d
    BY DEF Bounded
  <2> QED BY <2>1, TrieIsTree, TopicsAreTokens, CollectIsFind DEF FindSubscribers
<1> QED BY <1>1, TypeCorrect, ShapeCorrect, BoundedCorrect, PTL

------------------------------------------------------------------------------
(* What the README says *)

\* The first step of a way at a "*", which stays at its index or moves it on.
LEMMA WayAtStar ==
    ASSUME NEW path \in Tokens, NEW tokens \in Tokens,
           NEW i \in 0..Len(path), NEW j \in 0..Len(tokens), i < Len(path), path[i+1] = "*"
    PROVE  Way(i, j, path, tokens) <=>
             Way(i+1, j, path, tokens) \/ (j < Len(tokens) /\ Way(i, j+1, path, tokens))
<1>1. /\ Len(path) \in Nat /\ Len(tokens) \in Nat /\ i \in Nat /\ j \in Nat
      /\ i + 1 \in 0..Len(path)
  BY LenProperties DEF Tokens
<1>2. \A k \in 0..Len(tokens) :
          Way(i, k, path, tokens) <=>
              \/ \E l \in k..Len(tokens) : Way(i+1, l, path, tokens)
              \/ /\ k < Len(tokens) /\ "*" \in {"+", tokens[k+1]}
                 /\ Way(i+1, k+1, path, tokens)
  BY WayUnfolds
<1>3. \A k \in 0..Len(tokens) :
          Way(i, k, path, tokens) <=> \E l \in k..Len(tokens) : Way(i+1, l, path, tokens)
  <2>1. \A k \in 0..Len(tokens) : k < Len(tokens) => k + 1 \in k..Len(tokens)
    BY <1>1
  <2> QED BY <1>2, <2>1
<1>4. j < Len(tokens) => j + 1 \in 0..Len(tokens)
  BY <1>1
<1>5. \A l \in j..Len(tokens) : l = j \/ (j < Len(tokens) /\ l \in (j+1)..Len(tokens))
  BY <1>1
<1>6. j \in j..Len(tokens) /\ (j+1)..Len(tokens) \subseteq j..Len(tokens)
  BY <1>1
<1> QED BY <1>3, <1>4, <1>5, <1>6

\* A function over what can be left of the pattern and the topic that settles
\* one case by the shorter ones.
Matches(f, pattern, topic) ==
    f = [left \in (0..Len(pattern)) \X (0..Len(topic)) |->
            CoversFrom(f, pattern, topic, left[1], left[2])]

Ways(pattern, topic) ==
    [left \in (0..Len(pattern)) \X (0..Len(topic)) |-> Way(left[1], left[2], pattern, topic)]

\* The ways are such a function.
LEMMA WaysMatch ==
    ASSUME NEW pattern \in Tokens, NEW topic \in Tokens
    PROVE  Matches(Ways(pattern, topic), pattern, topic)
<1> DEFINE f == Ways(pattern, topic)
<1>1. Len(pattern) \in Nat /\ Len(topic) \in Nat
  BY LenProperties DEF Tokens
<1>2. \A i \in 0..Len(pattern), j \in 0..Len(topic) : f[<<i, j>>] = Way(i, j, pattern, topic)
  BY DEF Ways
<1>3. f = [left \in (0..Len(pattern)) \X (0..Len(topic)) |-> f[left]]
  BY DEF Ways
<1> HIDE DEF f
<1>4. ASSUME NEW i \in 0..Len(pattern), NEW j \in 0..Len(topic)
      PROVE  f[<<i, j>>] = CoversFrom(f, pattern, topic, i, j)
  <2>1. i < Len(pattern) => i + 1 \in 0..Len(pattern)
    BY <1>1
  <2>2. j < Len(topic) => j + 1 \in 0..Len(topic)
    BY <1>1
  <2>3. CoversFrom(f, pattern, topic, i, j) <=>
            \/ i = Len(pattern) /\ j = Len(topic)
            \/ /\ i < Len(pattern) /\ j < Len(topic)
               /\ pattern[i+1] \in {"+", topic[j+1]}
               /\ Way(i+1, j+1, pattern, topic)
            \/ /\ i < Len(pattern) /\ pattern[i+1] = "*"
               /\ (Way(i+1, j, pattern, topic) \/ (j < Len(topic) /\ Way(i, j+1, pattern, topic)))
    BY <1>2, <2>1, <2>2, Zenon DEF CoversFrom
  <2>4. Way(i, j, pattern, topic) <=>
            \/ i = Len(pattern) /\ j = Len(topic)
            \/ /\ i < Len(pattern) /\ j < Len(topic)
               /\ pattern[i+1] \in {"+", topic[j+1]}
               /\ Way(i+1, j+1, pattern, topic)
            \/ /\ i < Len(pattern) /\ pattern[i+1] = "*"
               /\ (Way(i+1, j, pattern, topic) \/ (j < Len(topic) /\ Way(i, j+1, pattern, topic)))
    <3>1. CASE i = Len(pattern)
      BY <1>1, <3>1, WayUnfolds
    <3>2. CASE i < Len(pattern) /\ pattern[i+1] = "*"
      <4>1. ASSUME j < Len(topic), pattern[i+1] \in {"+", topic[j+1]}, Way(i+1, j+1, pattern, topic)
            PROVE  Way(i, j, pattern, topic)
        BY <3>2, <4>1, WayUnfolds
      <4>2. Way(i, j, pattern, topic) <=>
               Way(i+1, j, pattern, topic) \/ (j < Len(topic) /\ Way(i, j+1, pattern, topic))
        BY <3>2, WayAtStar
      <4> QED BY <1>1, <3>2, <4>1, <4>2
    <3>3. CASE i < Len(pattern) /\ pattern[i+1] # "*"
      BY <1>1, <3>3, WayUnfolds
    <3> QED BY <1>1, <3>1, <3>2, <3>3
  <2>5. Way(i, j, pattern, topic) = CoversFrom(f, pattern, topic, i, j)
    <3>1. Way(i, j, pattern, topic) <=> CoversFrom(f, pattern, topic, i, j)
      BY <2>3, <2>4, Zenon
    <3> QED BY <3>1, Zenon DEF Way, CoversFrom
  <2> QED BY <1>2, <2>5, Zenon
<1>5. \A left \in (0..Len(pattern)) \X (0..Len(topic)) :
          f[left] = CoversFrom(f, pattern, topic, left[1], left[2])
  <2> SUFFICES ASSUME NEW left \in (0..Len(pattern)) \X (0..Len(topic))
               PROVE  f[left] = CoversFrom(f, pattern, topic, left[1], left[2])
    OBVIOUS
  <2>1. left = <<left[1], left[2]>> /\ left[1] \in 0..Len(pattern) /\ left[2] \in 0..Len(topic)
    OBVIOUS
  <2>2. f[<<left[1], left[2]>>] = CoversFrom(f, pattern, topic, left[1], left[2])
    BY <1>4, <2>1, Zenon
  <2> QED BY <2>1, <2>2, Zenon
<1>6. f = [left \in (0..Len(pattern)) \X (0..Len(topic)) |->
              CoversFrom(f, pattern, topic, left[1], left[2])]
  BY <1>3, <1>5, Zenon
<1> QED BY <1>6 DEF Matches, f

\* And there is no other: it is settled from what is left at the end on.
LEMMA MatchesOne ==
    ASSUME NEW pattern \in Tokens, NEW topic \in Tokens,
           NEW f, NEW g, Matches(f, pattern, topic), Matches(g, pattern, topic)
    PROVE  f = g
<1> DEFINE More(i, j) == (Len(pattern) - i) + (Len(topic) - j)
           Apart == {h \in Nat : \E i \in 0..Len(pattern), j \in 0..Len(topic) :
                                    h = More(i, j) /\ f[<<i, j>>] # g[<<i, j>>]}
<1>1. Len(pattern) \in Nat /\ Len(topic) \in Nat
  BY LenProperties DEF Tokens
<1>2. \A i \in 0..Len(pattern), j \in 0..Len(topic) :
            /\ f[<<i, j>>] = CoversFrom(f, pattern, topic, i, j)
            /\ g[<<i, j>>] = CoversFrom(g, pattern, topic, i, j)
  BY Zenon DEF Matches
<1>3. Apart = {}
  <2> SUFFICES ASSUME Apart # {} PROVE FALSE
    OBVIOUS
  <2>1. PICK h \in Apart : \A k \in Apart : h <= k
    <3>1. Apart \subseteq Nat
      OBVIOUS
    <3> HIDE DEF Apart
    <3> QED BY <3>1, Least
  <2>2. PICK i \in 0..Len(pattern), j \in 0..Len(topic) :
            h = More(i, j) /\ f[<<i, j>>] # g[<<i, j>>]
    OBVIOUS
  <2>3. ASSUME NEW k \in 0..Len(pattern), NEW l \in 0..Len(topic), More(k, l) < More(i, j)
        PROVE  f[<<k, l>>] = g[<<k, l>>]
    <3>1. More(k, l) \in Nat
      BY <1>1
    <3>2. More(k, l) \notin Apart
      <4>1. h \in Nat /\ More(k, l) < h
        BY <2>2, <2>3
      <4> HIDE DEF Apart, More
      <4> QED BY <2>1, <3>1, <4>1
    <3> HIDE DEF More
    <3> QED BY <3>1, <3>2
  <2>4. /\ i < Len(pattern) => f[<<i+1, j>>] = g[<<i+1, j>>]
        /\ j < Len(topic) => f[<<i, j+1>>] = g[<<i, j+1>>]
        /\ i < Len(pattern) /\ j < Len(topic) => f[<<i+1, j+1>>] = g[<<i+1, j+1>>]
    <3>1. i < Len(pattern) => i + 1 \in 0..Len(pattern) /\ More(i+1, j) < More(i, j)
      BY <1>1
    <3>2. j < Len(topic) => j + 1 \in 0..Len(topic) /\ More(i, j+1) < More(i, j)
      BY <1>1
    <3>3. i < Len(pattern) /\ j < Len(topic) => More(i+1, j+1) < More(i, j)
      BY <1>1
    <3> HIDE DEF More, Apart
    <3> QED BY <2>3, <3>1, <3>2, <3>3, Zenon
  <2>5. CoversFrom(f, pattern, topic, i, j) = CoversFrom(g, pattern, topic, i, j)
    BY <2>4, Zenon DEF CoversFrom
  <2> QED BY <1>2, <2>2, <2>5, Zenon
<1>4. \A i \in 0..Len(pattern), j \in 0..Len(topic) : f[<<i, j>>] = g[<<i, j>>]
  <2> SUFFICES ASSUME NEW i \in 0..Len(pattern), NEW j \in 0..Len(topic), f[<<i, j>>] # g[<<i, j>>]
               PROVE  FALSE
    OBVIOUS
  <2>1. More(i, j) \in Nat
    BY <1>1
  <2> HIDE DEF More
  <2> QED BY <1>3, <2>1, Zenon
<1>5. /\ f = [left \in (0..Len(pattern)) \X (0..Len(topic)) |-> f[left]]
      /\ g = [left \in (0..Len(pattern)) \X (0..Len(topic)) |-> g[left]]
  BY Zenon DEF Matches
<1>6. \A left \in (0..Len(pattern)) \X (0..Len(topic)) : f[left] = g[left]
  BY <1>4
<1> QED BY <1>5, <1>6, Zenon

\* A pattern covers a topic, as the README defines it, just when there is a
\* walk along the pattern that consumes the topic.
LEMMA CoversIsReaches ==
    ASSUME NEW pattern \in Tokens, NEW topic \in Tokens
    PROVE  Covers(pattern, topic) <=> Reaches(pattern, topic)
<1> DEFINE Solves(f) == Matches(f, pattern, topic)
           chosen == CHOOSE f : Solves(f)
<1>1. Solves(Ways(pattern, topic))
  BY WaysMatch
<1>2. Solves(chosen)
  <2> HIDE DEF Solves
  <2> QED BY <1>1
<1>3. Covers(pattern, topic) = chosen[<<0, 0>>]
  BY Zenon DEF Covers, Matches
<1>4. chosen = Ways(pattern, topic)
  <2> HIDE DEF chosen
  <2> QED BY <1>1, <1>2, MatchesOne
<1>5. 0 \in 0..Len(pattern) /\ 0 \in 0..Len(topic)
  BY LenProperties DEF Tokens
<1>6. Ways(pattern, topic)[<<0, 0>>] = Way(0, 0, pattern, topic)
  BY <1>5 DEF Ways
<1> HIDE DEF chosen
<1> QED BY <1>3, <1>4, <1>6, ReachesIsWay, Zenon

\* Clients are kept at the ends of patterns only.
EndsOnly == \A node \in DOMAIN trie : trie[node] # {} => node \in Paths

LEMMA EndsOnlyCorrect == Spec => []EndsOnly
<1>1. Init => EndsOnly
  BY DEF Init, EmptyTrie, EndsOnly
<1>2. TypeOK /\ EndsOnly /\ [Next]_trie => EndsOnly'
  <2> SUFFICES ASSUME TypeOK, EndsOnly, [Next]_trie PROVE EndsOnly'
    OBVIOUS
  <2>1. ASSUME NEW pattern \in Patterns, NEW client \in Clients, Add(pattern, client)
        PROVE  EndsOnly'
    <3>1. /\ SplitTopic(pattern) \in Paths
          /\ \A node \in DOMAIN trie' \ {SplitTopic(pattern)} : trie'[node] = IdsAt(trie, node)
      BY <2>1, AddResult
    <3> QED BY <3>1 DEF EndsOnly, IdsAt
  <2>2. ASSUME NEW pattern \in Patterns, NEW client \in Clients, Drop(pattern, client)
        PROVE  EndsOnly'
    BY <2>2, DropResult DEF EndsOnly, Left
  <2> QED BY <2>1, <2>2 DEF Next, EndsOnly
<1> QED BY <1>1, <1>2, TypeCorrect, PTL DEF Spec

\* The clients found for a topic are those with a subscribed pattern that covers
\* it as README.md:10-12 says, in every trie that calls of add_subscription and
\* remove_subscription build: overlapping patterns and the pruning neither hide
\* one nor add one.
THEOREM FindIsReadme == Spec => []FindFollowsReadme
<1>1. TypeOK /\ TrieShape /\ Bounded /\ EndsOnly => FindFollowsReadme
  <2> SUFFICES ASSUME TypeOK, TrieShape, Bounded, EndsOnly, NEW topic \in Topics
               PROVE  Collect(trie, SplitTopic(topic)) =
                        UNION {IdsAt(trie, path) :
                                  path \in {p \in Paths : Covers(p, SplitTopic(topic))}}
    BY DEF FindFollowsReadme
  <2>1. PICK d \in Nat : \A node \in DOMAIN trie : Len(node) <= d
    BY DEF Bounded
  <2>2. PICK tokens \in Tokens : tokens = SplitTopic(topic)
    BY TopicsAreTokens
  <2>3. Collect(trie, tokens) = UNION {trie[n] : n \in {m \in DOMAIN trie : Reaches(m, tokens)}}
    BY <2>1, TrieIsTree, CollectIsFind
  <2>4. \A p \in Paths : Covers(p, tokens) <=> Reaches(p, tokens)
    BY NodesAreTokens, CoversIsReaches
  <2>5. UNION {IdsAt(trie, path) : path \in {p \in Paths : Covers(p, tokens)}} =
            UNION {trie[n] : n \in {m \in DOMAIN trie : Reaches(m, tokens)}}
    BY <2>4 DEF IdsAt, EndsOnly
  <2> QED BY <2>2, <2>3, <2>5
<1> QED BY <1>1, TypeCorrect, ShapeCorrect, BoundedCorrect, EndsOnlyCorrect, PTL

------------------------------------------------------------------------------
(* remove_subscription *)

\* Of two nodes on one path the shorter is a prefix of the longer.
LEMMA OnePath ==
    ASSUME NEW tokens \in Tokens, NEW p \in Tokens, NEW q \in Tokens,
           IsPrefix(p, tokens), IsPrefix(q, tokens)
    PROVE  Len(p) <= Len(q) => IsPrefix(p, q)
<1>1. Len(p) \in Nat /\ Len(q) \in Nat /\ Len(tokens) \in Nat
  BY LenProperties DEF Tokens
<1>2. /\ \A k \in 1..Len(p) : p[k] = tokens[k]
      /\ \A k \in 1..Len(q) : q[k] = tokens[k]
  BY PrefixByTokens
<1> QED BY <1>1, <1>2, PrefixByTokens

\* The children of a node are the nodes one token longer.
LEMMA ChildIsLonger ==
    ASSUME NEW node \in Tokens, NEW n \in Tokens
    PROVE  n # <<>> /\ Front(n) = node <=> Len(n) = Len(node) + 1 /\ IsPrefix(node, n)
<1>1. Len(node) \in Nat /\ Len(n) \in Nat /\ (n # <<>> <=> Len(n) # 0)
  BY LenProperties, EmptySeq DEF Tokens
<1>2. \A k \in 1..Len(n) : n[k] \in STRING
  BY ElementOfSeq DEF Tokens
<1>3. ASSUME Len(n) # 0 PROVE Len(Front(n)) = Len(n) - 1
  <2>1. \A k \in 1..Len(n)-1 : n[k] \in STRING
    BY <1>1, <1>2
  <2>2. PICK l \in Nat : l = Len(n)-1
    <3>1. \A k \in Nat : k # 0 => k - 1 \in Nat
      OBVIOUS
    <3> QED BY <1>1, <1>3, <3>1
  <2>3. Len(SubSeq(n, 1, l)) = l
    BY <2>1, <2>2, SubSeqProperties
  <2> QED BY <2>2, <2>3 DEF Front
<1>4. SubSeq(node, 1, Len(node)) = node
  BY SubSeqFull DEF Tokens
<1>5. ASSUME n # <<>>, Front(n) = node PROVE Len(n) = Len(node) + 1 /\ IsPrefix(node, n)
  <2>1. Len(node) = Len(n) - 1
    BY <1>1, <1>3, <1>5
  <2>2. SubSeq(node, 1, Len(node)) = SubSeq(n, 1, Len(node))
    BY <1>4, <1>5, <2>1 DEF Front
  <2> QED BY <1>1, <2>1, <2>2 DEF IsPrefix
<1>6. ASSUME Len(n) = Len(node) + 1, IsPrefix(node, n) PROVE n # <<>> /\ Front(n) = node
  <2>1. node = SubSeq(n, 1, Len(node)) /\ Len(n) - 1 = Len(node)
    BY <1>1, <1>4, <1>6 DEF IsPrefix
  <2> QED BY <1>1, <1>6, <2>1 DEF Front
<1> QED BY <1>5, <1>6

\* A node with another below it has a child on the way there.
LEMMA ChildOnTheWay ==
    ASSUME NEW t, Tree(t), NEW node \in DOMAIN t, NEW below \in DOMAIN t,
           IsPrefix(node, below), node # below
    PROVE  \E child \in Children(t, node) : IsPrefix(child, below)
<1> DEFINE child == Append(node, below[Len(node)+1])
<1>1. node \in Tokens /\ below \in Tokens
  BY DEF Tree
<1>2. below[Len(node)+1] \in Fields /\ child \in Tokens /\ IsPrefix(child, below)
  BY <1>1, NextNode
<1>3. Len(child) = Len(node) + 1 /\ IsPrefix(node, child)
  BY <1>1, <1>2, NextNode
<1>4. child \in DOMAIN t
  BY <1>2 DEF Tree
<1> HIDE DEF child
<1>5. child \in Children(t, node)
  BY <1>1, <1>2, <1>3, <1>4, ChildIsLonger DEF Children
<1> QED BY <1>2, <1>5

\* The nodes of the path that lead to nothing but nodes of the path without
\* clients.
Lost(u, tokens) ==
    {node \in Prefixes(tokens) :
        \A below \in DOMAIN u : IsPrefix(node, below) => below \in Prefixes(tokens) /\ u[below] = {}}

\* What stays when those longer than a given node go.
KeptBelow(u, tokens, node) ==
    {m \in DOMAIN u : \A gone \in Lost(u, tokens) : Len(gone) > Len(node) => ~IsPrefix(gone, m)}

TrieBelow(u, tokens, node) == [m \in KeptBelow(u, tokens, node) |-> u[m]]

Erased(t, tokens, client) == [t EXCEPT ![tokens] = @ \ {client}]

\* The calls for a pattern that is there.
Removed(t, tokens, client) ==
    [node \in Prefixes(tokens) \cap DOMAIN t |->
        [trie  |-> TrieBelow(Erased(t, tokens, client), tokens, node),
         prune |-> node \in Lost(Erased(t, tokens, client), tokens)]]

\* The end of the path is lost if its node is empty.
LEMMA LostAtTheEnd ==
    ASSUME NEW u, Tree(u), NEW tokens \in DOMAIN u
    PROVE  /\ KeptBelow(u, tokens, tokens) = DOMAIN u
           /\ tokens \in Lost(u, tokens) <=> u[tokens] = {} /\ Children(u, tokens) = {}
<1>1. /\ DOMAIN u \subseteq Tokens /\ tokens \in Tokens /\ tokens \in Prefixes(tokens)
      /\ IsPrefix(tokens, tokens)
      /\ \A n \in DOMAIN u : Len(n) \in Nat
  BY PrefixesOf, PrefixOrder, LenProperties DEF Tree, Tokens
<1>2. \A p \in Prefixes(tokens) : p \in Tokens /\ IsPrefix(p, tokens) /\ Len(p) <= Len(tokens)
  BY <1>1, PrefixesOf, PrefixByTokens
<1>3. KeptBelow(u, tokens, tokens) = DOMAIN u
  <2>1. \A gone \in Lost(u, tokens) : ~(Len(gone) > Len(tokens))
    BY <1>1, <1>2, LenProperties DEF Lost, Tokens
  <2> QED BY <2>1 DEF KeptBelow
<1>4. ASSUME tokens \in Lost(u, tokens), NEW child \in Children(u, tokens) PROVE FALSE
  <2>1. child \in DOMAIN u /\ Len(child) = Len(tokens) + 1 /\ IsPrefix(tokens, child)
    BY <1>1, ChildIsLonger DEF Children
  <2>2. child \in Prefixes(tokens)
    BY <1>4, <2>1 DEF Lost
  <2> QED BY <1>1, <1>2, <2>1, <2>2
<1>5. ASSUME u[tokens] = {}, Children(u, tokens) = {} PROVE tokens \in Lost(u, tokens)
  <2>1. \A below \in DOMAIN u : IsPrefix(tokens, below) => below = tokens
    BY <1>5, ChildOnTheWay
  <2> QED BY <1>1, <1>5, <2>1 DEF Lost
<1> QED BY <1>1, <1>3, <1>4, <1>5 DEF Lost

\* A node on the path and its child there: which of them are lost, and what the
\* deletion of a lost child leaves.
LEMMA LostOnThePath ==
    ASSUME NEW u, Tree(u), NEW tokens \in DOMAIN u,
           NEW node \in Prefixes(tokens), NEW child \in Prefixes(tokens),
           Len(child) = Len(node) + 1
    PROVE  /\ child \notin Lost(u, tokens) =>
                /\ node \notin Lost(u, tokens)
                /\ KeptBelow(u, tokens, node) = KeptBelow(u, tokens, child)
           /\ child \in Lost(u, tokens) =>
                /\ KeptBelow(u, tokens, node) =
                      {m \in KeptBelow(u, tokens, child) : ~IsPrefix(child, m)}
                /\ node \in KeptBelow(u, tokens, node)
                /\ node \in Lost(u, tokens) <=>
                      /\ u[node] = {}
                      /\ {n \in KeptBelow(u, tokens, node) : n # <<>> /\ Front(n) = node} = {}
<1>1. /\ DOMAIN u \subseteq Tokens /\ tokens \in Tokens
      /\ \A n \in Tokens : Len(n) \in Nat
  BY LenProperties DEF Tree, Tokens
<1>2. \A p \in Prefixes(tokens) : p \in Tokens /\ IsPrefix(p, tokens) /\ p \in DOMAIN u
  BY <1>1, PrefixesOf DEF Tree
<1>3. \A p, q \in Prefixes(tokens) :
          /\ Len(p) <= Len(q) => IsPrefix(p, q)
          /\ Len(p) = Len(q) => p = q
  <2>1. \A p, q \in Prefixes(tokens) : Len(p) <= Len(q) => IsPrefix(p, q)
    BY <1>1, <1>2, OnePath
  <2>2. \A p, q \in Prefixes(tokens) : Len(p) = Len(q) => Len(p) <= Len(q)
    BY <1>1, <1>2
  <2> QED BY <1>1, <1>2, <2>1, <2>2, NextNode
<1>4. Lost(u, tokens) \subseteq Prefixes(tokens)
  BY DEF Lost
<1>5. IsPrefix(node, child)
  BY <1>1, <1>2, <1>3
<1>6. \A gone \in Lost(u, tokens) :
          Len(gone) > Len(node) <=> Len(gone) > Len(child) \/ gone = child
  <2>1. \A gone \in Lost(u, tokens) : gone = child <=> Len(gone) = Len(child)
    BY <1>3, <1>4
  <2>2. \A gone \in Lost(u, tokens) : Len(gone) \in Nat
    BY <1>1, <1>2, <1>4
  <2> QED BY <1>1, <1>2, <2>1, <2>2
<1>7. \A n \in Tokens, m \in Tokens : IsPrefix(n, m) => Len(n) <= Len(m)
  BY PrefixByTokens
<1>8. ASSUME child \notin Lost(u, tokens)
      PROVE  /\ node \notin Lost(u, tokens)
             /\ KeptBelow(u, tokens, node) = KeptBelow(u, tokens, child)
  <2>1. PICK below \in DOMAIN u :
            IsPrefix(child, below) /\ ~(below \in Prefixes(tokens) /\ u[below] = {})
    BY <1>8 DEF Lost
  <2>2. IsPrefix(node, below)
    BY <1>1, <1>2, <1>5, <2>1, PrefixOrder
  <2>3. node \notin Lost(u, tokens)
    BY <2>1, <2>2 DEF Lost
  <2>4. KeptBelow(u, tokens, node) = KeptBelow(u, tokens, child)
    BY <1>6, <1>8 DEF KeptBelow
  <2> QED BY <2>3, <2>4
<1>9. ASSUME child \in Lost(u, tokens)
      PROVE  /\ KeptBelow(u, tokens, node) =
                      {m \in KeptBelow(u, tokens, child) : ~IsPrefix(child, m)}
             /\ node \in KeptBelow(u, tokens, node)
             /\ node \in Lost(u, tokens) <=>
                      /\ u[node] = {}
                      /\ {n \in KeptBelow(u, tokens, node) : n # <<>> /\ Front(n) = node} = {}
  <2>1. KeptBelow(u, tokens, node) = {m \in KeptBelow(u, tokens, child) : ~IsPrefix(child, m)}
    BY <1>6, <1>9 DEF KeptBelow
  <2>2. node \in KeptBelow(u, tokens, node)
    <3>1. \A gone \in Lost(u, tokens) : Len(gone) > Len(node) => ~IsPrefix(gone, node)
      BY <1>1, <1>2, <1>4, <1>7
    <3> QED BY <1>2, <3>1 DEF KeptBelow
  <2>3. ASSUME node \in Lost(u, tokens)
        PROVE  /\ u[node] = {}
               /\ {n \in KeptBelow(u, tokens, node) : n # <<>> /\ Front(n) = node} = {}
    <3>1. u[node] = {}
      BY <1>1, <1>2, <2>3, PrefixOrder DEF Lost
    <3>2. ASSUME NEW n \in KeptBelow(u, tokens, node), n # <<>>, Front(n) = node PROVE FALSE
      <4>1. n \in DOMAIN u /\ ~IsPrefix(child, n)
        BY <2>1, <3>2 DEF KeptBelow
      <4>2. Len(n) = Len(node) + 1 /\ IsPrefix(node, n)
        BY <1>1, <1>2, <3>2, <4>1, ChildIsLonger
      <4>3. n \in Prefixes(tokens)
        BY <2>3, <4>1, <4>2 DEF Lost
      <4>4. n = child
        BY <1>3, <4>2, <4>3
      <4> QED BY <1>1, <1>2, <4>1, <4>4, PrefixOrder
    <3> QED BY <3>1, <3>2
  <2>4. ASSUME u[node] = {},
               {n \in KeptBelow(u, tokens, node) : n # <<>> /\ Front(n) = node} = {}
        PROVE  node \in Lost(u, tokens)
    <3> SUFFICES ASSUME NEW below \in DOMAIN u, IsPrefix(node, below)
                 PROVE  below \in Prefixes(tokens) /\ u[below] = {}
      BY DEF Lost
    <3>1. CASE below = node
      BY <2>4, <3>1
    <3>2. CASE below # node
      <4>1. PICK n \in Children(u, node) : IsPrefix(n, below)
        BY <1>2, <3>2, ChildOnTheWay
      <4>2. /\ n \in DOMAIN u /\ n # <<>> /\ Front(n) = node
            /\ Len(n) = Len(node) + 1 /\ IsPrefix(node, n)
        BY <1>1, <1>2, ChildIsLonger DEF Children
      <4>3. n \notin KeptBelow(u, tokens, node)
        BY <2>4, <4>2
      <4>4. PICK gone \in Lost(u, tokens) : Len(gone) > Len(node) /\ IsPrefix(gone, n)
        BY <4>2, <4>3 DEF KeptBelow
      <4>5. gone = child /\ n = child
        <5>1. n \in Tokens /\ gone \in Tokens /\ gone \in Prefixes(tokens)
          BY <1>1, <1>2, <1>4, <4>2, <4>4
        <5>2. Len(gone) <= Len(n)
          BY <1>7, <4>4, <5>1
        <5>3. Len(gone) = Len(n) /\ Len(gone) = Len(child)
          BY <1>1, <1>2, <4>2, <4>4, <5>1, <5>2
        <5>4. gone = child
          BY <1>3, <5>1, <5>3
        <5>5. gone = n
          BY <4>4, <5>1, <5>3, NextNode
        <5> QED BY <5>4, <5>5
      <4> QED BY <1>9, <4>1, <4>5 DEF Lost
    <3> QED BY <3>1, <3>2
  <2> QED BY <2>1, <2>2, <2>3, <2>4
<1> QED BY <1>8, <1>9

\* What calls for the nodes of the path give, one call by the next one's.
Removes(f, t, tokens, client) ==
    f = [node \in Prefixes(tokens) \cap DOMAIN t |-> remove_recursive(f, t, tokens, client, node)]

\* The next node of the path, if it is there.
LEMMA NextOnThePath ==
    ASSUME NEW tokens \in Tokens, NEW node \in Prefixes(tokens), node # tokens
    PROVE  /\ Append(node, tokens[Len(node)+1]) \in Prefixes(tokens)
           /\ Len(Append(node, tokens[Len(node)+1])) = Len(node) + 1
           /\ Len(node) \in Nat /\ Len(node) < Len(tokens)
<1>1. node \in Tokens /\ IsPrefix(node, tokens)
  BY PrefixesOf
<1>2. /\ tokens[Len(node)+1] \in Fields /\ Append(node, tokens[Len(node)+1]) \in Tokens
      /\ IsPrefix(Append(node, tokens[Len(node)+1]), tokens)
      /\ Len(node) < Len(tokens)
  BY <1>1, NextNode
<1>3. Append(node, tokens[Len(node)+1]) \in Prefixes(tokens)
  BY <1>2, PrefixesOf
<1>4. Len(Append(node, tokens[Len(node)+1])) = Len(node) + 1
  BY <1>1, <1>2, NextNode
<1> QED BY <1>1, <1>2, <1>3, <1>4, LenProperties DEF Tokens

\* Where the pattern is not in the trie, every call leaves it as it was.
LEMMA NothingRemoved ==
    ASSUME NEW t, Tree(t), NEW tokens \in Tokens, NEW client, tokens \notin DOMAIN t
    PROVE  Removes([node \in Prefixes(tokens) \cap DOMAIN t |-> [trie |-> t, prune |-> FALSE]],
                   t, tokens, client)
<1> DEFINE f == [node \in Prefixes(tokens) \cap DOMAIN t |-> [trie |-> t, prune |-> FALSE]]
<1>1. \A node \in Prefixes(tokens) \cap DOMAIN t : f[node].trie = t /\ f[node].prune = FALSE
  OBVIOUS
<1> HIDE DEF f
<1>2. ASSUME NEW node \in Prefixes(tokens) \cap DOMAIN t
      PROVE  remove_recursive(f, t, tokens, client, node) = [trie |-> t, prune |-> FALSE]
  <2> DEFINE child == Append(node, tokens[Len(node)+1])
  <2>1. node # tokens /\ child \in Prefixes(tokens)
    BY NextOnThePath
  <2> HIDE DEF child
  <2>2. CASE child \notin DOMAIN t
    BY <2>1, <2>2 DEF remove_recursive, child
  <2>3. CASE child \in DOMAIN t
    <3>1. f[child].trie = t /\ f[child].prune = FALSE
      BY <1>1, <2>1, <2>3
    <3> QED BY <2>1, <2>3, <3>1 DEF remove_recursive, child
  <2> QED BY <2>2, <2>3
<1> QED BY <1>2, Zenon DEF Removes, f

\* Where it is, they erase, prune and delete as Removed says.
LEMMA RemovedRemoves ==
    ASSUME NEW t, Tree(t), t = [n \in DOMAIN t |-> t[n]], NEW tokens \in DOMAIN t, NEW client
    PROVE  Removes(Removed(t, tokens, client), t, tokens, client)
<1> DEFINE u == Erased(t, tokens, client)
           f == Removed(t, tokens, client)
<1>1. /\ DOMAIN u = DOMAIN t /\ u = [n \in DOMAIN u |-> u[n]] /\ Tree(u)
      /\ tokens \in Tokens /\ tokens \in Prefixes(tokens)
      /\ Prefixes(tokens) \subseteq DOMAIN t
  <2>1. tokens \in Tokens
    BY DEF Tree
  <2>2. DOMAIN u = DOMAIN t /\ u = [n \in DOMAIN u |-> u[n]]
    BY DEF Erased
  <2> HIDE DEF u
  <2> QED BY <2>1, <2>2, PrefixesOf DEF Tree
<1>2. \A node \in Prefixes(tokens) :
          f[node].trie = TrieBelow(u, tokens, node) /\ f[node].prune = (node \in Lost(u, tokens))
  BY <1>1 DEF Removed
<1>3. \A v, n : Children(v, n) = {m \in DOMAIN v : m # <<>> /\ Front(m) = n}
  BY DEF Children
<1> HIDE DEF f
<1>4. ASSUME NEW node \in Prefixes(tokens)
      PROVE  remove_recursive(f, t, tokens, client, node) =
                [trie |-> TrieBelow(u, tokens, node), prune |-> node \in Lost(u, tokens)]
  <2> DEFINE child   == Append(node, tokens[Len(node)+1])
             deleted == [n \in {m \in DOMAIN f[child].trie : ~IsPrefix(child, m)} |->
                            f[child].trie[n]]
  <2>1. CASE node = tokens
    <3>1. remove_recursive(f, t, tokens, client, node) =
              [trie |-> u, prune |-> u[node] = {} /\ Children(u, node) = {}]
      BY <2>1 DEF remove_recursive, Erased
    <3> HIDE DEF u
    <3>2. TrieBelow(u, tokens, node) = u
      BY <1>1, <2>1, LostAtTheEnd DEF TrieBelow
    <3>3. (u[node] = {} /\ Children(u, node) = {}) = (node \in Lost(u, tokens))
      BY <1>1, <2>1, LostAtTheEnd
    <3> QED BY <3>1, <3>2, <3>3
  <2>2. CASE node # tokens
    <3>1. child \in Prefixes(tokens) /\ child \in DOMAIN t /\ Len(child) = Len(node) + 1
      BY <1>1, <2>2, NextOnThePath
    <3>2. f[child].trie = TrieBelow(u, tokens, child) /\ f[child].prune = (child \in Lost(u, tokens))
      BY <1>2, <3>1
    <3>3. CASE child \notin Lost(u, tokens)
      <4>1. remove_recursive(f, t, tokens, client, node) = [trie |-> f[child].trie, prune |-> FALSE]
        BY <2>2, <3>1, <3>2, <3>3 DEF remove_recursive
      <4> HIDE DEF u, child
      <4>2. node \notin Lost(u, tokens) /\ KeptBelow(u, tokens, node) = KeptBelow(u, tokens, child)
        BY <1>1, <3>1, <3>3, LostOnThePath
      <4>3. TrieBelow(u, tokens, node) = f[child].trie
        BY <3>2, <4>2 DEF TrieBelow
      <4>4. (node \in Lost(u, tokens)) = FALSE
        BY <4>2
      <4> QED BY <4>1, <4>3, <4>4
    <3>4. CASE child \in Lost(u, tokens)
      <4>1. remove_recursive(f, t, tokens, client, node) =
                [trie |-> deleted, prune |-> deleted[node] = {} /\ Children(deleted, node) = {}]
        BY <2>2, <3>1, <3>2, <3>4 DEF remove_recursive
      <4> HIDE DEF u, child
      <4>2. /\ KeptBelow(u, tokens, node) = {m \in KeptBelow(u, tokens, child) : ~IsPrefix(child, m)}
            /\ node \in KeptBelow(u, tokens, node)
            /\ node \in Lost(u, tokens) <=>
                      /\ u[node] = {}
                      /\ {n \in KeptBelow(u, tokens, node) : n # <<>> /\ Front(n) = node} = {}
        BY <1>1, <3>1, <3>4, LostOnThePath
      <4>3. deleted = TrieBelow(u, tokens, node)
        BY <3>2, <4>2 DEF TrieBelow
      <4>4. DOMAIN deleted = KeptBelow(u, tokens, node) /\ deleted[node] = u[node]
        BY <4>2, <4>3 DEF TrieBelow
      <4> HIDE DEF deleted
      <4>5. (deleted[node] = {} /\ Children(deleted, node) = {}) = (node \in Lost(u, tokens))
        BY <1>3, <4>2, <4>4
      <4> QED BY <4>1, <4>3, <4>5
    <3> QED BY <3>3, <3>4
  <2> QED BY <2>1, <2>2
<1>5. f = [node \in Prefixes(tokens) \cap DOMAIN t |->
              [trie |-> TrieBelow(u, tokens, node), prune |-> node \in Lost(u, tokens)]]
  BY DEF Removed, f
<1> HIDE DEF u
<1> QED BY <1>4, <1>5, Zenon DEF Removes, f

\* And there is no other: it is settled from the end of the path up.
LEMMA RemovesOne ==
    ASSUME NEW t, Tree(t), NEW tokens \in Tokens, NEW client,
           NEW f, NEW g, Removes(f, t, tokens, client), Removes(g, t, tokens, client)
    PROVE  f = g
<1> DEFINE Height(node) == Len(tokens) - Len(node)
           Apart == {h \in Nat : \E node \in Prefixes(tokens) \cap DOMAIN t :
                                    h = Height(node) /\ f[node] # g[node]}
<1>1. \A node \in Prefixes(tokens) : Height(node) \in Nat
  BY PrefixesOf, PrefixByTokens, LenProperties DEF Tokens
<1>2. \A node \in Prefixes(tokens) \cap DOMAIN t :
          /\ f[node] = remove_recursive(f, t, tokens, client, node)
          /\ g[node] = remove_recursive(g, t, tokens, client, node)
  BY Zenon DEF Removes
<1>3. Apart = {}
  <2> SUFFICES ASSUME Apart # {} PROVE FALSE
    OBVIOUS
  <2>1. PICK h \in Apart : \A k \in Apart : h <= k
    <3>1. Apart \subseteq Nat
      OBVIOUS
    <3> HIDE DEF Apart
    <3> QED BY <3>1, Least
  <2>2. PICK node \in Prefixes(tokens) \cap DOMAIN t : h = Height(node) /\ f[node] # g[node]
    OBVIOUS
  <2> DEFINE child == Append(node, tokens[Len(node)+1])
  <2>3. ASSUME node # tokens, child \in DOMAIN t PROVE f[child] = g[child]
    <3>1. /\ child \in Prefixes(tokens) /\ Len(child) = Len(node) + 1 /\ Len(node) \in Nat
          /\ Len(tokens) \in Nat
      BY <2>3, NextOnThePath, LenProperties DEF Tokens
    <3> HIDE DEF child
    <3>2. Height(child) \in Nat /\ Height(child) < h
      BY <1>1, <2>2, <3>1
    <3>3. Height(child) \notin Apart
      <4>1. h \in Nat
        OBVIOUS
      <4> HIDE DEF Apart, Height
      <4> QED BY <2>1, <3>2, <4>1
    <3> HIDE DEF Height
    <3> QED BY <2>3, <3>1, <3>2, <3>3
  <2>4. remove_recursive(f, t, tokens, client, node) = remove_recursive(g, t, tokens, client, node)
    <3>1. CASE node = tokens
      BY <3>1, Zenon DEF remove_recursive
    <3>2. CASE node # tokens /\ child \notin DOMAIN t
      BY <3>2 DEF remove_recursive
    <3>3. CASE node # tokens /\ child \in DOMAIN t
      <4>1. f[child] = g[child]
        BY <2>3, <3>3
      <4> QED BY <4>1, <3>3, Zenon DEF remove_recursive
    <3> QED BY <3>1, <3>2, <3>3
  <2> QED BY <1>2, <2>2, <2>4, Zenon
<1>4. \A node \in Prefixes(tokens) \cap DOMAIN t : f[node] = g[node]
  <2> SUFFICES ASSUME NEW node \in Prefixes(tokens) \cap DOMAIN t, f[node] # g[node] PROVE FALSE
    OBVIOUS
  <2>1. Height(node) \in Nat
    BY <1>1
  <2> HIDE DEF Height
  <2> QED BY <1>3, <2>1
<1>5. /\ f = [node \in Prefixes(tokens) \cap DOMAIN t |-> f[node]]
      /\ g = [node \in Prefixes(tokens) \cap DOMAIN t |-> g[node]]
  BY Zenon DEF Removes
<1> QED BY <1>4, <1>5, Zenon

\* What remove_subscription leaves: the recursion's result at the root.
LEMMA RemoveFromIs ==
    ASSUME NEW t, Tree(t), NEW tokens \in Tokens, NEW client,
           NEW f, Removes(f, t, tokens, client)
    PROVE  RemoveFrom(t, tokens, client) = f[<<>>].trie
<1> DEFINE Solves(g) == Removes(g, t, tokens, client)
           chosen == CHOOSE g : Solves(g)
<1>1. Solves(chosen)
  <2>1. Solves(f)
    OBVIOUS
  <2> HIDE DEF Solves
  <2> QED BY <2>1
<1>2. RemoveFrom(t, tokens, client) = chosen[<<>>].trie
  BY Zenon DEF RemoveFrom, Removes
<1>3. chosen = f
  <2> HIDE DEF chosen
  <2> QED BY <1>1, RemovesOne
<1> HIDE DEF chosen
<1> QED BY <1>2, <1>3

\* remove_subscription leaves, by its recursion, the trie RemoveSubscription
\* states: it prunes back up the path as far as nothing is left in a node or
\* below it, and no further, in every trie that calls of add_subscription and
\* remove_subscription build (TopicTrie.cpp:45-48, 87-104).
THEOREM RemoveIsRemoveFrom == Spec => []RemoveAgrees
<1>1. TypeOK /\ TrieShape => RemoveAgrees
  <2> SUFFICES ASSUME TypeOK, TrieShape, NEW pattern \in Patterns, NEW client \in Clients
               PROVE  RemoveSubscription(trie, pattern, client) =
                        RemoveFrom(trie, SplitTopic(pattern), client)
    BY DEF RemoveAgrees
  <2>1. Tree(trie) /\ <<>> \in DOMAIN trie /\ trie = [n \in DOMAIN trie |-> trie[n]]
    BY TrieIsTree DEF TypeOK, TrieShape
  <2>2. PICK tokens \in Tokens : tokens = SplitTopic(pattern)
    BY NodesAreTokens DEF Paths
  <2>3. <<>> \in Prefixes(tokens) /\ \A p \in Prefixes(tokens) : p \in Tokens
    BY PrefixesOf
  <2>4. CASE tokens \notin DOMAIN trie
    <3>1. RemoveFrom(trie, tokens, client) = trie
      <4> DEFINE f == [node \in Prefixes(tokens) \cap DOMAIN trie |-> [trie |-> trie, prune |-> FALSE]]
      <4>1. Removes(f, trie, tokens, client)
        BY <2>1, <2>4, NothingRemoved
      <4>2. f[<<>>].trie = trie
        BY <2>1, <2>3
      <4> HIDE DEF f
      <4> QED BY <2>1, <4>1, <4>2, RemoveFromIs
    <3> QED BY <2>2, <2>4, <3>1 DEF RemoveSubscription
  <2>5. CASE tokens \in DOMAIN trie
    <3> DEFINE u == Erased(trie, tokens, client)
               kept == {node \in DOMAIN trie : \A gone \in Pruned(u, tokens) : ~IsPrefix(gone, node)}
    <3>1. RemoveSubscription(trie, pattern, client) = [node \in kept |-> u[node]]
      BY <2>2, <2>5 DEF RemoveSubscription, Erased
    <3>2. RemoveFrom(trie, tokens, client) = TrieBelow(u, tokens, <<>>)
      <4>1. RemoveFrom(trie, tokens, client) = Removed(trie, tokens, client)[<<>>].trie
        BY <2>1, <2>5, RemovedRemoves, RemoveFromIs
      <4> QED BY <2>1, <2>3, <4>1 DEF Removed
    <3>3. DOMAIN u = DOMAIN trie
      BY DEF Erased
    <3> HIDE DEF u
    <3>4. Pruned(u, tokens) = Lost(u, tokens) \ {<<>>}
      BY DEF Pruned, Lost
    <3>5. \A gone \in Lost(u, tokens) : Len(gone) > Len(<<>>) <=> gone # <<>>
      BY <2>3, LenProperties, EmptySeq DEF Lost, Tokens
    <3>6. kept = KeptBelow(u, tokens, <<>>)
      BY <3>3, <3>4, <3>5 DEF KeptBelow
    <3> QED BY <2>2, <3>1, <3>2, <3>6 DEF TrieBelow
  <2> QED BY <2>4, <2>5
<1> QED BY <1>1, TypeCorrect, ShapeCorrect, PTL

==============================================================================
