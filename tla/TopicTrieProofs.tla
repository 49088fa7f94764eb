--------------------------- MODULE TopicTrieProofs ---------------------------
(***************************************************************************)
(* Proofs about TopicTrie, for any patterns and any clients: its type, the *)
(* shape pruning keeps, and that it implements the table of subscriptions. *)
(***************************************************************************)
EXTENDS TopicTrie, SequenceTheorems, TLAPS

Tokens == Seq(STRING)

------------------------------------------------------------------------------
(* Prefixes of token sequences *)

\* Splitting a topic yields a sequence of tokens.
LEMMA SplitIsTokens ==
    ASSUME NEW topic \in Tokens, topic # <<>>
    PROVE  SplitTopic(topic) \in Tokens
<1>1. Len(topic) \in Nat /\ Len(topic) # 0
  BY EmptySeq DEF Tokens
<1>2. \A k \in 1..Len(topic)-1 : topic[k] \in STRING
  BY <1>1, ElementOfSeq DEF Tokens
<1>3. Front(topic) \in Tokens
  BY <1>1, <1>2, SubSeqProperties DEF Front, Tokens
<1> QED BY <1>3 DEF SplitTopic

\* The prefixes in Prefixes are the token sequences that IsPrefix accepts.
LEMMA PrefixesOf ==
    ASSUME NEW s \in Tokens
    PROVE  /\ \A p \in Prefixes(s) : p \in Tokens /\ IsPrefix(p, s)
           /\ \A p \in Tokens : IsPrefix(p, s) => p \in Prefixes(s)
           /\ s \in Prefixes(s) /\ <<>> \in Prefixes(s)
<1>1. ASSUME NEW n \in 0..Len(s)
      PROVE  SubSeq(s, 1, n) \in Tokens /\ Len(SubSeq(s, 1, n)) = n
             /\ \A k \in 1..n : SubSeq(s, 1, n)[k] = s[k]
  <2>1. \A k \in 1..n : s[k] \in STRING
    BY ElementOfSeq, LenProperties DEF Tokens
  <2> QED BY <2>1, SubSeqProperties DEF Tokens
<1>2. ASSUME NEW n \in 0..Len(s)
      PROVE  IsPrefix(SubSeq(s, 1, n), s)
  <2>1. SubSeq(SubSeq(s, 1, n), 1, n) = SubSeq(s, 1, n)
    BY <1>1, SubSeqFull DEF Tokens
  <2> QED BY <1>1, <2>1, LenProperties DEF IsPrefix, Tokens
<1>3. ASSUME NEW p \in Tokens, IsPrefix(p, s)
      PROVE  p \in Prefixes(s)
  <2>1. p = SubSeq(s, 1, Len(p)) /\ Len(p) \in 0..Len(s)
    BY <1>3, SubSeqFull, LenProperties DEF IsPrefix, Tokens
  <2> QED BY <2>1 DEF Prefixes
<1>4. s \in Prefixes(s)
  BY SubSeqFull, LenProperties DEF Prefixes, Tokens
<1>5. <<>> \in Prefixes(s)
  BY SubSeqEmpty, LenProperties DEF Prefixes, Tokens
<1> QED BY <1>1, <1>2, <1>3, <1>4, <1>5 DEF Prefixes

\* One sequence is a prefix of another if their tokens agree as far as it goes.
LEMMA PrefixByTokens ==
    ASSUME NEW s \in Tokens, NEW t \in Tokens
    PROVE  IsPrefix(s, t) <=> Len(s) <= Len(t) /\ \A k \in 1..Len(s) : s[k] = t[k]
<1>1. ASSUME Len(s) <= Len(t)
      PROVE  /\ SubSeq(s, 1, Len(s)) = s
             /\ SubSeq(t, 1, Len(s)) \in Tokens
             /\ Len(SubSeq(t, 1, Len(s))) = Len(s)
             /\ \A k \in 1..Len(s) : SubSeq(t, 1, Len(s))[k] = t[k]
  <2>1. \A k \in 1..Len(s) : t[k] \in STRING
    BY <1>1, ElementOfSeq, LenProperties DEF Tokens
  <2>2. Len(s) \in Nat
    BY LenProperties DEF Tokens
  <2> QED BY <2>1, <2>2, SubSeqFull, SubSeqProperties DEF Tokens
<1> QED BY <1>1, SeqEqual DEF IsPrefix, Tokens

\* IsPrefix is a partial order on token sequences.
LEMMA PrefixOrder ==
    ASSUME NEW p \in Tokens, NEW q \in Tokens, NEW r \in Tokens
    PROVE  /\ IsPrefix(p, p)
           /\ IsPrefix(p, q) /\ IsPrefix(q, r) => IsPrefix(p, r)
           /\ IsPrefix(p, <<>>) => p = <<>>
<1>1. \A s, t \in Tokens :
          IsPrefix(s, t) <=> Len(s) <= Len(t) /\ \A k \in 1..Len(s) : s[k] = t[k]
  BY PrefixByTokens
<1>2. Len(p) \in Nat /\ Len(q) \in Nat /\ Len(r) \in Nat /\ <<>> \in Tokens /\ Len(<<>>) = 0
  BY LenProperties, EmptySeq DEF Tokens
<1>3. IsPrefix(p, p)
  BY <1>1, <1>2
<1>4. IsPrefix(p, q) /\ IsPrefix(q, r) => IsPrefix(p, r)
  BY <1>1, <1>2
<1>5. IsPrefix(p, <<>>) => p = <<>>
  <2>1. IsPrefix(p, <<>>) => Len(p) <= 0
    BY <1>1, <1>2
  <2>2. p # <<>> => Len(p) # 0
    BY EmptySeq DEF Tokens
  <2> QED BY <2>1, <2>2, <1>2
<1> QED BY <1>3, <1>4, <1>5

------------------------------------------------------------------------------
(* The nodes of the trie *)

\* Paths and nodes are token sequences; a path and its prefixes are nodes.
LEMMA NodesAreTokens ==
    /\ Paths \subseteq Tokens
    /\ Nodes \subseteq Tokens
    /\ \A path \in Paths : Prefixes(path) \subseteq Nodes
    /\ <<>> \in Nodes
<1>1. Paths \subseteq Tokens
  BY SplitIsTokens, PatternsAssumption DEF Paths, Tokens
<1>2. <<>> \in Tokens
  BY EmptySeq DEF Tokens
<1>3. \A path \in Paths : Prefixes(path) \subseteq Tokens
  BY <1>1, PrefixesOf
<1> QED BY <1>1, <1>2, <1>3 DEF Nodes

\* Adding creates the path and changes the client set at its end only.
LEMMA AddResult ==
    ASSUME TypeOK, NEW pattern \in Patterns, NEW client \in Clients, Add(pattern, client)
    PROVE  /\ SplitTopic(pattern) \in Paths
           /\ DOMAIN trie' = DOMAIN trie \cup Prefixes(SplitTopic(pattern))
           /\ SplitTopic(pattern) \in DOMAIN trie'
           /\ trie' = [node \in DOMAIN trie' |-> trie'[node]]
           /\ trie'[SplitTopic(pattern)] = IdsAt(trie, SplitTopic(pattern)) \cup {client}
           /\ \A node \in DOMAIN trie' \ {SplitTopic(pattern)} : trie'[node] = IdsAt(trie, node)
<1> DEFINE tokens == SplitTopic(pattern)
<1>1. tokens \in Paths /\ tokens \in Prefixes(tokens)
  BY NodesAreTokens, PrefixesOf DEF Paths
<1>2. trie' = [node \in DOMAIN trie \cup Prefixes(tokens) |->
                 IF node = tokens THEN IdsAt(trie, node) \cup {client} ELSE IdsAt(trie, node)]
  BY DEF Add, AddSubscription
<1> HIDE DEF tokens
<1>3. /\ DOMAIN trie' = DOMAIN trie \cup Prefixes(tokens)
      /\ tokens \in DOMAIN trie'
      /\ trie' = [node \in DOMAIN trie' |-> trie'[node]]
      /\ trie'[tokens] = IdsAt(trie, tokens) \cup {client}
      /\ \A node \in DOMAIN trie' \ {tokens} : trie'[node] = IdsAt(trie, node)
  BY <1>1, <1>2
<1> QED BY <1>1, <1>3 DEF tokens

\* What a removal leaves at a node, and the nodes it finds dead.
Left(pattern, client, node) ==
    IF node = SplitTopic(pattern) THEN trie[node] \ {client} ELSE trie[node]

Dead(pattern, client) ==
    {node \in Prefixes(SplitTopic(pattern)) \ {<<>>} :
        \A below \in DOMAIN trie :
            IsPrefix(node, below) =>
                below \in Prefixes(SplitTopic(pattern)) /\ Left(pattern, client, below) = {}}

\* Removing drops the dead nodes with all below them, erases the client at the
\* end of the path and changes no other node.
LEMMA DropResult ==
    ASSUME TypeOK, NEW pattern \in Patterns, NEW client \in Clients, Drop(pattern, client)
    PROVE  /\ SplitTopic(pattern) \in Paths
           /\ SplitTopic(pattern) \notin DOMAIN trie => trie' = trie
           /\ SplitTopic(pattern) \in DOMAIN trie =>
                 /\ DOMAIN trie' = {node \in DOMAIN trie :
                                      \A gone \in Dead(pattern, client) : ~IsPrefix(gone, node)}
                 /\ trie' = [node \in DOMAIN trie' |-> trie'[node]]
                 /\ \A node \in DOMAIN trie' : trie'[node] = Left(pattern, client, node)
<1> DEFINE tokens == SplitTopic(pattern)
           erased == [trie EXCEPT ![tokens] = @ \ {client}]
           kept(dead) == {node \in DOMAIN trie : \A gone \in dead : ~IsPrefix(gone, node)}
<1>1. tokens \in Paths
  BY DEF Paths
<1>2. trie' = IF tokens \in DOMAIN trie
                 THEN [node \in kept(Pruned(erased, tokens)) |-> erased[node]] ELSE trie
  BY DEF Drop, RemoveSubscription
<1>3. trie = [node \in DOMAIN trie |-> trie[node]]
  BY DEF TypeOK
<1>4. /\ DOMAIN erased = DOMAIN trie
      /\ \A node \in DOMAIN trie : erased[node] = Left(pattern, client, node)
  BY <1>3 DEF Left
<1>5. Pruned(erased, tokens) = Dead(pattern, client)
  <2> HIDE DEF erased
  <2> QED BY <1>4 DEF Pruned, Dead
<1> HIDE DEF erased, tokens
<1>6. ASSUME tokens \in DOMAIN trie
      PROVE  /\ DOMAIN trie' = kept(Dead(pattern, client))
             /\ trie' = [node \in DOMAIN trie' |-> trie'[node]]
             /\ \A node \in DOMAIN trie' : trie'[node] = Left(pattern, client, node)
  <2>1. trie' = [node \in kept(Dead(pattern, client)) |-> erased[node]]
    BY <1>2, <1>5, <1>6
  <2> QED BY <2>1, <1>4
<1> QED BY <1>1, <1>2, <1>6 DEF tokens

------------------------------------------------------------------------------
(* Types *)

\* The nodes of the trie are paths over the patterns and hold clients only,
\* after any calls of add_subscription and remove_subscription.
THEOREM TypeCorrect == Spec => []TypeOK
<1>1. Init => TypeOK
  BY NodesAreTokens DEF Init, EmptyTrie, TypeOK
<1>2. TypeOK /\ [Next]_trie => TypeOK'
  <2> SUFFICES ASSUME TypeOK, [Next]_trie PROVE TypeOK'
    OBVIOUS
  <2>1. ASSUME NEW pattern \in Patterns, NEW client \in Clients, Add(pattern, client)
        PROVE  TypeOK'
    <3>1. \A node \in DOMAIN trie : IdsAt(trie, node) \subseteq Clients
      BY DEF TypeOK, IdsAt
    <3>2. \A node : IdsAt(trie, node) \subseteq Clients
      BY <3>1 DEF IdsAt
    <3>3. DOMAIN trie' \subseteq Nodes
      BY <2>1, AddResult, NodesAreTokens DEF TypeOK
    <3>4. \A node \in DOMAIN trie' : trie'[node] \subseteq Clients
      <4>1. trie'[SplitTopic(pattern)] = IdsAt(trie, SplitTopic(pattern)) \cup {client}
        BY <2>1, AddResult
      <4>2. \A node \in DOMAIN trie' \ {SplitTopic(pattern)} : trie'[node] = IdsAt(trie, node)
        BY <2>1, AddResult
      <4> QED BY <3>2, <4>1, <4>2
    <3>5. trie' = [node \in DOMAIN trie' |-> trie'[node]]
      BY <2>1, AddResult
    <3> QED BY <3>3, <3>4, <3>5 DEF TypeOK
  <2>2. ASSUME NEW pattern \in Patterns, NEW client \in Clients, Drop(pattern, client)
        PROVE  TypeOK'
    <3>1. CASE SplitTopic(pattern) \notin DOMAIN trie
      BY <2>2, <3>1, DropResult DEF TypeOK
    <3>2. CASE SplitTopic(pattern) \in DOMAIN trie
      <4>1. DOMAIN trie' \subseteq DOMAIN trie
        BY <2>2, <3>2, DropResult
      <4>2. \A node \in DOMAIN trie' : trie'[node] \subseteq Clients
        BY <2>2, <3>2, <4>1, DropResult DEF Left, TypeOK
      <4>3. trie' = [node \in DOMAIN trie' |-> trie'[node]]
        BY <2>2, <3>2, DropResult
      <4> QED BY <4>1, <4>2, <4>3 DEF TypeOK
    <3> QED BY <3>1, <3>2
  <2> QED BY <2>1, <2>2 DEF Next, TypeOK
<1> QED BY <1>1, <1>2, PTL DEF Spec

------------------------------------------------------------------------------
(* The shape *)

\* Adding a subscription keeps the trie's shape.
LEMMA AddKeepsShape ==
    ASSUME TypeOK, TrieShape, NEW pattern \in Patterns, NEW client \in Clients,
           Add(pattern, client)
    PROVE  TrieShape'
<1> DEFINE tokens == SplitTopic(pattern)
<1>1. /\ DOMAIN trie' = DOMAIN trie \cup Prefixes(tokens)
      /\ trie'[tokens] # {}
      /\ \A node \in DOMAIN trie : trie[node] # {} => trie'[node] # {}
  <2>1. /\ DOMAIN trie' = DOMAIN trie \cup Prefixes(tokens)
        /\ trie'[tokens] = IdsAt(trie, tokens) \cup {client}
    BY AddResult
  <2>2. \A node \in DOMAIN trie' \ {tokens} : trie'[node] = IdsAt(trie, node)
    BY AddResult
  <2>3. \A node \in DOMAIN trie : trie[node] # {} => trie'[node] # {}
    BY <2>1, <2>2 DEF IdsAt
  <2> QED BY <2>1, <2>3
<1>2. tokens \in Tokens /\ tokens \in DOMAIN trie'
  BY NodesAreTokens, AddResult
<1>3. \A node \in Prefixes(tokens) : node \in Tokens /\ IsPrefix(node, tokens)
  BY <1>2, PrefixesOf
<1> HIDE DEF tokens
<1>4. <<>> \in DOMAIN trie'
  BY <1>1 DEF TrieShape
<1>5. PrefixClosed'
  <2> SUFFICES ASSUME NEW node \in DOMAIN trie' PROVE Prefixes(node) \subseteq DOMAIN trie'
    BY DEF PrefixClosed
  <2>1. CASE node \in DOMAIN trie
    BY <1>1, <2>1 DEF TrieShape, PrefixClosed
  <2>2. CASE node \in Prefixes(tokens)
    <3> SUFFICES ASSUME NEW p \in Prefixes(node) PROVE p \in Prefixes(tokens)
      BY <1>1
    <3>1. p \in Tokens /\ IsPrefix(p, node) /\ node \in Tokens /\ IsPrefix(node, tokens)
      BY <1>3, <2>2, PrefixesOf
    <3>2. IsPrefix(p, tokens)
      BY <1>2, <3>1, PrefixOrder
    <3> QED BY <1>2, <3>1, <3>2, PrefixesOf
  <2> QED BY <1>1, <2>1, <2>2
<1>6. NoDeadBranch'
  <2> SUFFICES ASSUME NEW node \in DOMAIN trie' \ {<<>>}
               PROVE  \E below \in DOMAIN trie' : IsPrefix(node, below) /\ trie'[below] # {}
    BY DEF NoDeadBranch
  <2>1. CASE node \in DOMAIN trie
    BY <1>1, <2>1 DEF TrieShape, NoDeadBranch
  <2>2. CASE node \in Prefixes(tokens)
    BY <1>1, <1>2, <1>3, <2>2
  <2> QED BY <1>1, <2>1, <2>2
<1> QED BY <1>4, <1>5, <1>6 DEF TrieShape

\* Removing a subscription keeps the trie's shape.  A kept node on the removed
\* path has a living node below it, or a branch off the path, and that branch
\* led to a subscriber before; the removal touches neither.
LEMMA DropKeepsShape ==
    ASSUME TypeOK, TrieShape, NEW pattern \in Patterns, NEW client \in Clients,
           Drop(pattern, client)
    PROVE  TrieShape'
<1> DEFINE tokens == SplitTopic(pattern)
           dead   == Dead(pattern, client)
           left(node) == Left(pattern, client, node)
<1>1. CASE tokens \notin DOMAIN trie
  <2>1. trie' = trie
    BY <1>1, DropResult
  <2> QED BY <2>1 DEF TrieShape, PrefixClosed, NoDeadBranch
<1>2. CASE tokens \in DOMAIN trie
  <2>1. /\ DOMAIN trie' = {node \in DOMAIN trie : \A gone \in dead : ~IsPrefix(gone, node)}
        /\ \A node \in DOMAIN trie' : trie'[node] = left(node)
    BY <1>2, DropResult
  <2>2. DOMAIN trie \subseteq Tokens /\ tokens \in Tokens
    BY NodesAreTokens, DropResult DEF TypeOK
  <2>3. \A gone \in dead : /\ gone # <<>> /\ gone \in Prefixes(tokens) /\ gone \in Tokens
                          /\ \A below \in DOMAIN trie :
                                IsPrefix(gone, below) =>
                                    below \in Prefixes(tokens) /\ left(below) = {}
    BY <2>2, PrefixesOf DEF Dead
  <2>4. \A node \in Prefixes(tokens) \ {<<>>} : node \notin dead =>
            \E below \in DOMAIN trie : /\ IsPrefix(node, below)
                                       /\ below \notin Prefixes(tokens) \/ left(below) # {}
    BY DEF Dead
  <2>5. \A node \in DOMAIN trie : node \notin Prefixes(tokens) => left(node) = trie[node]
    BY <2>2, PrefixesOf DEF Left
  <2> HIDE DEF tokens, dead, left
  <2>6. ASSUME NEW node \in DOMAIN trie, left(node) # {} PROVE node \in DOMAIN trie'
    BY <2>1, <2>3, <2>6
  <2>7. <<>> \in DOMAIN trie'
    <3>1. \A gone \in dead : ~IsPrefix(gone, <<>>)
      BY <2>3, PrefixOrder
    <3> QED BY <2>1, <3>1 DEF TrieShape
  <2>8. PrefixClosed'
    <3> SUFFICES ASSUME NEW node \in DOMAIN trie', NEW p \in Prefixes(node)
                 PROVE  p \in DOMAIN trie'
      BY DEF PrefixClosed
    <3>1. node \in DOMAIN trie /\ node \in Tokens /\ p \in DOMAIN trie
      BY <2>1, <2>2 DEF TrieShape, PrefixClosed
    <3>2. p \in Tokens /\ IsPrefix(p, node)
      BY <3>1, PrefixesOf
    <3>3. \A gone \in dead : IsPrefix(gone, p) => IsPrefix(gone, node)
      BY <2>3, <3>1, <3>2, PrefixOrder
    <3> QED BY <2>1, <3>1, <3>3
  <2>9. NoDeadBranch'
    <3> SUFFICES ASSUME NEW node \in DOMAIN trie' \ {<<>>}
                 PROVE  \E below \in DOMAIN trie' : IsPrefix(node, below) /\ trie'[below] # {}
      BY DEF NoDeadBranch
    <3>1. node \in DOMAIN trie /\ node \in Tokens /\ IsPrefix(node, node)
      BY <2>1, <2>2, PrefixOrder
    <3>2. ASSUME NEW mid \in DOMAIN trie, IsPrefix(node, mid), mid \notin Prefixes(tokens)
          PROVE  \E below \in DOMAIN trie' : IsPrefix(node, below) /\ trie'[below] # {}
      <4>1. mid \in Tokens /\ mid # <<>>
        BY <2>2, <3>2, PrefixesOf
      <4>2. PICK below \in DOMAIN trie : IsPrefix(mid, below) /\ trie[below] # {}
        BY <4>1 DEF TrieShape, NoDeadBranch
      <4>3. below \in Tokens
        BY <2>2
      <4>4. below \notin Prefixes(tokens)
        <5>1. below \in Prefixes(tokens) => IsPrefix(below, tokens)
          BY <2>2, PrefixesOf
        <5>2. IsPrefix(below, tokens) => IsPrefix(mid, tokens)
          BY <2>2, <4>1, <4>2, <4>3, PrefixOrder
        <5> QED BY <2>2, <3>2, <4>1, <5>1, <5>2, PrefixesOf
      <4>5. left(below) # {}
        BY <2>5, <4>2, <4>4
      <4>6. IsPrefix(node, below)
        BY <3>1, <3>2, <4>1, <4>2, <4>3, PrefixOrder
      <4> QED BY <2>1, <2>6, <4>5, <4>6
    <3>3. CASE node \notin Prefixes(tokens)
      BY <3>1, <3>2, <3>3
    <3>4. CASE node \in Prefixes(tokens)
      <4>1. node \notin dead
        BY <2>1, <3>1
      <4>2. PICK mid \in DOMAIN trie : /\ IsPrefix(node, mid)
                                       /\ mid \notin Prefixes(tokens) \/ left(mid) # {}
        BY <2>4, <3>4, <4>1
      <4>3. CASE mid \notin Prefixes(tokens)
        BY <3>2, <4>2, <4>3
      <4>4. CASE left(mid) # {}
        <5>1. mid \in DOMAIN trie' /\ trie'[mid] # {}
          BY <2>1, <2>6, <4>4
        <5> QED BY <4>2, <5>1
      <4> QED BY <4>2, <4>3, <4>4
    <3> QED BY <3>3, <3>4
  <2> QED BY <2>7, <2>8, <2>9 DEF TrieShape
<1> QED BY <1>1, <1>2

\* Whatever subscriptions come and go, the trie is an unbroken tree in which
\* every branch leads to a subscriber.
THEOREM ShapeCorrect == Spec => []TrieShape
<1>1. Init => TrieShape
  <2>1. Prefixes(<<>>) = {<<>>}
    <3>1. <<>> \in Tokens
      BY EmptySeq DEF Tokens
    <3> QED BY <3>1, PrefixesOf, PrefixOrder
  <2> QED BY <2>1 DEF Init, EmptyTrie, TrieShape, PrefixClosed, NoDeadBranch
<1>2. TypeOK /\ TrieShape /\ [Next]_trie => TrieShape'
  BY AddKeepsShape, DropKeepsShape DEF Next, TrieShape, PrefixClosed, NoDeadBranch
<1> QED BY <1>1, <1>2, TypeCorrect, PTL DEF Spec

------------------------------------------------------------------------------
(* Refinement *)

\* Adding, with the nodes it creates, is the abstract Add.
LEMMA AddRefines ==
    ASSUME TypeOK, NEW pattern \in Patterns, NEW client \in Clients, Add(pattern, client)
    PROVE  Table!Add(SplitTopic(pattern), client)
<1> DEFINE tokens == SplitTopic(pattern)
<1>1. /\ tokens \in DOMAIN trie'
      /\ DOMAIN trie \subseteq DOMAIN trie'
      /\ trie'[tokens] = IdsAt(trie, tokens) \cup {client}
  BY AddResult
<1>2. \A node \in DOMAIN trie' \ {tokens} : trie'[node] = IdsAt(trie, node)
  BY AddResult
<1> HIDE DEF tokens
<1>3. \A path \in Paths : IdsAt(trie', path) =
          IF path = tokens THEN IdsAt(trie, path) \cup {client} ELSE IdsAt(trie, path)
  <2> SUFFICES ASSUME NEW path \in Paths
               PROVE  IdsAt(trie', path) =
                        IF path = tokens THEN IdsAt(trie, path) \cup {client}
                                         ELSE IdsAt(trie, path)
    OBVIOUS
  <2>1. CASE path = tokens
    BY <1>1, <2>1 DEF IdsAt
  <2>2. CASE path # tokens /\ path \in DOMAIN trie'
    BY <1>2, <2>2 DEF IdsAt
  <2>3. CASE path # tokens /\ path \notin DOMAIN trie'
    BY <1>1, <2>3 DEF IdsAt
  <2> QED BY <2>1, <2>2, <2>3
<1> QED BY <1>3 DEF Table!Add, tokens

\* Removing, with its pruning, is the abstract Remove: a dead node that goes
\* with everything below it takes no subscription away.
LEMMA DropRefines ==
    ASSUME TypeOK, NEW pattern \in Patterns, NEW client \in Clients, Drop(pattern, client)
    PROVE  Table!Remove(SplitTopic(pattern), client)
<1> DEFINE tokens == SplitTopic(pattern)
<1>1. \A path \in Paths : IdsAt(trie', path) =
          IF path = tokens THEN IdsAt(trie, path) \ {client} ELSE IdsAt(trie, path)
  <2> SUFFICES ASSUME NEW path \in Paths
               PROVE  IdsAt(trie', path) =
                        IF path = tokens THEN IdsAt(trie, path) \ {client}
                                         ELSE IdsAt(trie, path)
    OBVIOUS
  <2>1. CASE tokens \notin DOMAIN trie
    <3>1. trie' = trie
      BY <2>1, DropResult
    <3> QED BY <2>1, <3>1 DEF IdsAt
  <2>2. CASE tokens \in DOMAIN trie
    <3>1. /\ DOMAIN trie' = {node \in DOMAIN trie :
                              \A gone \in Dead(pattern, client) : ~IsPrefix(gone, node)}
          /\ \A node \in DOMAIN trie' : trie'[node] = Left(pattern, client, node)
      BY <2>2, DropResult
    <3>2. CASE path \in DOMAIN trie'
      BY <3>1, <3>2 DEF IdsAt, Left
    <3>3. CASE path \notin DOMAIN trie
      BY <2>2, <3>1, <3>3 DEF IdsAt
    <3>4. CASE path \in DOMAIN trie /\ path \notin DOMAIN trie'
      <4>1. PICK gone \in Dead(pattern, client) : IsPrefix(gone, path)
        BY <3>1, <3>4
      <4>2. Left(pattern, client, path) = {}
        BY <3>4, <4>1 DEF Dead
      <4> QED BY <3>4, <4>2 DEF IdsAt, Left
    <3> QED BY <3>2, <3>3, <3>4
  <2> QED BY <2>1, <2>2
<1> QED BY <1>1 DEF Table!Remove

\* The trie of TopicTrie.cpp implements the table of subscriptions: no call
\* changes any subscription but the one it names.
THEOREM TrieImplementsTable == Spec => ImplementsTable
<1>1. Init => Table!Init
  <2>1. Init => \A path \in Paths : IdsAt(trie, path) = {}
    BY DEF Init, EmptyTrie, IdsAt
  <2> QED BY <2>1 DEF Table!Init
<1>2. TypeOK /\ [Next]_trie => [Table!Next]_[path \in Paths |-> IdsAt(trie, path)]
  <2> SUFFICES ASSUME TypeOK, [Next]_trie
               PROVE  [Table!Next]_[path \in Paths |-> IdsAt(trie, path)]
    OBVIOUS
  <2>1. ASSUME NEW pattern \in Patterns, NEW client \in Clients,
               Add(pattern, client) \/ Drop(pattern, client)
        PROVE  Table!Next
    <3>1. SplitTopic(pattern) \in Paths
      BY DEF Paths
    <3> QED BY <2>1, <3>1, AddRefines, DropRefines DEF Table!Next
  <2>2. CASE UNCHANGED trie
    BY <2>2
  <2> QED BY <2>1, <2>2 DEF Next
<1> QED BY <1>1, <1>2, TypeCorrect, PTL DEF Spec, ImplementsTable, Table!Spec

==============================================================================
