------------------------------- MODULE TrieOps -------------------------------
(***************************************************************************)
(* The operators of TopicTrie.cpp.                                         *)
(*                                                                         *)
(* A topic is the sequence of its '/'-separated fields, so "a/b" is        *)
(* <<"a", "b">> and "a/" is <<"a", "">>; the text "" is <<"">>.  The       *)
(* wildcards are the fields "+" and "*".                                   *)
(*                                                                         *)
(* A trie is a function: its domain is the set of nodes, each node named   *)
(* by the path of tokens from the root <<>>, and its value at a node is    *)
(* the node's subscriber_ids.                                              *)
(***************************************************************************)
EXTENDS Naturals, Sequences, SequencesExt

\* std::getline yields no token for the empty text after the last '/'.
SplitTopic(topic) ==
    IF Last(topic) = "" THEN Front(topic) ELSE topic

EmptyTrie == [node \in {<<>>} |-> {}]

\* The subscriber_ids of a node, empty where the trie has no such node.
IdsAt(trie, node) == IF node \in DOMAIN trie THEN trie[node] ELSE {}

------------------------------------------------------------------------------
\* Seeded defect: the pattern is cut at every '/', the final one included.
AddUnsplit(trie, pattern, client) ==
    [node \in DOMAIN trie \cup Prefixes(pattern) |->
        IF node = pattern THEN IdsAt(trie, node) \cup {client} ELSE IdsAt(trie, node)]

\* Creates the missing nodes of the path and adds the client at its end.
AddSubscription(trie, pattern, client) ==
    LET tokens == SplitTopic(pattern)
    IN  [node \in DOMAIN trie \cup Prefixes(tokens) |->
            IF node = tokens THEN IdsAt(trie, node) \cup {client}
                             ELSE IdsAt(trie, node)]

\* Seeded defect: the children.empty() test of the pruning is dropped.
PrunedWithChildren(trie, tokens) ==
    {node \in Prefixes(tokens) \ {<<>>} : trie[node] = {}}

\* Seeded defect: nothing is pruned.
NothingPruned(trie, tokens) == {}

\* The nodes remove_recursive returns true for: walking back up the path, a
\* node goes when nothing is left in it or below it but the nodes of the path
\* that go with it.  The root is never deleted.
Pruned(trie, tokens) ==
    {node \in Prefixes(tokens) \ {<<>>} :
        \A below \in DOMAIN trie :
            IsPrefix(node, below) =>
                below \in Prefixes(tokens) /\ trie[below] = {}}

\* Erases the client at the end of the path, then deletes the pruned nodes,
\* each with everything below it (~TopicTrieNode).  A missing node ends the
\* walk with nothing changed.
RemoveSubscription(trie, pattern, client) ==
    LET tokens == SplitTopic(pattern)
        erased == [trie EXCEPT ![tokens] = @ \ {client}]
        kept   == {node \in DOMAIN trie :
                      \A gone \in Pruned(erased, tokens) : ~IsPrefix(gone, node)}
    IN  IF tokens \in DOMAIN trie THEN [node \in kept |-> erased[node]] ELSE trie

------------------------------------------------------------------------------
\* collect_matches_recursive gets from the root to `node` with the whole topic
\* consumed: index[k] is its index argument at depth k.  "*" goes on from any
\* later index, "+" and an equal token from the next one.
Reaches(node, tokens) ==
    \E index \in [0..Len(node) -> 0..Len(tokens)] :
        /\ index[0] = 0
        /\ index[Len(node)] = Len(tokens)
        /\ \A k \in 1..Len(node) :
              \/ node[k] = "*" /\ index[k-1] <= index[k]
              \/ /\ index[k] = index[k-1] + 1
                 /\ node[k] \in {"+", tokens[index[k]]}

\* Seeded defect: a query that skips the wildcard branches.
FindLiteral(trie, topic) == IdsAt(trie, SplitTopic(topic))

FindSubscribers(trie, topic) ==
    UNION {trie[node] : node \in {n \in DOMAIN trie : Reaches(n, SplitTopic(topic))}}

==============================================================================
