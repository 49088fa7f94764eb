------------------------------ MODULE TopicTrie ------------------------------
(***************************************************************************)
(* The TopicTrie object of TopicTrie.cpp under any sequence of calls to    *)
(* add_subscription and remove_subscription.  Patterns may hold different  *)
(* texts that split into the same tokens ("a" and "a/").                   *)
(***************************************************************************)
EXTENDS TrieOps

CONSTANTS Clients,   \* the ids that subscribe
          Patterns   \* the subscription patterns used, each a sequence of fields

ASSUME PatternsAssumption ==
    \A pattern \in Patterns : pattern \in Seq(STRING) /\ pattern # <<>>

VARIABLE trie

Init == trie = EmptyTrie

Add(pattern, client)    == trie' = AddSubscription(trie, pattern, client)

Drop(pattern, client)   == trie' = RemoveSubscription(trie, pattern, client)

Next == \E pattern \in Patterns, client \in Clients :
            Add(pattern, client) \/ Drop(pattern, client)

Spec == Init /\ [][Next]_trie

------------------------------------------------------------------------------
\* The token paths of the patterns, and the nodes a trie over them can have.
Paths == {SplitTopic(pattern) : pattern \in Patterns}
Nodes == {<<>>} \cup UNION {Prefixes(path) : path \in Paths}

\* The trie maps nodes over the patterns to sets of clients.
TypeOK == /\ DOMAIN trie \in SUBSET Nodes
          /\ trie \in [DOMAIN trie -> SUBSET Clients]

\* Every ancestor of a node is a node: no child is left behind by a deletion.
PrefixClosed == \A node \in DOMAIN trie : Prefixes(node) \subseteq DOMAIN trie

\* Pruning leaves no dead branch: from every node but the root some node at or
\* below it still has a subscriber (TopicTrie.cpp:91-100).
NoDeadBranch ==
    \A node \in DOMAIN trie \ {<<>>} :
        \E below \in DOMAIN trie : IsPrefix(node, below) /\ trie[below] # {}

\* The shape remove_recursive and add_subscription keep between them: the root
\* is there, paths are unbroken and every branch leads to a subscriber.
TrieShape == <<>> \in DOMAIN trie /\ PrefixClosed /\ NoDeadBranch

\* The trie implements the table of subscriptions: adding, and removing with
\* its pruning and its deletion of whole subtrees, change one path's set of
\* clients and lose no other subscription.
Table == INSTANCE SubscriptionTable
            WITH table <- [path \in Paths |-> IdsAt(trie, path)]

ImplementsTable == Table!Spec

==============================================================================
