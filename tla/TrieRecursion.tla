---------------------------- MODULE TrieRecursion ----------------------------
(***************************************************************************)
(* The two recursive helpers of TopicTrie.cpp as recursive functions, over *)
(* the nodes and indices they are called with, and the agreement of        *)
(* TrieOps, which states their results without recursion, with them.       *)
(***************************************************************************)
EXTENDS TopicTrie

CONSTANT Topics   \* the topics of the published messages

ASSUME TopicsAssumption == \A topic \in Topics : topic \in Seq(STRING) /\ topic # <<>>

Children(t, node) == {n \in DOMAIN t : n # <<>> /\ Front(n) = node}

------------------------------------------------------------------------------
\* Seeded defect: "*" must consume at least one level.
StarFrom(index) == index + 1

\* The loop of the "*" branch starts at the current index: zero levels.
StarStart(index) == index

\* One call for `node` when the tokens before `index` (counted from 0) are
\* consumed; `collect` is what the calls it makes collect.
collect_matches_recursive(collect, t, tokens, node, index) ==
    LET Into(token, next) ==
            IF Append(node, token) \in DOMAIN t THEN collect[<<Append(node, token), next>>] ELSE {}
    IN  UNION
        { IF index < Len(tokens) THEN Into(tokens[index+1], index+1) ELSE t[node],
          IF index < Len(tokens) THEN Into("+", index+1) ELSE {},
          UNION {Into("*", i) : i \in StarStart(index)..Len(tokens)} }

\* collect_matches_recursive from the root, for the whole topic.
Collect(t, tokens) ==
    LET collect[call \in (DOMAIN t) \X (0..Len(tokens))] ==
            collect_matches_recursive(collect, t, tokens, call[1], call[2])
    IN  collect[<< <<>>, 0 >>]

------------------------------------------------------------------------------
\* One call for a node of the path: the trie it leaves, and whether it tells
\* its caller to delete the node.  `remove` is what the call for the next node
\* of the path gives.
remove_recursive(remove, t, tokens, client, node) ==
    LET Empty(u) == u[node] = {} /\ Children(u, node) = {}
        child    == Append(node, tokens[Len(node)+1])
        below    == remove[child]
        deleted  == [n \in {m \in DOMAIN below.trie : ~IsPrefix(child, m)} |-> below.trie[n]]
        erased   == [t EXCEPT ![node] = @ \ {client}]
    IN  CASE node = tokens -> [trie |-> erased, prune |-> Empty(erased)]
          [] node # tokens /\ child \notin DOMAIN t -> [trie |-> t, prune |-> FALSE]
          [] node # tokens /\ child \in DOMAIN t /\ below.prune
                -> [trie |-> deleted, prune |-> Empty(deleted)]
          [] OTHER -> [trie |-> below.trie, prune |-> FALSE]

\* remove_recursive from the root.
RemoveFrom(t, tokens, client) ==
    LET remove[node \in Prefixes(tokens) \cap DOMAIN t] ==
            remove_recursive(remove, t, tokens, client, node)
    IN  remove[<<>>].trie

------------------------------------------------------------------------------
\* What the README promises of a pattern (README.md:10-12): "+" stands for
\* exactly one level, "*" for zero or more, another token for itself.  covers
\* is about what is left of the pattern and of the topic after i and j levels.
CoversFrom(covers, pattern, topic, i, j) ==
    \/ i = Len(pattern) /\ j = Len(topic)
    \/ /\ i < Len(pattern) /\ j < Len(topic)
       /\ pattern[i+1] \in {"+", topic[j+1]}
       /\ covers[<<i+1, j+1>>]
    \/ /\ i < Len(pattern) /\ pattern[i+1] = "*"
       /\ (covers[<<i+1, j>>] \/ (j < Len(topic) /\ covers[<<i, j+1>>]))

Covers(pattern, topic) ==
    LET covers[left \in (0..Len(pattern)) \X (0..Len(topic))] ==
            CoversFrom(covers, pattern, topic, left[1], left[2])
    IN  covers[<<0, 0>>]

\* find_subscribers returns the clients with a subscribed pattern that covers
\* the topic as the README defines it, with overlapping wildcards in one trie,
\* through the backtracking walk of TopicTrie.cpp:57-85.
FindFollowsReadme ==
    \A topic \in Topics :
        Collect(trie, SplitTopic(topic)) =
            UNION {IdsAt(trie, path) : path \in {p \in Paths : Covers(p, SplitTopic(topic))}}

\* The walk-based FindSubscribers of TrieOps returns what the recursion does.
FindAgrees ==
    \A topic \in Topics : FindSubscribers(trie, topic) = Collect(trie, SplitTopic(topic))

\* RemoveSubscription of TrieOps leaves the trie remove_recursive leaves, also
\* for a pattern that is not there or that other clients still hold.
RemoveAgrees ==
    \A pattern \in Patterns, client \in Clients :
        RemoveSubscription(trie, pattern, client) = RemoveFrom(trie, SplitTopic(pattern), client)

==============================================================================
