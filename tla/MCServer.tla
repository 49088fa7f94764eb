------------------------------ MODULE MCServer ------------------------------
(***************************************************************************)
(* Small instances of Server: two patterns that both cover one topic, of   *)
(* which only the one with the wildcard covers the other topic.            *)
(***************************************************************************)
EXTENDS ServerProperties

MCPatterns == { <<"a", "b">>, <<"a", "*">> }
WildcardOnly == { <<"a", "*">> }

MCTopics == { <<"a", "b">> }
MCTwoTopics == { <<"a", "b">>, <<"a">> }

\* Texts of one subscription path: "a" and "a/".
MCAliases == { <<"a">>, <<"a", "">> }
MCAliasTopic == { <<"a">> }

ServerSymmetry == Permutations(Subs) \cup Permutations(Ids)

==============================================================================
