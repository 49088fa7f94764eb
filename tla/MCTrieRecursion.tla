--------------------------- MODULE MCTrieRecursion ---------------------------
(***************************************************************************)
(* TrieRecursion over patterns in which wildcards follow, precede and      *)
(* overlap one another, and topics that contain empty levels, that repeat  *)
(* a level and that carry a wildcard character themselves.                 *)
(***************************************************************************)
EXTENDS TrieRecursion

MCPatterns == { <<"a">>, <<"a", "">>, <<"a", "b">>, <<"*">>, <<"*", "b">>,
                <<"a", "*", "b">>, <<"+", "b">>, <<"*", "*">> }

ClientSymmetry == Permutations(Clients)

MCTopics == { <<"">>, <<"a">>, <<"b">>, <<"a", "">>, <<"a", "b">>, <<"", "b">>,
              <<"a", "", "b">>, <<"a", "b", "b">>, <<"a", "a", "b">>, <<"*", "b">>,
              <<"+", "b">>, <<"a", "b", "a", "b">> }

==============================================================================
