-------------------------- MODULE SubscriptionTable --------------------------
(***************************************************************************)
(* What a subscription index promises: a table from token paths to the     *)
(* sets of subscribed clients, in which adding or removing one             *)
(* subscription changes that subscription and no other.                    *)
(***************************************************************************)
CONSTANTS Clients, Paths

VARIABLE table

Init == table = [path \in Paths |-> {}]

Add(path, client)    == table' = [table EXCEPT ![path] = @ \cup {client}]

Remove(path, client) == table' = [table EXCEPT ![path] = @ \ {client}]

Next == \E path \in Paths, client \in Clients :
            Add(path, client) \/ Remove(path, client)

Spec == Init /\ [][Next]_table

==============================================================================
