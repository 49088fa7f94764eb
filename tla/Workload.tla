------------------------------ MODULE Workload ------------------------------
(***************************************************************************)
(* What udp_client.py promises whoever starts it: which payloads of the    *)
(* file go out in each mode, in which order and how many, and that a run   *)
(* that ends in success has sent all it was asked to.                      *)
(***************************************************************************)
EXTENDS Integers, Sequences

CONSTANTS Commands, None

VARIABLES command,  \* the command line
          sent,     \* the payloads sent so far, by their place in the file
          status    \* "running", "done" or "failed"

vars == <<command, sent, status>>

Init == command \in Commands /\ sent = <<>> /\ status = "running"

\* Payload i may be the next one.
Due(i) ==
    \/ command.mode = "all_once" /\ i = Len(sent) + 1
    \/ command.mode = "random" /\ (command.count # None => Len(sent) < command.count)
    \/ command.mode = "manual"

\* A run may end in success now.
Complete ==
    \/ command.mode = "all_once" /\ Len(sent) = Len(command.input_file)
    \/ command.mode = "random" /\ command.count # None /\ Len(sent) >= command.count
    \/ command.mode = "manual"

Send(i) ==
    /\ status = "running"
    /\ Due(i)
    /\ sent' = Append(sent, i)
    /\ UNCHANGED <<command, status>>

Finish ==
    /\ status = "running"
    /\ Complete
    /\ status' = "done"
    /\ UNCHANGED <<command, sent>>

Fail ==
    /\ status = "running"
    /\ status' = "failed"
    /\ UNCHANGED <<command, sent>>

Next == Fail \/ Finish \/ \E i \in 1..Len(command.input_file) : Send(i)

Spec == Init /\ [][Next]_vars

==============================================================================
