----------------------------- MODULE UdpClient -----------------------------
(***************************************************************************)
(* One run of udp_client.py: the command line is parsed, a socket is bound *)
(* and payloads of the input file are sent as datagrams in one of three    *)
(* modes.  send_message is three steps, since the network and a signal can *)
(* act between sendto(), print() and sleep().  Every exception the code    *)
(* does not catch ends the run in "failed".                                *)
(***************************************************************************)
EXTENDS Integers, SequencesExt

CONSTANTS Commands,  \* the command lines, see CommandsAssumption
          Payloads,  \* the objects of input files: bytes and description, or None
          None,      \* an absent field or option
          Text,      \* the text of an option that is not an integer
          MaxSent,   \* bound on the datagrams of random mode, where they have no end
          MaxLines   \* bound on the lines the operator types

\* A command line after its options are told apart: `readable` says that the
\* file exists and holds JSON.  An absent address is 0.0.0.0, an absent delay 0.
CommandsAssumption ==
    \A c \in Commands :
        /\ c.readable \in BOOLEAN
        /\ c.input_file \in Seq(Payloads)
        /\ {c.server_ip, c.source_address} \subseteq {"IPv4", "IPv6", "malformed"}
        /\ {c.server_port, c.delay} \subseteq Int \cup {Text}
        /\ {c.source_port, c.count} \subseteq Int \cup {Text, None}
        /\ c.mode \in STRING

ASSUME ClientAssumption ==
    /\ CommandsAssumption
    /\ Text \notin Int /\ None \notin Int /\ Text # None
    /\ MaxSent \in Nat /\ MaxLines \in Nat

VARIABLES command,   \* the command line of this run
          pc,        \* the place in the code, or how the run ended
          choice,    \* the payload being sent, by its place in the file
          count,     \* the calls of send_message that have returned
          typed,     \* the lines read from the operator in manual mode
          sent,      \* the payloads given to the network so far
          reported   \* the payloads whose "Sent" line has been printed

clientVars == <<command, pc, choice, count, typed, sent, reported>>

MIN_VALUE == 1024
MAX_VALUE == 65535

Modes == {"all_once", "manual", "random"}

File == command.input_file

ClientInit ==
    /\ command \in Commands
    /\ pc = "parse"
    /\ choice = 0 /\ count = 0
    /\ typed = <<>> /\ sent = <<>> /\ reported = <<>>

Ended == pc \in {"done", "refused", "failed"}

\* The run ends, in one of the three ways; nothing else changes.
End(how) ==
    /\ pc' = how
    /\ UNCHANGED <<command, choice, count, typed, sent, reported>>

------------------------------------------------------------------------------
\* Start of the run.

\* unprivileged_port_type returns the value instead of raising.
unprivileged_port_type(value) == value \in MIN_VALUE..MAX_VALUE

\* argparse takes the command line: every type function and `choices` agree.
\* An IPv6 address is an ip_address.  The type function is not applied to the
\* default of --source-port, which is the integer 0.
Accepted(c) ==
    /\ c.readable
    /\ {c.server_ip, c.source_address} \subseteq {"IPv4", "IPv6"}
    /\ unprivileged_port_type(c.server_port)
    /\ c.source_port = None \/ unprivileged_port_type(c.source_port)
    /\ c.mode \in Modes
    /\ c.count # Text
    /\ c.delay # Text

Parse ==
    /\ pc = "parse"
    /\ Accepted(command)
    /\ pc' = "setup_socket"
    /\ UNCHANGED <<command, choice, count, typed, sent, reported>>

Refuse ==
    /\ pc = "parse"
    /\ ~Accepted(command)
    /\ End("refused")

SetupSocket ==
    /\ pc = "setup_socket"
    /\ command.source_address = "IPv4"
    /\ pc' = IF command.mode = "manual" THEN "menu" ELSE "loop"
    /\ UNCHANGED <<command, choice, count, typed, sent, reported>>

\* The AF_INET socket does not take the address, or the address or the port is
\* not to be had.
BindFails == pc = "setup_socket" /\ End("failed")

------------------------------------------------------------------------------
\* send_message.

\* Seeded defect: the report is left to a later message.
SendUnreported ==
    /\ pc = "send"
    /\ File[choice].bytes # None
    /\ command.server_ip = "IPv4"
    /\ sent' = Append(sent, choice)
    /\ pc' = "sleep"
    /\ UNCHANGED <<command, choice, count, typed, reported>>

SendTo ==
    /\ pc = "send"
    /\ File[choice].bytes # None
    /\ command.server_ip = "IPv4"
    /\ sent' = Append(sent, choice)
    /\ pc' = "report"
    /\ UNCHANGED <<command, choice, count, typed, reported>>

\* payload_base64 is missing or wrong, the address is not AF_INET, or sendto()
\* fails for a cause of the network.
SendFails == pc = "send" /\ End("failed")

\* The description is looked up only here, after the datagram has gone.
Report ==
    /\ pc = "report"
    /\ File[choice].description # None
    /\ reported' = Append(reported, choice)
    /\ pc' = "sleep"
    /\ UNCHANGED <<command, choice, count, typed, sent>>

ReportFails ==
    /\ pc = "report"
    /\ File[choice].description = None
    /\ End("failed")

Sleep ==
    /\ pc = "sleep"
    /\ command.delay >= 0
    /\ count' = count + 1
    /\ pc' = "loop"
    /\ UNCHANGED <<command, choice, typed, sent, reported>>

SleepFails ==
    /\ pc = "sleep"
    /\ command.delay < 0
    /\ End("failed")

\* The loop of the mode calls send_message with payload i.
CallSend(i) ==
    /\ pc' = "send"
    /\ choice' = i
    /\ UNCHANGED <<command, count, sent, reported>>

------------------------------------------------------------------------------
\* run_all_once.

AllOnceNext ==
    /\ pc = "loop" /\ command.mode = "all_once"
    /\ count < Len(File)
    /\ CallSend(count + 1)
    /\ UNCHANGED typed

AllOnceEnds ==
    /\ pc = "loop" /\ command.mode = "all_once"
    /\ count = Len(File)
    /\ End("done")

------------------------------------------------------------------------------
\* run_random.

\* Seeded defect: the loop stops only when the count is met exactly.
UntilEqual == command.count # count

\* Seeded defect: one round too many.
OneMore == command.count # None => count <= command.count

\* The condition of the loop.
MoreToSend == command.count # None => count < command.count

RandomNext ==
    /\ pc = "loop" /\ command.mode = "random"
    /\ MoreToSend
    /\ Len(sent) < MaxSent
    /\ \E i \in 1..Len(File) : CallSend(i)
    /\ UNCHANGED typed

\* random.choice of an empty list.
RandomFails ==
    /\ pc = "loop" /\ command.mode = "random"
    /\ MoreToSend
    /\ File = <<>>
    /\ End("failed")

RandomEnds ==
    /\ pc = "loop" /\ command.mode = "random"
    /\ ~MoreToSend
    /\ End("done")

------------------------------------------------------------------------------
\* run_manual.

\* The list of options names every payload by its description.
Menu ==
    /\ pc = "menu"
    /\ \A i \in 1..Len(File) : File[i].description # None
    /\ pc' = "loop"
    /\ UNCHANGED <<command, choice, count, typed, sent, reported>>

MenuFails ==
    /\ pc = "menu"
    /\ \E i \in 1..Len(File) : File[i].description = None
    /\ End("failed")

\* What input() and int() make of a line: "exit", the end of the input, a line
\* that is no integer, or an integer.
Lines == [kind : {"exit", "eof", "word"}, n : {0}]
             \cup [kind : {"number"}, n : -1..Len(File)]

\* Seeded defect: one option too many.
OneTooMany(n) == n \in 0..Len(File)

\* Seeded defect: whatever a Python list takes as an index.
PythonIndex(n) == n \in -Len(File)..(Len(File) - 1)

InRange(n) == n \in 0..(Len(File) - 1)

\* The index of the model for an index of a Python list.
Place(n) == IF n >= 0 THEN n + 1 ELSE Len(File) + n + 1

Prompted(line) ==
    /\ pc = "loop" /\ command.mode = "manual"
    /\ Len(typed) < MaxLines
    /\ typed' = Append(typed, line)

Choose(line) ==
    /\ Prompted(line)
    /\ line.kind = "number" /\ InRange(line.n)
    /\ CallSend(Place(line.n))

TryAgain(line) ==
    /\ Prompted(line)
    /\ line.kind = "number" /\ ~InRange(line.n)
    /\ UNCHANGED <<command, pc, choice, count, sent, reported>>

Exit(line) ==
    /\ Prompted(line)
    /\ line.kind = "exit"
    /\ pc' = "done"
    /\ UNCHANGED <<command, choice, count, sent, reported>>

\* int() or input() raises.
InputFails(line) ==
    /\ Prompted(line)
    /\ line.kind \in {"eof", "word"}
    /\ pc' = "failed"
    /\ UNCHANGED <<command, choice, count, sent, reported>>

------------------------------------------------------------------------------
\* A signal ends the program anywhere.
Interrupt == ~Ended /\ End("failed")

\* The steps the program takes by itself.
ClientStep ==
    \/ Parse \/ Refuse \/ SetupSocket \/ BindFails
    \/ SendTo \/ SendFails \/ Report \/ ReportFails \/ Sleep \/ SleepFails
    \/ AllOnceNext \/ AllOnceEnds
    \/ RandomNext \/ RandomFails \/ RandomEnds
    \/ Menu \/ MenuFails

\* The steps of the person at the terminal.
Operator ==
    \/ \E line \in Lines : Choose(line) \/ TryAgain(line) \/ Exit(line) \/ InputFails(line)
    \/ Interrupt

ClientNext == ClientStep \/ Operator

ClientSpec == ClientInit /\ [][ClientNext]_clientVars

\* Neither a UDP socket nor a finite sleep blocks for ever.
ClientFairness == WF_clientVars(ClientStep)

------------------------------------------------------------------------------
ClientTypeOK ==
    /\ command \in Commands
    /\ pc \in {"parse", "setup_socket", "menu", "loop", "send", "report", "sleep",
               "done", "refused", "failed"}
    /\ choice \in 0..Len(File)
    /\ count \in Nat
    /\ typed \in Seq(Lines)
    /\ {sent, reported} \subseteq Seq(1..Len(File))

\* What the program tells is what it did, one datagram behind at most: every
\* report is of a datagram that has gone, in order, and all but the last have
\* been reported, however the run ends (udp_client.py:69-72).  The last may be
\* unreported for ever: its description is read after it is sent.
ReportsFollowSends ==
    \/ reported = sent
    \/ /\ sent # <<>> /\ reported = Front(sent)
       /\ pc \in {"report", "failed"}

\* A line that names an option of the list.
IsOption(line) == line.kind = "number" /\ line.n \in 0..(Len(File) - 1)

\* The places of the options chosen with the first k lines, in order; `chosen`
\* gives those for fewer lines.
ChosenBy(chosen, lines, k) ==
    IF k = 0 THEN <<>>
    ELSE IF IsOption(lines[k]) THEN Append(chosen[k-1], lines[k].n + 1) ELSE chosen[k-1]

Chosen ==
    LET chosen[k \in 0..Len(typed)] == ChosenBy(chosen, typed, k)
    IN  chosen[Len(typed)]

\* Manual mode sends what the operator chose, in the operator's order and once
\* for each time it was chosen, over mistaken numbers in between; only a choice
\* whose send failed is missing, and only "exit" ends the run in success
\* (udp_client.py:88-98).
ManualFollowsOperator ==
    Accepted(command) /\ command.mode = "manual" =>
        /\ \/ sent = Chosen
           \/ Chosen # <<>> /\ sent = Front(Chosen) /\ pc \in {"send", "failed"}
        /\ pc = "done" => typed # <<>> /\ Last(typed).kind = "exit"

Status == CASE pc = "done"                   -> "done"
            [] pc \in {"refused", "failed"}  -> "failed"
            [] OTHER                         -> "running"

Work == INSTANCE Workload WITH status <- Status

\* Every run sends what its mode says, in each mode's order and number, and
\* ends in success only when it is complete: a bad payload, an empty file or a
\* signal never passes for success (udp_client.py:75-107, README.md of the
\* client, lines 23-30).
ImplementsWorkload == Work!Spec

\* A run that is asked for a finite number of datagrams ends, also when that
\* number is negative or the file is empty (udp_client.py:76, 102-107).
RunEnds ==
    (command.mode = "all_once" \/ (command.mode = "random" /\ command.count # None)) ~> Ended

==============================================================================
