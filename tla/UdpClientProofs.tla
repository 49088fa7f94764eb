--------------------------- MODULE UdpClientProofs ---------------------------
(***************************************************************************)
(* Proofs about UdpClient, for any command lines, payloads and bounds: its *)
(* type, that its reports follow what it sends, and that it implements     *)
(* Workload.                                                               *)
(***************************************************************************)
EXTENDS UdpClient, SequenceTheorems, WellFoundedInduction, TLAPS

\* The places in the code where send_message is under way.
Sending == pc \in {"send", "report", "sleep"}

Places == {"parse", "setup_socket", "menu", "loop", "send", "report", "sleep",
           "done", "refused", "failed"}

\* The parser's decision holds from then on.
Parsed == pc \notin {"parse", "refused", "failed"} => Accepted(command)

\* count is one behind the datagrams between sendto() and the end of sleep().
Counted ==
    /\ pc \in {"parse", "setup_socket", "menu", "loop", "send"} => Len(sent) = count
    /\ pc \in {"report", "sleep"} => Len(sent) = count + 1

\* The payload under way is the one the loop of the mode called for.
CalledFor ==
    /\ Sending => choice \in 1..Len(File)
    /\ pc = "send" /\ command.mode = "all_once" => choice = count + 1
    /\ pc = "send" /\ command.mode = "random" => MoreToSend

\* The datagram to be reported is the last.
Unreported ==
    /\ pc = "report" => sent # <<>> /\ reported = Front(sent) /\ Last(sent) = choice
    /\ pc \notin {"report", "failed"} => reported = sent

IInv == ClientTypeOK /\ Parsed /\ Counted /\ CalledFor /\ Unreported /\ ReportsFollowSends

\* Among numbers there is a least one.
LEMMA Least ==
    ASSUME NEW S, S \subseteq Nat, S # {}
    PROVE  \E m \in S : \A n \in S : m <= n
<1> DEFINE Less == {p \in Nat \X Nat : p[1] < p[2]}
<1>1. IsWellFoundedOn(Less, Nat)
  BY NatLessThanWellFounded DEF OpToRel
<1>2. PICK m \in S : \A n \in S : ~(<<n, m>> \in Less)
  <2> HIDE DEF Less
  <2> QED BY <1>1, WFMin
<1>3. \A n \in S : ~(n < m)
  BY <1>2
<1> QED BY <1>3

\* The payloads of a command line are a sequence, its numbers are integers.
LEMMA CommandFacts ==
    ASSUME NEW c \in Commands
    PROVE  /\ Len(c.input_file) \in Nat
           /\ c.count \in Int \cup {Text, None}
           /\ c.delay \in Int \cup {Text}
BY ClientAssumption, LenProperties DEF CommandsAssumption

\* Appending to a sequence and taking the front gives the sequence back.
LEMMA FrontOfAppend ==
    ASSUME NEW S, NEW s \in Seq(S), NEW x \in S
    PROVE  /\ Append(s, x) \in Seq(S) /\ Append(s, x) # <<>>
           /\ Len(Append(s, x)) = Len(s) + 1
           /\ Front(Append(s, x)) = s
           /\ Last(Append(s, x)) = x
<1>1. Append(s, x) \in Seq(S) /\ Len(Append(s, x)) = Len(s) + 1 /\ Append(s, x)[Len(s) + 1] = x
  BY AppendProperties
<1>2. Len(s) \in Nat
  BY LenProperties
<1>3. Append(s, x) # <<>>
  BY <1>1, <1>2, EmptySeq
<1>4. SubSeq(Append(s, x), 1, Len(s)) = s
  <2>1. \A k \in 1..Len(s) : Append(s, x)[k] = s[k] /\ Append(s, x)[k] \in S
    BY AppendProperties, ElementOfSeq
  <2>2. /\ SubSeq(Append(s, x), 1, Len(s)) \in Seq(S)
        /\ Len(SubSeq(Append(s, x), 1, Len(s))) = Len(s)
        /\ \A k \in 1..Len(s) : SubSeq(Append(s, x), 1, Len(s))[k] = Append(s, x)[k]
    BY <1>1, <1>2, <2>1, SubSeqProperties
  <2> QED BY <2>1, <2>2, SeqEqual
<1> QED BY <1>1, <1>2, <1>3, <1>4 DEF Front, Last

\* A sequence with something appended at its end, with the sequence itself.
LEMMA AppendToReported ==
    ASSUME NEW S, NEW s \in Seq(S), s # <<>>
    PROVE  Append(Front(s), Last(s)) = s
<1>1. Len(s) \in Nat \ {0} /\ \A k \in 1..Len(s) : s[k] \in S
  BY EmptySeq, LenProperties, ElementOfSeq
<1>2. /\ Front(s) \in Seq(S) /\ Len(Front(s)) = Len(s) - 1
      /\ \A k \in 1..(Len(s) - 1) : Front(s)[k] = s[k]
  <2>1. PICK n \in Nat : n = Len(s) - 1
    BY <1>1
  <2>2. \A k \in 1..n : s[k] \in S
    BY <1>1, <2>1
  <2>3. /\ SubSeq(s, 1, n) \in Seq(S) /\ Len(SubSeq(s, 1, n)) = n
        /\ \A k \in 1..n : SubSeq(s, 1, n)[k] = s[k]
    BY <2>1, <2>2, SubSeqProperties
  <2> QED BY <2>1, <2>3 DEF Front
<1>3. Last(s) \in S /\ Last(s) = s[Len(s)]
  BY <1>1 DEF Last
<1>4. /\ Append(Front(s), Last(s)) \in Seq(S)
      /\ Len(Append(Front(s), Last(s))) = Len(s)
      /\ \A k \in 1..Len(s) : Append(Front(s), Last(s))[k] = s[k]
  BY <1>1, <1>2, <1>3, AppendProperties
<1> QED BY <1>4, SeqEqual

------------------------------------------------------------------------------
\* The first state satisfies the invariant.
LEMMA InitHolds == ASSUME ClientInit PROVE IInv
<1>1. command \in Commands /\ Len(File) \in Nat /\ <<>> \in Seq(Lines) /\ Len(<<>>) = 0
      /\ <<>> \in Seq(1..Len(File))
  BY CommandFacts, EmptySeq DEF ClientInit, File
<1> QED
  BY <1>1 DEF ClientInit, IInv, ClientTypeOK, Parsed, Counted, CalledFor, Unreported,
     ReportsFollowSends, Sending

\* Every way of ending the run keeps the invariant; only "failed" may leave the
\* last datagram unreported.
LEMMA EndKeeps ==
    ASSUME IInv, ~Ended, NEW how \in {"done", "refused", "failed"}, End(how),
           how # "failed" => pc # "report",
           how = "done" => Accepted(command)
    PROVE  IInv'
<1>1. ClientTypeOK'
  BY DEF IInv, ClientTypeOK, End, File, Lines
<1>2. Parsed' /\ Counted' /\ CalledFor'
  BY DEF IInv, Parsed, Counted, CalledFor, Sending, End, Accepted
<1>3. Unreported' /\ ReportsFollowSends'
  BY DEF IInv, Unreported, ReportsFollowSends, End, Ended
<1> QED BY <1>1, <1>2, <1>3 DEF IInv

\* Moving to a place outside of send_message keeps the invariant.
LEMMA MoveKeeps ==
    ASSUME IInv, pc \in {"parse", "setup_socket", "menu"},
           pc' \in {"setup_socket", "menu", "loop"},
           UNCHANGED <<command, choice, count, typed, sent, reported>>,
           Accepted(command)
    PROVE  IInv'
<1>1. ClientTypeOK'
  BY DEF IInv, ClientTypeOK, File, Lines
<1>2. Parsed' /\ Counted' /\ CalledFor'
  BY DEF IInv, Parsed, Counted, CalledFor, Sending, Accepted
<1>3. Unreported' /\ ReportsFollowSends'
  BY DEF IInv, Unreported, ReportsFollowSends
<1> QED BY <1>1, <1>2, <1>3 DEF IInv

\* sendto() puts sent one ahead of count and of reported.
LEMMA SendToKeeps == ASSUME IInv, SendTo PROVE IInv'
<1> DEFINE P == 1..Len(File)
<1>1. choice \in P /\ sent \in Seq(P) /\ Len(sent) = count /\ reported = sent /\ pc = "send"
  BY DEF IInv, ClientTypeOK, CalledFor, Sending, Counted, Unreported, SendTo
<1>2. /\ sent' \in Seq(P) /\ sent' # <<>> /\ Len(sent') = count + 1
      /\ Front(sent') = sent /\ Last(sent') = choice
  BY <1>1, FrontOfAppend DEF SendTo
<1>3. ClientTypeOK'
  BY <1>2 DEF IInv, ClientTypeOK, SendTo, File, Lines
<1>4. Parsed' /\ Counted' /\ CalledFor'
  BY <1>1, <1>2 DEF IInv, Parsed, Counted, CalledFor, Sending, SendTo, Accepted, File
<1>5. Unreported' /\ ReportsFollowSends'
  BY <1>1, <1>2 DEF Unreported, ReportsFollowSends, SendTo
<1> QED BY <1>3, <1>4, <1>5 DEF IInv

\* print() catches up.
LEMMA ReportKeeps == ASSUME IInv, Report PROVE IInv'
<1> DEFINE P == 1..Len(File)
<1>1. sent \in Seq(P) /\ sent # <<>> /\ reported = Front(sent) /\ Last(sent) = choice
  BY DEF IInv, ClientTypeOK, Unreported, Report
<1>2. reported' = sent
  BY <1>1, AppendToReported DEF Report
<1>3. ClientTypeOK'
  BY <1>1, <1>2 DEF IInv, ClientTypeOK, Report, File, Lines
<1>4. Parsed' /\ Counted' /\ CalledFor'
  BY DEF IInv, Parsed, Counted, CalledFor, Sending, Report, Accepted, File
<1>5. Unreported' /\ ReportsFollowSends'
  BY <1>2 DEF Unreported, ReportsFollowSends, Report
<1> QED BY <1>3, <1>4, <1>5 DEF IInv

\* The return of send_message is counted.
LEMMA SleepKeeps == ASSUME IInv, Sleep PROVE IInv'
<1>1. ClientTypeOK'
  BY DEF IInv, ClientTypeOK, Sleep, File, Lines
<1>2. Parsed' /\ Counted' /\ CalledFor'
  BY DEF IInv, ClientTypeOK, Parsed, Counted, CalledFor, Sending, Sleep, Accepted, File
<1>3. Unreported' /\ ReportsFollowSends'
  BY DEF IInv, Unreported, ReportsFollowSends, Sleep
<1> QED BY <1>1, <1>2, <1>3 DEF IInv

\* The loop of a mode calls send_message with a payload of the file.
LEMMA CallKeeps ==
    ASSUME IInv, pc = "loop", NEW i \in 1..Len(File), CallSend(i), typed' \in Seq(Lines),
           command.mode = "all_once" => i = count + 1,
           command.mode = "random" => MoreToSend
    PROVE  IInv'
<1>1. ClientTypeOK'
  BY DEF IInv, ClientTypeOK, CallSend, File, Lines
<1>2. Parsed' /\ Counted'
  BY DEF IInv, Parsed, Counted, CallSend, Accepted
<1>3. CalledFor'
  BY DEF CalledFor, Sending, CallSend, File, MoreToSend
<1>4. Unreported' /\ ReportsFollowSends'
  BY DEF IInv, Unreported, ReportsFollowSends, CallSend
<1> QED BY <1>1, <1>2, <1>3, <1>4 DEF IInv

\* A line from the operator that sends nothing.
LEMMA LineKeeps ==
    ASSUME IInv, pc = "loop", typed' \in Seq(Lines), pc' \in {"loop", "done", "failed"},
           UNCHANGED <<command, choice, count, sent, reported>>
    PROVE  IInv'
<1>1. ClientTypeOK'
  BY DEF IInv, ClientTypeOK, File, Lines
<1>2. Parsed' /\ Counted' /\ CalledFor'
  BY DEF IInv, Parsed, Counted, CalledFor, Sending, Accepted
<1>3. Unreported' /\ ReportsFollowSends'
  BY DEF IInv, Unreported, ReportsFollowSends
<1> QED BY <1>1, <1>2, <1>3 DEF IInv

\* The steps the program takes by itself keep the invariant.
LEMMA ClientStepKeeps == ASSUME IInv, ClientStep PROVE IInv'
<1>1. CASE Parse
  BY <1>1, MoveKeeps DEF Parse
<1>2. CASE Refuse
  BY <1>2, EndKeeps DEF Refuse, Ended
<1>3. CASE SetupSocket
  <2>1. Accepted(command)
    BY <1>3 DEF SetupSocket, IInv, Parsed
  <2> QED BY <1>3, <2>1, MoveKeeps DEF SetupSocket
<1>4. CASE BindFails
  BY <1>4, EndKeeps DEF BindFails, Ended
<1>5. CASE SendTo
  BY <1>5, SendToKeeps
<1>6. CASE SendFails
  BY <1>6, EndKeeps DEF SendFails, Ended
<1>7. CASE Report
  BY <1>7, ReportKeeps
<1>8. CASE ReportFails
  BY <1>8, EndKeeps DEF ReportFails, Ended
<1>9. CASE Sleep
  BY <1>9, SleepKeeps
<1>10. CASE SleepFails
  BY <1>10, EndKeeps DEF SleepFails, Ended
<1>11. CASE AllOnceNext
  <2>1. command \in Commands /\ count \in Nat /\ typed \in Seq(Lines)
    BY DEF IInv, ClientTypeOK
  <2>2. Len(File) \in Nat
    BY <2>1, CommandFacts DEF File
  <2>3. count + 1 \in 1..Len(File)
    BY <1>11, <2>1, <2>2 DEF AllOnceNext
  <2>4. typed' \in Seq(Lines)
    BY <1>11, <2>1 DEF AllOnceNext
  <2> QED BY <1>11, <2>3, <2>4, CallKeeps DEF AllOnceNext
<1>12. CASE AllOnceEnds
  <2>1. Accepted(command)
    BY <1>12 DEF AllOnceEnds, IInv, Parsed
  <2> QED BY <1>12, <2>1, EndKeeps DEF AllOnceEnds, Ended
<1>13. CASE RandomNext
  <2>1. typed' \in Seq(Lines)
    BY <1>13 DEF RandomNext, IInv, ClientTypeOK
  <2>2. PICK i \in 1..Len(File) : CallSend(i)
    BY <1>13 DEF RandomNext
  <2> QED BY <1>13, <2>1, <2>2, CallKeeps DEF RandomNext
<1>14. CASE RandomFails
  BY <1>14, EndKeeps DEF RandomFails, Ended
<1>15. CASE RandomEnds
  <2>1. Accepted(command)
    BY <1>15 DEF RandomEnds, IInv, Parsed
  <2> QED BY <1>15, <2>1, EndKeeps DEF RandomEnds, Ended
<1>16. CASE Menu
  <2>1. Accepted(command)
    BY <1>16 DEF Menu, IInv, Parsed
  <2> QED BY <1>16, <2>1, MoveKeeps DEF Menu
<1>17. CASE MenuFails
  BY <1>17, EndKeeps DEF MenuFails, Ended
<1> QED
  BY <1>1, <1>2, <1>3, <1>4, <1>5, <1>6, <1>7, <1>8, <1>9, <1>10, <1>11, <1>12, <1>13,
     <1>14, <1>15, <1>16, <1>17 DEF ClientStep

\* So do the operator's lines and a signal.
LEMMA OperatorKeeps == ASSUME IInv, Operator PROVE IInv'
<1>1. ASSUME NEW line \in Lines, Prompted(line)
      PROVE  typed' \in Seq(Lines) /\ pc = "loop" /\ command.mode = "manual"
  BY <1>1, AppendProperties DEF Prompted, IInv, ClientTypeOK
<1>2. CASE \E line \in Lines : Choose(line)
  <2>1. PICK line \in Lines : Choose(line)
    BY <1>2
  <2>2. Len(File) \in Nat
    BY CommandFacts DEF IInv, ClientTypeOK, File
  <2>3. Place(line.n) \in 1..Len(File)
    BY <2>1, <2>2 DEF Choose, InRange, Place, Lines
  <2> QED BY <1>1, <2>1, <2>3, CallKeeps DEF Choose
<1>3. CASE \E line \in Lines : TryAgain(line)
  BY <1>1, <1>3, LineKeeps DEF TryAgain
<1>4. CASE \E line \in Lines : Exit(line)
  BY <1>1, <1>4, LineKeeps DEF Exit
<1>5. CASE \E line \in Lines : InputFails(line)
  BY <1>1, <1>5, LineKeeps DEF InputFails
<1>6. CASE Interrupt
  BY <1>6, EndKeeps DEF Interrupt
<1> QED BY <1>2, <1>3, <1>4, <1>5, <1>6 DEF Operator

LEMMA NextKeeps == ASSUME IInv, [ClientNext]_clientVars PROVE IInv'
<1>1. CASE ClientStep
  BY <1>1, ClientStepKeeps
<1>2. CASE Operator
  BY <1>2, OperatorKeeps
<1>3. CASE UNCHANGED clientVars
  <2>1. ClientTypeOK' /\ Parsed'
    BY <1>3 DEF IInv, ClientTypeOK, Parsed, Accepted, clientVars, File, Lines
  <2>2. Counted' /\ CalledFor' /\ Unreported' /\ ReportsFollowSends'
    BY <1>3 DEF IInv, Counted, CalledFor, Sending, MoreToSend, Unreported, ReportsFollowSends,
       clientVars, File
  <2> QED BY <2>1, <2>2 DEF IInv
<1> QED BY <1>1, <1>2, <1>3 DEF ClientNext

THEOREM Invariance == ClientSpec => []IInv
<1>1. ClientInit => IInv
  BY InitHolds
<1>2. IInv /\ [ClientNext]_clientVars => IInv'
  BY NextKeeps
<1> QED BY <1>1, <1>2, PTL DEF ClientSpec

\* For any command lines and payloads, every variable of the client keeps its
\* type; in particular the payload being sent is one of the file's.
THEOREM ClientTypes == ClientSpec => []ClientTypeOK
<1>1. IInv => ClientTypeOK
  BY DEF IInv
<1> QED BY <1>1, Invariance, PTL

\* In every mode and however the run ends, the reports are the datagrams sent,
\* in order, but for the last at most.
THEOREM ReportsAreTrue == ClientSpec => []ReportsFollowSends
<1>1. IInv => ReportsFollowSends
  BY DEF IInv
<1> QED BY <1>1, Invariance, PTL

------------------------------------------------------------------------------
(* Manual mode *)

\* A function that gives, for each number of lines, the options chosen so far.
Chooses(f, lines) == f = [k \in 0..Len(lines) |-> ChosenBy(f, lines, k)]

\* One more line adds the option it names, if it names one.
LEMMA OneMoreLine ==
    ASSUME NEW lines \in Seq(Lines), NEW line \in Lines, NEW f, Chooses(f, lines)
    PROVE  \E g : /\ Chooses(g, Append(lines, line))
                  /\ g[Len(Append(lines, line))] =
                        IF IsOption(line) THEN Append(f[Len(lines)], line.n + 1) ELSE f[Len(lines)]
<1> DEFINE more == Append(lines, line)
           last == IF IsOption(line) THEN Append(f[Len(lines)], line.n + 1) ELSE f[Len(lines)]
           g == [k \in 0..Len(more) |-> IF k = Len(more) THEN last ELSE f[k]]
<1>1. /\ Len(lines) \in Nat /\ Len(more) = Len(lines) + 1 /\ more[Len(lines) + 1] = line
      /\ \A k \in 1..Len(lines) : more[k] = lines[k]
  BY LenProperties, AppendProperties
<1> HIDE DEF more
<1>2. g[Len(more)] = last /\ \A k \in 0..Len(lines) : g[k] = f[k]
  BY <1>1
<1>3. \A k \in 0..Len(lines) : f[k] = ChosenBy(f, lines, k)
  BY DEF Chooses
<1>4. g = [k \in 0..Len(more) |-> g[k]]
  OBVIOUS
<1> HIDE DEF g
<1>5. ASSUME NEW k \in 0..Len(more) PROVE g[k] = ChosenBy(g, more, k)
  <2>1. CASE k = Len(more)
    <3>1. k # 0 /\ k - 1 = Len(lines) /\ more[k] = line /\ Len(lines) \in 0..Len(lines)
      BY <1>1, <2>1
    <3>2. g[k-1] = f[Len(lines)]
      BY <1>2, <3>1
    <3> QED BY <1>2, <2>1, <3>1, <3>2 DEF ChosenBy
  <2>2. CASE k # Len(more) /\ k # 0
    <3>1. k \in 1..Len(lines) /\ k \in 0..Len(lines) /\ k - 1 \in 0..Len(lines)
      BY <1>1, <2>2
    <3>2. g[k] = f[k] /\ g[k-1] = f[k-1] /\ more[k] = lines[k]
      BY <1>1, <1>2, <3>1
    <3> QED BY <1>3, <2>2, <3>1, <3>2 DEF ChosenBy
  <2>3. CASE k # Len(more) /\ k = 0
    <3>1. 0 \in 0..Len(lines)
      BY <1>1
    <3> QED BY <1>2, <1>3, <2>3, <3>1 DEF ChosenBy
  <2> QED BY <2>1, <2>2, <2>3
<1>6. Chooses(g, more)
  BY <1>4, <1>5 DEF Chooses
<1> HIDE DEF last
<1>7. \E h : Chooses(h, more) /\ h[Len(more)] = last
  BY <1>2, <1>6
<1> QED BY <1>7 DEF more, last

\* There is no other such function: two agree on the fewest lines on which they
\* might not.
LEMMA ChoosesOne ==
    ASSUME NEW lines \in Seq(Lines), NEW f, NEW g, Chooses(f, lines), Chooses(g, lines)
    PROVE  f = g
<1> DEFINE Apart == {k \in 0..Len(lines) : f[k] # g[k]}
<1>1. Len(lines) \in Nat
  BY LenProperties
<1>2. \A k \in 0..Len(lines) : f[k] = ChosenBy(f, lines, k) /\ g[k] = ChosenBy(g, lines, k)
  BY DEF Chooses
<1>3. Apart = {}
  <2> SUFFICES ASSUME Apart # {} PROVE FALSE
    OBVIOUS
  <2>1. PICK k \in Apart : \A l \in Apart : k <= l
    <3>1. Apart \subseteq Nat
      BY <1>1
    <3> HIDE DEF Apart
    <3> QED BY <3>1, Least
  <2>2. k \in 0..Len(lines) /\ f[k] # g[k]
    OBVIOUS
  <2>3. k = 0
    <3> SUFFICES ASSUME k # 0 PROVE FALSE
      OBVIOUS
    <3>1. k - 1 \in 0..Len(lines) /\ ~(k <= k - 1)
      BY <1>1, <2>2
    <3>2. f[k-1] = g[k-1]
      BY <2>1, <3>1
    <3> QED BY <1>2, <2>2, <3>2 DEF ChosenBy
  <2> QED BY <1>2, <2>2, <2>3 DEF ChosenBy
<1>4. \A k \in 0..Len(lines) : f[k] = g[k]
  BY <1>3
<1>5. /\ f = [k \in 0..Len(lines) |-> f[k]]
      /\ g = [k \in 0..Len(lines) |-> g[k]]
  BY DEF Chooses
<1> QED BY <1>4, <1>5

LEMMA ChosenIs ==
    ASSUME typed \in Seq(Lines), NEW f, Chooses(f, typed)
    PROVE  Chosen = f[Len(typed)]
<1> DEFINE Solves(g) == Chooses(g, typed)
           c == CHOOSE g : Solves(g)
<1>1. Solves(c)
  <2>1. Solves(f)
    OBVIOUS
  <2> HIDE DEF Solves
  <2> QED BY <2>1
<1>2. Chosen = c[Len(typed)]
  BY DEF Chosen, Chooses
<1>3. c = f
  <2> HIDE DEF c
  <2> QED BY <1>1, ChoosesOne
<1> HIDE DEF c
<1> QED BY <1>2, <1>3

\* In manual mode the choices are sent, but for the last one from its prompt to
\* its sendto().
Followed(choices) ==
    /\ pc = "send" => choices # <<>> /\ sent = Front(choices) /\ choice = Last(choices)
    /\ pc = "failed" => sent = choices \/ (choices # <<>> /\ sent = Front(choices))
    /\ pc \notin {"send", "failed"} => sent = choices
    /\ pc = "done" => typed # <<>> /\ Last(typed).kind = "exit"

ManualInv ==
    \E f : /\ Chooses(f, typed)
           /\ f[Len(typed)] \in Seq(1..Len(File))
           /\ Accepted(command) /\ command.mode = "manual" => Followed(f[Len(typed)])

LEMMA ManualInit == ASSUME ClientInit PROVE ManualInv
<1> DEFINE f == [k \in 0..0 |-> <<>>]
<1>1. /\ typed = <<>> /\ sent = <<>> /\ pc = "parse" /\ Len(typed) = 0
      /\ <<>> \in Seq(1..Len(File))
  BY EmptySeq DEF ClientInit
<1>2. f[0] = <<>> /\ f = [k \in 0..0 |-> f[k]]
  OBVIOUS
<1> HIDE DEF f
<1>3. Chooses(f, typed)
  BY <1>1, <1>2 DEF Chooses, ChosenBy
<1>4. Followed(f[Len(typed)])
  BY <1>1, <1>2 DEF Followed
<1> QED BY <1>1, <1>2, <1>3, <1>4 DEF ManualInv

\* The program's steps do not read a line.
LEMMA ClientStepFollows == ASSUME IInv, ManualInv, ClientStep PROVE ManualInv'
<1>1. UNCHANGED <<command, typed>>
  BY DEF ClientStep, Parse, Refuse, SetupSocket, BindFails, SendTo, SendFails, Report,
     ReportFails, Sleep, SleepFails, AllOnceNext, AllOnceEnds, RandomNext, RandomFails,
     RandomEnds, Menu, MenuFails, End, CallSend
<1>2. PICK f : /\ Chooses(f, typed) /\ f[Len(typed)] \in Seq(1..Len(File))
               /\ Accepted(command) /\ command.mode = "manual" => Followed(f[Len(typed)])
  BY DEF ManualInv
<1>3. Chooses(f, typed)' /\ f[Len(typed')] \in Seq(1..Len(File'))
  BY <1>1, <1>2, Zenon DEF Chooses, ChosenBy, IsOption, File
<1>4. ASSUME Accepted(command), command.mode = "manual" PROVE Followed(f[Len(typed)])'
  <2> DEFINE choices == f[Len(typed)]
  <2>1. Followed(choices) /\ choices \in Seq(1..Len(File))
    BY <1>2, <1>4
  <2> HIDE DEF choices
  <2>2. CASE SendTo
    <3>1. sent' = choices /\ pc' = "report"
      BY <2>1, <2>2, AppendToReported DEF SendTo, Followed
    <3> QED BY <1>1, <3>1 DEF Followed, choices
  <2>3. CASE pc # "send" /\ UNCHANGED sent /\ pc' \notin {"send", "done"} /\ pc # "failed"
    <3>1. sent' = choices
      BY <2>1, <2>3 DEF Followed
    <3> QED BY <1>1, <2>3, <3>1 DEF Followed, choices
  <2>4. CASE SendFails
    BY <1>1, <2>1, <2>4 DEF SendFails, End, Followed, choices
  <2> QED
    BY <1>4, <2>2, <2>3, <2>4
    DEF ClientStep, Parse, Refuse, SetupSocket, BindFails, Report, ReportFails, Sleep,
        SleepFails, AllOnceNext, AllOnceEnds, RandomNext, RandomFails, RandomEnds, Menu,
        MenuFails, End
<1> QED BY <1>1, <1>3, <1>4 DEF ManualInv, Accepted

\* A line that names an option leads to send_message, any other does not.
LEMMA OperatorFollows == ASSUME IInv, ManualInv, Operator PROVE ManualInv'
<1>1. PICK f : /\ Chooses(f, typed) /\ f[Len(typed)] \in Seq(1..Len(File))
               /\ Accepted(command) /\ command.mode = "manual" => Followed(f[Len(typed)])
  BY DEF ManualInv
<1>2. typed \in Seq(Lines) /\ Len(File) \in Nat
  BY CommandFacts DEF IInv, ClientTypeOK, File
<1>3. ASSUME NEW line \in Lines, Prompted(line), UNCHANGED <<command, sent>>,
             \/ IsOption(line) /\ pc' = "send" /\ choice' = line.n + 1
             \/ ~IsOption(line) /\ pc' \in {"loop", "done", "failed"}
                /\ (pc' = "done" => line.kind = "exit")
      PROVE  ManualInv'
  <2> DEFINE choices == f[Len(typed)]
             after == IF IsOption(line) THEN Append(choices, line.n + 1) ELSE choices
  <2>1. typed' = Append(typed, line) /\ pc = "loop"
    BY <1>3 DEF Prompted
  <2>2. PICK g : Chooses(g, typed') /\ g[Len(typed')] = after
    BY <1>1, <1>2, <2>1, OneMoreLine, Zenon
  <2>3. choices \in Seq(1..Len(File))
    BY <1>1
  <2>4. Chooses(g, typed)' /\ File' = File
    BY <1>3, <2>2, Zenon DEF Chooses, ChosenBy, IsOption, File
  <2>5. IsOption(line) => /\ line.n + 1 \in 1..Len(File)
                         /\ after \in Seq(1..Len(File)) /\ after # <<>>
                         /\ Front(after) = choices /\ Last(after) = line.n + 1
    <3>1. IsOption(line) => line.n + 1 \in 1..Len(File)
      BY <1>2 DEF IsOption
    <3> HIDE DEF choices
    <3> QED BY <2>3, <3>1, FrontOfAppend
  <2>6. ~IsOption(line) => after = choices
    OBVIOUS
  <2>7. typed' # <<>> /\ Last(typed') = line
    BY <1>2, <2>1, FrontOfAppend
  <2> HIDE DEF choices, after
  <2>8. ASSUME Accepted(command), command.mode = "manual" PROVE Followed(g[Len(typed)])'
    <3>1. sent = choices
      BY <1>1, <2>1, <2>8 DEF Followed, choices
    <3> QED BY <1>3, <2>2, <2>5, <2>6, <2>7, <3>1 DEF Followed
  <2>9. after \in Seq(1..Len(File))
    BY <2>3, <2>5, <2>6
  <2> QED BY <1>3, <2>2, <2>4, <2>8, <2>9 DEF ManualInv, Accepted
<1>4. CASE \E line \in Lines : Choose(line)
  <2>1. PICK line \in Lines : Choose(line)
    BY <1>4
  <2>2. /\ IsOption(line) /\ pc' = "send" /\ choice' = line.n + 1
        /\ Prompted(line) /\ UNCHANGED <<command, sent>>
    BY <1>2, <2>1 DEF Choose, InRange, CallSend, Place, IsOption
  <2> QED BY <1>3, <2>2
<1>5. CASE \E line \in Lines : TryAgain(line)
  <2>1. PICK line \in Lines : TryAgain(line)
    BY <1>5
  <2>2. /\ ~IsOption(line) /\ pc' = "loop" /\ Prompted(line) /\ UNCHANGED <<command, sent>>
    BY <2>1 DEF TryAgain, InRange, IsOption, Prompted
  <2> QED BY <1>3, <2>2
<1>6. CASE \E line \in Lines : Exit(line) \/ InputFails(line)
  <2>1. PICK line \in Lines : Exit(line) \/ InputFails(line)
    BY <1>6
  <2>2. /\ ~IsOption(line) /\ pc' \in {"done", "failed"} /\ (pc' = "done" => line.kind = "exit")
        /\ Prompted(line) /\ UNCHANGED <<command, sent>>
    BY <2>1 DEF Exit, InputFails, IsOption
  <2> QED BY <1>3, <2>2
<1>7. CASE Interrupt
  <2>1. UNCHANGED <<command, typed, sent>> /\ pc' = "failed" /\ pc # "failed"
    BY <1>7 DEF Interrupt, End, Ended
  <2>2. Chooses(f, typed)' /\ f[Len(typed')] \in Seq(1..Len(File'))
    BY <1>1, <2>1, Zenon DEF Chooses, ChosenBy, IsOption, File
  <2>3. Accepted(command) /\ command.mode = "manual" => Followed(f[Len(typed)])'
    BY <1>1, <2>1 DEF Followed
  <2> QED BY <2>1, <2>2, <2>3 DEF ManualInv, Accepted
<1> QED BY <1>4, <1>5, <1>6, <1>7 DEF Operator

THEOREM ManualInvariance == ClientSpec => []ManualInv
<1>1. ClientInit => ManualInv
  BY ManualInit
<1>2. IInv /\ ManualInv /\ [ClientNext]_clientVars => ManualInv'
  <2>1. ASSUME ManualInv, UNCHANGED clientVars PROVE ManualInv'
    BY <2>1, Zenon DEF ManualInv, Chooses, ChosenBy, IsOption, File, Followed, Accepted, clientVars
  <2> QED BY <2>1, ClientStepFollows, OperatorFollows DEF ClientNext
<1> QED BY <1>1, <1>2, Invariance, PTL DEF ClientSpec

\* In manual mode, whatever is typed and however the run ends, what is sent is
\* what was chosen, in order and as often, but for a last choice whose send
\* failed; and only "exit" is a success.
THEOREM OperatorIsFollowed == ClientSpec => []ManualFollowsOperator
<1>1. IInv /\ ManualInv => ManualFollowsOperator
  <2> SUFFICES ASSUME IInv, ManualInv, Accepted(command), command.mode = "manual"
               PROVE  /\ \/ sent = Chosen
                         \/ Chosen # <<>> /\ sent = Front(Chosen) /\ pc \in {"send", "failed"}
                      /\ pc = "done" => typed # <<>> /\ Last(typed).kind = "exit"
    BY DEF ManualFollowsOperator
  <2>1. PICK f : Chooses(f, typed) /\ Followed(f[Len(typed)])
    BY DEF ManualInv
  <2>2. Chosen = f[Len(typed)]
    BY <2>1, ChosenIs DEF IInv, ClientTypeOK
  <2> QED BY <2>1, <2>2 DEF Followed
<1> QED BY <1>1, Invariance, ManualInvariance, PTL

------------------------------------------------------------------------------
(* The refinement *)

\* A run that fails or is refused is a workload that fails.
LEMMA FailRefines ==
    ASSUME ~Ended, pc' \in {"refused", "failed"}, UNCHANGED <<command, sent>>
    PROVE  Work!Next
<1>1. Status = "running" /\ Status' = "failed"
  BY DEF Status, Ended
<1> QED BY <1>1 DEF Work!Next, Work!Fail

\* A run that succeeds is a workload that finishes, if it may.
LEMMA FinishRefines ==
    ASSUME ~Ended, pc' = "done", UNCHANGED <<command, sent>>, Work!Complete
    PROVE  Work!Next
<1>1. Status = "running" /\ Status' = "done"
  BY DEF Status, Ended
<1> QED BY <1>1 DEF Work!Next, Work!Finish

\* Everything else that sends nothing is a stutter.
LEMMA StutterRefines ==
    ASSUME ~Ended, pc' \notin {"done", "refused", "failed"}, UNCHANGED <<command, sent>>
    PROVE  UNCHANGED Work!vars
BY DEF Status, Ended, Work!vars

\* sendto() is the workload's next datagram.
LEMMA SendRefines == ASSUME IInv, SendTo PROVE Work!Next
<1>1. Status = "running" /\ Status' = "running"
  BY DEF Status, SendTo
<1>2. /\ choice \in 1..Len(command.input_file) /\ Len(sent) = count /\ count \in Nat
      /\ Accepted(command)
      /\ command.mode = "all_once" => choice = count + 1
      /\ command.mode = "random" => MoreToSend
  BY DEF IInv, ClientTypeOK, Parsed, Counted, CalledFor, Sending, SendTo, File
<1>3. Work!Due(choice)
  <2>1. command.mode \in {"all_once", "manual", "random"}
    BY <1>2 DEF Accepted, Modes
  <2> QED BY <1>2, <2>1 DEF Work!Due, MoreToSend
<1> QED BY <1>1, <1>2, <1>3 DEF Work!Next, Work!Send, SendTo

\* Every step of the client is a step of the workload or a stutter.
LEMMA StepRefines ==
    ASSUME IInv, [ClientNext]_clientVars
    PROVE  [Work!Next]_(Work!vars)
<1> USE DEF Ended
<1>1. CASE Parse \/ SetupSocket \/ Menu
  BY <1>1, StutterRefines DEF Parse, SetupSocket, Menu
<1>2. CASE Refuse \/ BindFails \/ SendFails \/ ReportFails \/ SleepFails \/ RandomFails
           \/ MenuFails \/ Interrupt
  BY <1>2, FailRefines
  DEF Refuse, BindFails, SendFails, ReportFails, SleepFails, RandomFails, MenuFails,
      Interrupt, End
<1>3. CASE SendTo
  BY <1>3, SendRefines
<1>4. CASE Report \/ Sleep
  BY <1>4, StutterRefines DEF Report, Sleep
<1>5. CASE AllOnceNext \/ RandomNext
  BY <1>5, StutterRefines DEF AllOnceNext, RandomNext, CallSend
<1>6. CASE AllOnceEnds
  <2>1. Work!Complete
    BY <1>6 DEF AllOnceEnds, IInv, Counted, Work!Complete, File
  <2> QED BY <1>6, <2>1, FinishRefines DEF AllOnceEnds, End
<1>7. CASE RandomEnds
  <2>1. command.count \in Int /\ command.count # None /\ count >= command.count
    <3>1. command.count # None /\ ~(count < command.count)
      BY <1>7 DEF RandomEnds, MoreToSend
    <3>2. command \in Commands /\ count \in Nat /\ Accepted(command)
      BY <1>7 DEF RandomEnds, IInv, ClientTypeOK, Parsed
    <3>3. command.count \in Int
      BY <3>1, <3>2, CommandFacts DEF Accepted
    <3> QED BY <3>1, <3>2, <3>3
  <2>2. Work!Complete
    BY <1>7, <2>1 DEF RandomEnds, IInv, Counted, Work!Complete
  <2> QED BY <1>7, <2>2, FinishRefines DEF RandomEnds, End
<1>8. CASE \E line \in Lines : Choose(line) \/ TryAgain(line)
  BY <1>8, StutterRefines DEF Choose, TryAgain, Prompted, CallSend
<1>9. CASE \E line \in Lines : Exit(line)
  BY <1>9, FinishRefines DEF Exit, Prompted, Work!Complete
<1>10. CASE \E line \in Lines : InputFails(line)
  BY <1>10, FailRefines DEF InputFails, Prompted
<1>11. CASE UNCHANGED clientVars
  BY <1>11 DEF clientVars, Work!vars, Status
<1> QED
  BY <1>1, <1>2, <1>3, <1>4, <1>5, <1>6, <1>7, <1>8, <1>9, <1>10, <1>11
  DEF ClientNext, ClientStep, Operator

\* For any command line the client implements the workload: it sends what its
\* mode says, in that order and number, and succeeds only when it is complete.
THEOREM ClientImplementsWorkload == ClientSpec => ImplementsWorkload
<1>1. ClientInit => Work!Init
  BY DEF ClientInit, Work!Init, Status
<1>2. IInv /\ [ClientNext]_clientVars => [Work!Next]_(Work!vars)
  BY StepRefines
<1> QED BY <1>1, <1>2, Invariance, PTL DEF ClientSpec, ImplementsWorkload, Work!Spec

==============================================================================
