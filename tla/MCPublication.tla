---------------------------- MODULE MCPublication ----------------------------
(***************************************************************************)
(* Publications in bytes of 32 values, words of 20 bits, topics of 2 and   *)
(* contents of 7 bytes.  The payloads stand for those of the sample files  *)
(* (a negative and a signed zero INT, SHORT_REAL, FLOAT with and without   *)
(* decimals, texts with and without a NUL, one that fills the struct) and  *)
(* for broken ones.                                                        *)
(***************************************************************************)
EXTENDS PublicationProperties

Describe(topic, type, number, scale, text) ==
    [topic |-> topic, type |-> type, number |-> number, scale |-> scale, text |-> text]

Payload(bytes, description) == [bytes |-> bytes, description |-> description]

Int10    == Payload(<<1, 2, 0, 1, 0, 0, 0, 10>>, Describe(<<1, 2>>, "INT", -10, 0, <<>>))
IntZero  == Payload(<<3, 0, 0, 1, 0, 0, 0, 0>>,  Describe(<<3>>, "INT", 0, 0, <<>>))
Short    == Payload(<<3, 0, 1, 7, 6>>,           Describe(<<3>>, "SHORT_REAL", 230, 2, <<>>))
Float042 == Payload(<<3, 0, 2, 1, 0, 0, 1, 10, 3>>, Describe(<<3>>, "FLOAT", -42, 3, <<>>))
Float17  == Payload(<<3, 0, 2, 0, 0, 0, 0, 17, 0>>, Describe(<<3>>, "FLOAT", 17, 0, <<>>))
FloatMax == Payload(<<3, 0, 2, 0, 1, 2, 3, 4, 6>>,  Describe(<<3>>, "FLOAT", 34916, 6, <<>>))
FloatBig == Payload(<<3, 0, 2, 0, 1, 2, 3, 4, 19>>, Describe(<<3>>, "FLOAT", 34916, 19, <<>>))
FloatBad == Payload(<<3, 0, 2, 0, 1, 2, 3, 4, 20>>, Describe(<<3>>, "FLOAT", 34916, 20, <<>>))
Ended1   == Payload(<<1, 2, 3, 5, 6, 0>>,        Describe(<<1, 2>>, "STRING", 0, 0, <<5, 6>>))
Open     == Payload(<<3, 0, 3, 5, 6>>,           Describe(<<3>>, "STRING", 0, 0, <<5, 6>>))
Huge     == Payload(<<3, 0, 3, 5, 6, 7, 8, 9, 5, 6>>,
                    Describe(<<3>>, "STRING", 0, 0, <<5, 6, 7, 8, 9, 5, 6>>))
Invalid  == Payload(<<3, 0, 4, 5>>,              Describe(<<3>>, "INVALID", 0, 0, <<>>))
Untold   == Payload(<<3, 0, 1, 7, 6>>, None)
NoBase64 == Payload(None, Describe(<<3>>, "INT", 1, 0, <<>>))

All == <<Int10, IntZero, Short, Float042, Float17, FloatMax, FloatBig, FloatBad,
         Ended1, Open, Huge, Invalid, Untold, NoBase64>>

MCPayloads == ToSet(All)

Defaults == [readable |-> TRUE, input_file |-> <<Int10, Open, Short>>,
             server_ip |-> "IPv4", server_port |-> 1024,
             source_address |-> "IPv4", source_port |-> None,
             mode |-> "all_once", count |-> None, delay |-> 0]

\* Command lines the parser refuses, and the ends of the range of ports.
Odd == {[Defaults EXCEPT !.readable = FALSE],
        [Defaults EXCEPT !.server_ip = "malformed"],
        [Defaults EXCEPT !.server_ip = "IPv6"],
        [Defaults EXCEPT !.source_address = "IPv6"],
        [Defaults EXCEPT !.server_port = 1023],
        [Defaults EXCEPT !.server_port = 65535],
        [Defaults EXCEPT !.server_port = 65536],
        [Defaults EXCEPT !.server_port = Text],
        [Defaults EXCEPT !.source_port = 0],
        [Defaults EXCEPT !.source_port = 1024],
        [Defaults EXCEPT !.mode = "other"],
        [Defaults EXCEPT !.delay = -1],
        [Defaults EXCEPT !.delay = Text],
        [Defaults EXCEPT !.mode = "random", !.count = Text]}

Files == {<<>>, <<Int10, Untold, Short>>, <<Open, NoBase64>>, <<Huge, Ended1, Float042, Open>>}

MCCommands ==
    Odd
    \cup {[Defaults EXCEPT !.input_file = file, !.mode = mode] :
             file \in Files, mode \in {"all_once", "manual"}}
    \cup {[Defaults EXCEPT !.mode = "random", !.input_file = file, !.count = n] :
             file \in {<<>>, <<Int10>>}, n \in {None, -1, 0, 1}}
    \cup {[Defaults EXCEPT !.mode = "random", !.count = 2,
             !.input_file = All]}

\* The texts of three_topics_payloads.json: a short one, one that fills the
\* struct, the short one again.
MCTexts == {[Defaults EXCEPT !.input_file = <<Open, Huge, Open>>]}

\* A struct whose memory holds NULs at the start and is left alone.
MCZeros == {[k \in 1..MessageSize |-> 0]}

MCNothing == {<<>>}

MCLeftovers == {[k \in 1..MessageSize |-> 31]}

MCBeyond == {<<>>, <<30>>}

==============================================================================
