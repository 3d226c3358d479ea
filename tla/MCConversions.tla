---------------------------- MODULE MCConversions ----------------------------
(***************************************************************************)
(* The pure algorithms over bounded inputs: a state is one input, given in *)
(* two steps so that TLC's workers share them, and the invariants compare  *)
(* what the code computes from it with what it is meant to compute.        *)
(***************************************************************************)
EXTENDS Ascii, Paths, Lines, Ports

CONSTANTS MaxFile, MaxStream,      \* bytes of a file, of an upload
          MaxName                  \* characters of a path argument

VARIABLES given, input
vars == <<given, input>>

None == [kind |-> "none"]

\* ASCII transfers: files and streams over CR, LF and another byte; uploads
\* into a file of other bytes.
Texts(n) == BoundedSeq({"CR", "LF", "x"}, n)
OldFiles == BoundedSeq({"o"}, MaxFile)

Upload == \E offset \in 0 .. Len(given.file) :
    input' = [kind |-> "upload", offset |-> offset, stream |-> <<>>, cuts |-> <<>>]

\* What one more call of recv returns.
Recv == \E segment \in Texts(Buffer) \ {<<>>} :
    LET received == Len(input.stream) + Len(segment)
    IN  /\ received <= MaxStream
        /\ input' = [input EXCEPT !.stream = @ \o segment, !.cuts = Append(@, received)]

Download == \E offset \in 0 .. Len(given.file) + 1 :
    input' = [kind |-> "download", file |-> given.file, offset |-> offset]

\* Path arguments of a session in one of three directories.
Bases == {<<"/">>, <<"/", "a">>, <<"/", "a", "/", "b">>}
Names == BoundedSeq({"/", "\\", ".", "a"}, MaxName)

Path == \E q \in Names \cup {<<"^">>, <<"a", "^">>} :
    input' = [kind |-> "path", base |-> given.base, p |-> given.p, q |-> q]

\* Command lines.
Typed(names, args, signals) ==
    UNION {{[name |-> n, argument |-> a, signal |-> s, at |-> i] :
                i \in 1 .. Len(Text([name |-> n, argument |-> a])) + 1} :
           n \in names, a \in args, s \in signals}

Arguments == {<<>>, <<"a">>, <<"IAC">>, <<"a", "SP", "IAC">>, <<"a", "a", "a", "a">>}
Signals == {<<>>, <<"IP">>, <<"IAC", "IP">>, <<"IAC", "IP", "IAC", "DM">>,
            <<"IAC", "DM", "IAC", "DM", "IAC", "DM">>}
FirstLines == Typed({<<"a">>, <<"A", "b">>}, Arguments, Signals)
NextLines == Typed({<<"A">>}, {<<>>, <<"a", "SP", "a">>}, {<<>>, <<"IAC", "IP">>})

Type ==
    \/ input' = [kind |-> "lines", typed |-> <<given.line>>]
    \/ \E d \in NextLines : input' = [kind |-> "lines", typed |-> <<given.line, d>>]

\* Ranges of passive ports, with at most two ports free.
Bind == \E start \in 0 .. given.max - given.min, free \in UNION {kSubset(k, Port) : k \in 0 .. 2} :
    input' = [kind |-> "ports", min |-> given.min, max |-> given.max, start |-> start, free |-> free]

-----------------------------------------------------------------------------
Given ==
    [kind : {"upload"}, file : OldFiles]
        \cup [kind : {"download"}, file : Texts(MaxStream)]
        \cup [kind : {"path"}, base : Bases, p : Names]
        \cup [kind : {"lines"}, line : FirstLines]
        \cup [kind : {"ports"}, min : Port \ {0}, max : Port]

Init == given \in Given /\ input = None

Next ==
    /\ UNCHANGED given
    /\ \/ /\ input = None
          /\ \/ given.kind = "upload" /\ Upload
             \/ given.kind = "download" /\ Download
             \/ given.kind = "path" /\ Path
             \/ given.kind = "lines" /\ Type
             \/ given.kind = "ports" /\ given.min <= given.max /\ Bind
       \/ input.kind = "upload" /\ Recv

Spec == Init /\ [][Next]_vars

\* The constants of the instance.
MCUpper == [c \in {"a", "b", "A", "SP", "CR", "LF", "IAC", "IP", "DM", "DO", "OPT"} |->
               CASE c = "a" -> "A" [] c = "b" -> "B" [] OTHER -> c]

-----------------------------------------------------------------------------
\* ASCII mode changes line ends and nothing else (transfer.c:257-512, utils.c:67-126).
AsciiExact ==
    /\ input.kind = "upload" => 
           UploadIsExact(given.file, input.offset, input.stream, input.cuts)
    /\ input.kind = "download" => DownloadIsExact(input.file, input.offset)

\* A path argument names one file, in whatever steps the client went to it
\* (session.c:1183-1267, protocol.c:350-419).
PathsExact ==
    input.kind = "path" =>
        /\ IsCanonical(input.base, input.p \o input.q)
        /\ Composes(input.base, input.p, input.q)
        /\ GoesUp(input.base, input.p)
        /\ GoesDown(input.base, input.p)

\* Commands are read as typed, with Telnet's signals among their bytes
\* (server.c:90-120, network.c:342-385, protocol.c:11-136).
LinesExact == input.kind = "lines" => ReadAsMeant(input.typed)

\* The passive range is searched whole, and the port found is the port told
\* (network.c:149-191, protocol.c:170-195, parser.py:134-165).
PortsExact ==
    input.kind = "ports" =>
        /\ FindsFree(input.min, input.max, input.start, input.free)
        /\ Carries(input.min) /\ Carries(input.max)

\* transfer.c:466: "On Unix, convert CRLF to LF", however recv cut the stream.
CrlfNeverStored ==
    input.kind = "upload" =>
        transfer_receive_file_ascii(<<>>, 0, input.stream, input.cuts).file
            = crlf_to_lf(input.stream, Len(input.stream))

\* protocol.c:57 "Skip command and option bytes": the option is no part of a
\* command.
OptionsAreSkipped ==
    input.kind = "lines" =>
        proto_parse_command(<<"IAC", "DO", "OPT">> \o Sent(input.typed[1]))
            = proto_parse_command(Sent(input.typed[1]))
=============================================================================
