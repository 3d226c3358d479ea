-------------------------------- MODULE Lines --------------------------------
(***************************************************************************)
(* How the bytes of the control connection become commands: lines          *)
(* (net_receive_line, network.c), the Telnet filter and the split into     *)
(* name and argument (proto_parse_command, protocol.c), and the loop of    *)
(* client_thread.  Urgent data arrives in line (server.c:58), so the bytes *)
(* a client sends before ABOR are part of what is filtered here.           *)
(* A byte is a letter or one of "CR", "LF", "SP", "IAC", "IP" and others   *)
(* of Telnet's; the end of a string, NUL, is one of them.                  *)
(***************************************************************************)
EXTENDS Loops, SequencesExt

CONSTANTS LineSize,         \* sizeof command_buffer in client_thread
          ParseSize,        \* sizeof buffer in proto_parse_command
          NameSize,         \* PROTO_MAX_CMD_NAME
          ArgSize,          \* PROTO_MAX_CMD_ARG
          TelnetCommands,   \* the bytes from 0xF0 to 0xFE, "IP" one of them
          Upper             \* Upper[c]: toupper

ASSUME SizesArePositive ==
    /\ {ParseSize, NameSize, ArgSize} \subseteq Nat \ {0}
    /\ LineSize \in Nat /\ LineSize >= 3                \* net_receive_line wants it

ASSUME TelnetHasSignals == {"IP", "DM"} \subseteq TelnetCommands

Crlf == <<"CR", "LF">>
Space == {"SP", "CR", "LF"}                          \* isspace
First(bytes, n) == SubSeq(bytes, 1, Min({n, Len(bytes)}))
UpTo(bytes, c) == First(bytes, Min({i - 1 : i \in {j \in DOMAIN bytes : bytes[j] = c}}
                                       \cup {Len(bytes)}))

-----------------------------------------------------------------------------
\* net_receive_line: up to the first CRLF, "too long" when the buffer is full
\* first, "more" while the rest has not arrived.
net_receive_line(stream) ==
    LET ends == {i \in 2 .. Min({Len(stream), LineSize - 1}) :
                    stream[i - 1] = "CR" /\ stream[i] = "LF"}
    IN  IF ends # {} THEN [result |-> "line", line |-> SubSeq(stream, 1, Min(ends))]
        ELSE IF Len(stream) >= LineSize - 1 THEN [result |-> "too long", line |-> <<>>]
        ELSE [result |-> "more", line |-> <<>>]

trim_whitespace(text) ==
    LET kept == {i \in DOMAIN text : text[i] \notin Space}
    IN  IF kept = {} THEN <<>> ELSE SubSeq(text, Min(kept), Max(kept))

\* A faulty variant: IAC IAC is skipped like a Telnet command.
FilterDropsEscaped(line) ==
    Written([i \in DOMAIN line |->
        IF line[i] = "IAC" /\ i < Len(line)
        THEN [put  |-> <<>>,
              next |-> IF line[i + 1] \in TelnetCommands \cup {"IAC"} THEN i + 2 ELSE i + 3]
        ELSE [put  |-> IF line[i] \in {"IAC", "IP"} THEN <<>> ELSE <<line[i]>>,
              next |-> i + 1]])

\* The Telnet filter.  All of 0xF0 to 0xFE are skipped as commands, WILL, WONT,
\* DO and DONT too: their own branch (line 53) is never reached, and their
\* option byte stays.  After any other byte one more is skipped (line 69).
Filter(line) ==
    Written([i \in DOMAIN line |->
        IF line[i] = "IAC" /\ i < Len(line)
        THEN [put  |-> IF line[i + 1] = "IAC" THEN <<"IAC">> ELSE <<>>,
              next |-> IF line[i + 1] \in TelnetCommands \cup {"IAC"} THEN i + 2 ELSE i + 3]
        ELSE [put  |-> IF line[i] \in {"IAC", "IP"} THEN <<>> ELSE <<line[i]>>,
              next |-> i + 1]])

CutCrlf(text) ==
    First(text, Min({i - 1 : i \in {j \in 1 .. Len(text) - 1 : SubSeq(text, j, j + 1) = Crlf}}
                        \cup {Len(text)}))

to_uppercase(text) == [i \in DOMAIN text |-> Upper[text[i]]]

SyntaxError == [command |-> <<>>, argument |-> <<"500">>]

proto_parse_command(line) ==
    LET given == UpTo(line, "NUL")
        text  == trim_whitespace(CutCrlf(Filter(given)))
        name  == UpTo(text, "SP")
    IN  IF Len(given) >= ParseSize \/ text = <<>> THEN SyntaxError
        ELSE [command  |-> to_uppercase(First(name, NameSize - 1)),
              argument |-> First(trim_whitespace(SubSeq(text, Len(name) + 2, Len(text))),
                                 ArgSize - 1)]

Left == [command |-> <<>>, argument |-> <<"closed">>]

\* The loop of client_thread on what has arrived: the commands it dispatches
\* (or refuses with 500), and that it leaves the session, if it does.
client_thread(stream) ==
    Written([n \in DOMAIN stream |->
        LET r == net_receive_line(SubSeq(stream, n, Len(stream)))
        IN  IF r.result = "line"
            THEN [put |-> <<proto_parse_command(r.line)>>, next |-> n + Len(r.line)]
            ELSE [put  |-> IF r.result = "too long" THEN <<Left>> ELSE <<>>,
                  next |-> Len(stream) + 1]])

-----------------------------------------------------------------------------
\* What a client types: a name, an argument, and Telnet signals in front of
\* any byte and of the end of the line.
Escaped(bytes) == Concat([i \in DOMAIN bytes |->
                             IF bytes[i] = "IAC" THEN <<"IAC", "IAC">> ELSE <<bytes[i]>>])

Text(c) == IF c.argument = <<>> THEN c.name ELSE c.name \o <<"SP">> \o c.argument

\* The signal stands before the byte c.at of the text.
Sent(c) ==
    LET text == Text(c)
    IN  Escaped(SubSeq(text, 1, c.at - 1)) \o c.signal
            \o Escaped(SubSeq(text, c.at, Len(text))) \o Crlf

Meant(c) == [command |-> to_uppercase(c.name), argument |-> c.argument]

Short(c) == Len(c.name) < NameSize /\ Len(c.argument) < ArgSize

\* Commands typed one after the other are read as they were meant, in that
\* order, with Telnet's signals IP and DM among their bytes (not the four
\* commands that have an option byte); one too long for the parser is answered
\* 500 and the next is read, one too long for the line buffer ends the session
\* (server.c:90-120, network.c:342-385, protocol.c:32-133).
ReadAsMeant(typed) ==
    LET stream == Concat([k \in DOMAIN typed |-> Sent(typed[k])])
        longs  == {k \in DOMAIN typed : Len(Sent(typed[k])) >= LineSize}
        read   == client_thread(stream)
        n      == Min({k - 1 : k \in longs} \cup {Len(typed)})
    IN  /\ Len(read) = IF longs = {} THEN n ELSE n + 1
        /\ longs # {} => read[n + 1] = Left
        /\ \A k \in 1 .. n :
              IF Len(Sent(typed[k])) >= ParseSize THEN read[k] = SyntaxError
              ELSE Short(typed[k]) => read[k] = Meant(typed[k])
=============================================================================
