-------------------------------- MODULE Ascii --------------------------------
(***************************************************************************)
(* ASCII transfers: the conversions of utils.c and the loops of transfer.c *)
(* that apply them, to one buffer of the file when sending, to whatever    *)
(* one call of recv returned when receiving.  Bytes are "CR", "LF" and     *)
(* others.  What else may end the loops early is in SessionTransfer.       *)
(***************************************************************************)
EXTENDS Loops, FiniteSets, Functions

CONSTANT Buffer          \* TRANSFER_BUFFER_SIZE

ASSUME BufferIsPositive == Buffer \in Nat \ {0}

OK == "TRANSFER_STATUS_OK"
INTERNAL_ERROR == "TRANSFER_STATUS_INTERNAL_ERROR"
IO_ERROR == "TRANSFER_STATUS_IO_ERROR"

Small == <<"output buffer too small">>       \* the -1 of the conversions
Within(size, bytes) == IF Len(bytes) > size THEN Small ELSE bytes

\* "CRLF" at i: the loop writes LF and skips a byte.
PairAt(bytes, i) == i < Len(bytes) /\ bytes[i] = "CR" /\ bytes[i + 1] = "LF"

crlf_to_lf(bytes, size) ==
    Within(size, Written([i \in DOMAIN bytes |->
                     IF PairAt(bytes, i) THEN [put |-> <<"LF">>, next |-> i + 2]
                     ELSE [put |-> <<bytes[i]>>, next |-> i + 1]]))

lf_to_crlf(bytes, size) ==
    Within(size, Written([i \in DOMAIN bytes |->
                     [put  |-> IF bytes[i] = "LF" THEN <<"CR", "LF">> ELSE <<bytes[i]>>,
                      next |-> i + 1]]))

-----------------------------------------------------------------------------
(* The loops                                                               *)

\* What is written replaces what was there, and zeros fill a gap before it.
WriteAt(file, offset, bytes) ==
    LET end == offset + Len(bytes)
    IN  [i \in 1 .. IF end > Len(file) THEN end ELSE Len(file) |->
            IF i \in offset + 1 .. end THEN bytes[i - offset]
            ELSE IF i \in DOMAIN file THEN file[i] ELSE "zero"]

transfer_send_file_ascii(file, offset) ==
    LET from[o \in 0 .. Len(file)] ==
            LET to_read == IF Len(file) - o > Buffer THEN Buffer ELSE Len(file) - o
                bytes == lf_to_crlf(SubSeq(file, o + 1, o + to_read), 2 * Buffer)
                rest  == from[o + to_read]
            IN  IF o = Len(file) THEN [status |-> OK, sent |-> <<>>]
                ELSE IF bytes = Small THEN [status |-> INTERNAL_ERROR, sent |-> <<>>]
                ELSE [rest EXCEPT !.sent = bytes \o @]
    IN  IF offset > Len(file) THEN [status |-> IO_ERROR, sent |-> <<>>] ELSE from[offset]

\* A stream arrives in segments, one for each call of recv: cuts[k] bytes have
\* arrived with the k-th, none of them longer than the buffer.
Start(cuts, k) == IF k = 1 THEN 0 ELSE cuts[k - 1]
Segment(stream, cuts, k) == SubSeq(stream, Start(cuts, k) + 1, cuts[k])

IsCut(stream, cuts) ==
    /\ \A k \in DOMAIN cuts : cuts[k] - Start(cuts, k) \in 1 .. Buffer
    /\ Len(stream) = IF cuts = <<>> THEN 0 ELSE cuts[Len(cuts)]

\* One turn of the receiving loop, with the position "at" to write to.
Received(r, segment, at) ==
    LET bytes == crlf_to_lf(segment, Buffer)
    IN  IF r.status # OK THEN r
        ELSE IF bytes = Small THEN [r EXCEPT !.status = INTERNAL_ERROR]
        ELSE [r EXCEPT !.file = WriteAt(@, at, bytes),
                       !.total_received = @ + Len(segment),
                       !.total_written = @ + Len(bytes)]

Begun(file) == [status |-> OK, file |-> file, total_received |-> 0, total_written |-> 0]

\* A faulty variant: the file offset counts the bytes received.
ReceiveAtReceived(file, offset, stream, cuts) ==
    LET turn[k \in 0 .. Len(cuts)] ==
            LET r == turn[k - 1]
            IN  IF k = 0 THEN Begun(file)
                ELSE Received(r, Segment(stream, cuts, k), offset + r.total_received)
    IN  turn[Len(cuts)]

transfer_receive_file_ascii(file, offset, stream, cuts) ==
    LET turn[k \in 0 .. Len(cuts)] ==
            LET r == turn[k - 1]
            IN  IF k = 0 THEN Begun(file)
                ELSE Received(r, Segment(stream, cuts, k), offset + r.total_written)
    IN  turn[Len(cuts)]

-----------------------------------------------------------------------------
\* The elements of S up to n.
Rank(S, n) == Cardinality(S \cap 1 .. n)

\* What is to be stored: the bytes of the stream without each CR that LF
\* follows (transfer.c:466: "convert CRLF to LF").
Kept(stream) == {i \in DOMAIN stream : ~ PairAt(stream, i)}

\* The CRs whose LF came with the next call of recv.
Split(stream, cuts) == {i \in Range(cuts) : PairAt(stream, i)}

\* An upload takes every byte, writes from its offset on and leaves the rest of
\* the file.  Unless recv split a CRLF, what it writes is the stream with each
\* CRLF as LF, in its order (transfer.c:409-490).
UploadIsExact(file, offset, stream, cuts) ==
    LET r == transfer_receive_file_ascii(file, offset, stream, cuts)
        kept == Kept(stream)
        end  == offset + r.total_written
    IN  /\ r.status = OK /\ r.total_received = Len(stream)
        /\ Len(r.file) = IF end > Len(file) THEN end ELSE Len(file)
        /\ \A i \in DOMAIN file : i \notin offset + 1 .. end => r.file[i] = file[i]
        /\ Split(stream, cuts) = {} =>
              /\ r.total_written = Cardinality(kept)
              /\ \A i \in kept : r.file[offset + Rank(kept, i)] = stream[i]

\* A download sends every byte from the offset on, and crlf_to_lf on the
\* whole of the stream gives these bytes back, wherever the buffers of the
\* sender ended (transfer.c:310-357).
DownloadIsExact(file, offset) ==
    LET r == transfer_send_file_ascii(file, offset)
    IN  IF offset > Len(file) THEN r = [status |-> IO_ERROR, sent |-> <<>>]
        ELSE /\ r.status = OK
             /\ crlf_to_lf(r.sent, Len(r.sent)) = SubSeq(file, offset + 1, Len(file))
             /\ \A i \in DOMAIN r.sent : r.sent[i] = "LF" => i > 1 /\ r.sent[i - 1] = "CR"
=============================================================================
