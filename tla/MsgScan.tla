------------------------------ MODULE MsgScan ------------------------------
(***************************************************************************)
(* RTSP_full_msg_rcvd of src/rtsp/rtspservice.c: how long the message at   *)
(* the front of in_buffer is.                                              *)
(*                                                                         *)
(* A cell of the buffer stands for a byte or for a word of the message     *)
(* that is never cut by a line end: its part says which, and val is the    *)
(* number that a "number" or a "byte" reads as.  "length1" and "length2"   *)
(* are the two halves of the word Content-Length, so that it may be cut;   *)
(* "sep" is a colon or a space.  Positions count from 0, as in the code.   *)
(***************************************************************************)
EXTENDS Sequences, FiniteSetsExt

Nul == [req |-> 0, part |-> "nul", val |-> 0]

\* the cell at position k of the buffer b; past its end there is no message
At(b, k) == IF k + 1 \in DOMAIN b THEN b[k + 1] ELSE Nul
Part(b, k) == At(b, k).part

Eol == {"cr", "lf"}

\* ml + strcspn(&in_buffer[ml], "\r\n")
WordsEnd(b, ml) ==
    Min({j \in ml .. Len(b) : Part(b, j) \in Eol \cup {"nul"}} \cup {Len(b)})

\* how many of the cells from..to - 1 are line ends
EolsIn(b, from, to) == Cardinality({j \in from .. to - 1 : Part(b, j) \in Eol})

\* Where the line ends, and the blanks among the first of them, stop.
LineEnd(b, size, l) ==
    Min({j \in l .. size :
            \/ j = size
            \/ Part(b, j) \notin Eol /\ ~(Part(b, j) = "sep" /\ EolsIn(b, l, j) < 3)})

\* Faulty variant of EndsHeader: an empty line is two line ends of any kind.
EndsHeader_AnyTwo(b, l, tc) == tc >= 2

\* An empty line ends the header: more than two line ends, or two of a kind.
EndsHeader(b, l, tc) == tc > 2 \/ (tc = 2 /\ Part(b, l) = Part(b, l + 1))

\* Past the blanks and the colon after the word Content-Length.
Skip(b, size, ml) == Min({j \in ml .. size - 1 : Part(b, j) # "sep"} \cup {Max({ml, size})})

\* sscanf reads past line ends, and past what was received.
NumberAt(b, ml) == LET j == Min({j \in ml .. Len(b) : Part(b, j) \notin Eol} \cup {Len(b)})
                   IN  At(b, j)

\* Faulty variant of TrailingNuls: they are counted past what was received.
TrailingNuls_Unbounded(b, size, ml) ==
    Min({j \in ml .. Len(b) : Part(b, j) # "nul"} \cup {Len(b)}) - ml

\* The zeros after the message belong to it.
TrailingNuls(b, size, ml) ==
    Min({j \in ml .. size - 1 : Part(b, j) # "nul"} \cup {size}) - ml

NotFull == [ret |-> "RTSP_not_full", len |-> 0]
Error == [ret |-> "ERR_GENERIC", len |-> 0]
Received(ret, len) == [ret |-> ret, len |-> len]
Results == [ret : {"RTSP_not_full", "ERR_GENERIC", "RTSP_method_rcvd", "RTSP_interlvd_rcvd"},
            len : Int]

\* Between the turns of the loop: ml is the position, bl the length of the
\* body that a Content-Length line gave, mb that there was one.
Scanning(ml, bl, mb) == [ret |-> "scanning", ml |-> ml, bl |-> bl, mb |-> mb]
ScanState == [ret : {"scanning"}, ml : Nat, bl : Int, mb : BOOLEAN]

\* One turn of the loop, a line.  The length returned is hdr_len and body_len
\* together.
Turn(b, size, t) ==
    LET l == WordsEnd(b, t.ml)
        e == LineEnd(b, size, l)
        header == EndsHeader(b, l, EolsIn(b, l, e))
        n == Skip(b, size, e + 2)
    IN  IF t.ml > size THEN Received("RTSP_method_rcvd", t.ml)
        ELSE IF l = t.ml THEN Error
        ELSE IF l > size THEN NotFull
        ELSE IF header /\ e + t.bl \in 0 .. size
             THEN Received("RTSP_method_rcvd", e + t.bl + TrailingNuls(b, size, e + t.bl))
        ELSE IF header \/ e >= size THEN NotFull
        ELSE IF t.mb \/ Part(b, e) # "length1" \/ Part(b, e + 1) # "length2"
             THEN Scanning(e, t.bl, t.mb)
        ELSE IF NumberAt(b, n).part # "number" THEN Error
        ELSE Scanning(n, NumberAt(b, n).val, TRUE)

\* The turns from t on.
Turns(b, size) ==
    LET loop[t \in ScanState \cup Results] ==
            IF t.ret = "scanning" THEN loop[Turn(b, size, t)] ELSE t
    IN  loop

Method(b, size) == Turns(b, size)[Scanning(0, 0, FALSE)]

\* A '$' packet: the length of its payload is compared with all that was
\* received, the four bytes before the payload included.
Interleaved(b, size) ==
    LET bl == 256 * At(b, 2).val + At(b, 3).val
    IN  IF bl <= size THEN Received("RTSP_interlvd_rcvd", 4 + bl) ELSE NotFull

RTSP_full_msg_rcvd(b, size) ==
    IF Part(b, 0) = "dollar" THEN Interleaved(b, size) ELSE Method(b, size)
=============================================================================
