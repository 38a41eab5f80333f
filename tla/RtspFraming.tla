----------------------------- MODULE RtspFraming ----------------------------
(***************************************************************************)
(* How src/rtsp/rtspservice.c cuts the byte stream of one connection into  *)
(* requests: RtspServer reads what has arrived into in_buffer,             *)
(* RTSP_handler handles the request at its front until the buffer is empty *)
(* and RTSP_discard_msg removes it, and what was answered meanwhile is     *)
(* written when the handler is done.                                       *)
(*                                                                         *)
(* A request is a few cells of the buffer (MsgScan): its lines, the empty  *)
(* line and its body.  A '$' packet of interleaved data counts as a        *)
(* request, since the handler treats it as one before it is discarded.     *)
(* Bodies do not begin with a line end, which the code takes for one of    *)
(* the header.                                                             *)
(*                                                                         *)
(* The overflow test of RtspServer is left out: the handler returns with   *)
(* in_size 0, so a read, of RTSP_BUFFERSIZE at most, always fits.          *)
(***************************************************************************)
EXTENDS MsgScan

CONSTANTS RTSP_BUFFERSIZE,  \* cells of in_buffer (4096 bytes in the code)
          OUT_BUFFERSIZE,   \* replies that out_buffer has room for
          Kinds,            \* the kinds of requests the client sends
          MaxRequests       \* bound: requests the client sends

KnownKinds == {"plain", "session", "body", "no_cseq", "packet"}

ASSUME FramingAssumption == /\ RTSP_BUFFERSIZE \in Nat \ {0}
                            /\ OUT_BUFFERSIZE \in Nat \ {0}
                            /\ Kinds \subseteq KnownKinds
                            /\ MaxRequests \in Nat

VARIABLES
    kind,                   \* the kind of each request
    pos,                    \* cells of the stream read so far
    in_buffer, in_size,
    rtsp_cseq,              \* the request whose CSeq was read last, 0: none
    out_buffer,             \* replies: the request, and the one whose CSeq it has
    replied,                \* the replies that were written
    pc,                     \* "select", "handle" (in RTSP_handler), "closed", or
                            \* "wild" when in_size has gone below 0
    times,                  \* how often each request was handled, 2 for more
    session                 \* where its Session header was last found, 0: nowhere

input == <<in_buffer, in_size>>
client == <<kind, pos>>
handled == <<times, session>>
vars == <<client, input, rtsp_cseq, out_buffer, replied, pc, handled>>

Requests == 1 .. MaxRequests

\* the parts of a request of each kind; each number and byte is 1
Parts(k) ==
    CASE k = "plain" -> <<"line", "cr", "lf", "cseq", "cr", "lf", "cr", "lf">>
      [] k = "session" -> <<"line", "cr", "lf", "cseq", "cr", "lf", "session", "cr", "lf",
                            "cr", "lf">>
      [] k = "body" -> <<"line", "cr", "lf", "cseq", "cr", "lf", "length1", "length2", "sep",
                         "number", "cr", "lf", "cr", "lf", "body">>
      [] k = "no_cseq" -> <<"line", "cr", "lf", "cr", "lf">>
      [] k = "packet" -> <<"dollar", "byte", "nul", "byte", "body">>

\* the cells of a request of kind k
Message(r, k) == LET parts == Parts(k)
                 IN  [q \in DOMAIN parts |->
                         [req |-> r, part |-> parts[q],
                          val |-> IF parts[q] \in {"number", "byte"} THEN 1 ELSE 0]]

\* where each request ends in the stream, when their kinds are k
Ends == [k \in [Requests -> Kinds] |->
            LET end[r \in 0 .. MaxRequests] ==
                    IF r = 0 THEN 0 ELSE end[r - 1] + Len(Parts(k[r]))
            IN  end]

\* the cells of all requests in the order sent
Streams == [k \in [Requests -> Kinds] |->
               LET Of(p) == Min({r \in Requests : p <= Ends[k][r]})
               IN  [p \in 1 .. Ends[k][MaxRequests] |->
                       Message(Of(p), k[Of(p)])[p - Ends[k][Of(p) - 1]]]]
Stream == Streams[kind]

Init == /\ kind \in [Requests -> Kinds]
        /\ pos = 0
        /\ in_buffer = [k \in 1 .. RTSP_BUFFERSIZE |-> Nul] /\ in_size = 0
        /\ rtsp_cseq = 0 /\ out_buffer = <<>> /\ replied = <<>>
        /\ pc = "select"
        /\ times = [r \in Requests |-> 0]
        /\ session = [r \in Requests |-> 0]

-----------------------------------------------------------------------------
\* What RTSP_full_msg_rcvd says of the buffer, and whether it is a message.
AtFront == RTSP_full_msg_rcvd(in_buffer, in_size)
FullMessage == {"RTSP_method_rcvd", "RTSP_interlvd_rcvd"}
Whole == AtFront.ret \in FullMessage

\* Faulty variant of RTSP_remove_msg: the buffer is emptied.
RTSP_remove_msg_All(len) == in_size' = 0 /\ UNCHANGED <<in_buffer, pc>>

\* Faulty variant of RTSP_remove_msg: nothing moves.
RTSP_remove_msg_NoMove(len) == in_size' = in_size - len /\ UNCHANGED <<in_buffer, pc>>

\* RTSP_remove_msg: what follows the request moves to the front, unless
\* nothing does; then the request stays where it is.  A length beyond what
\* was received makes the unsigned in_size wrap.
RTSP_remove_msg(len) ==
    \/ /\ len > in_size
       /\ pc' = "wild"
       /\ UNCHANGED input
    \/ /\ len <= in_size
       /\ in_size' = in_size - len
       /\ in_buffer' = IF in_size' = 0 THEN in_buffer
                       ELSE [k \in 1 .. RTSP_BUFFERSIZE |->
                               IF k + len <= RTSP_BUFFERSIZE THEN in_buffer[k + len] ELSE Nul]
       /\ UNCHANGED pc

\* RTSP_discard_msg: a request that is not whole stays.
RTSP_discard_msg ==
    \E msg \in {AtFront} :
        \/ msg.ret \in FullMessage /\ RTSP_remove_msg(msg.len)
        \/ msg.ret \notin FullMessage /\ UNCHANGED <<input, pc>>

\* Where a word is in in_buffer as a string: up to a zero byte, past the end
\* of the request and past in_size.
Found(part) == {k \in 1 .. RTSP_BUFFERSIZE :
                   /\ in_buffer[k].part = part
                   /\ \A j \in 1 .. k : in_buffer[j].part # "nul"}

\* Faulty variant of Find: the search ends at the last occurrence.
Find_Last(part) == IF Found(part) = {} THEN 0 ELSE in_buffer[Max(Found(part))].req

\* strstr(in_buffer, ...) of a header: the request that it is found in
Find(part) ==
    IF Found(part) = {} THEN 0
    ELSE in_buffer[CHOOSE k \in Found(part) : \A j \in 1 .. k - 1 : in_buffer[j].part # part].req

\* RTSP_validate_method: a request with no CSeq in sight is refused, and the
\* number of the one before stays.
RTSP_validate_method ==
    rtsp_cseq' = IF Find("cseq") # 0 THEN Find("cseq") ELSE rtsp_cseq

\* Faulty variant of bwrite: the room is tested before the reply is counted.
bwrite_OffByOne(r) ==
    out_buffer' = IF Len(out_buffer) <= OUT_BUFFERSIZE
                  THEN Append(out_buffer, [req |-> r, cseq |-> rtsp_cseq']) ELSE out_buffer

\* bwrite: a reply has the CSeq of the request validated last; one that
\* out_buffer has no room for is dropped.
bwrite(r) ==
    out_buffer' = IF Len(out_buffer) < OUT_BUFFERSIZE
                  THEN Append(out_buffer, [req |-> r, cseq |-> rtsp_cseq']) ELSE out_buffer

-----------------------------------------------------------------------------
\* RtspServer: select, and tcp_read of n cells
Read(n) ==
    /\ pc = "select"
    /\ pos + n <= Len(Stream) /\ in_size + n <= RTSP_BUFFERSIZE
    /\ in_buffer' = [k \in 1 .. RTSP_BUFFERSIZE |->
                        IF k - in_size \in 1 .. n THEN Stream[pos + k - in_size]
                        ELSE in_buffer[k]]
    /\ in_size' = in_size + n
    /\ pos' = pos + n
    /\ pc' = "handle"
    /\ UNCHANGED <<kind, rtsp_cseq, out_buffer, replied, handled>>

\* One turn of RTSP_handler: the request at the front is handled whether it is
\* whole or not, and answered: a refused one with 400, another as its method
\* has it, which may be no reply at all.
Handle ==
    /\ pc = "handle" /\ in_size > 0
    /\ LET r == in_buffer[1].req
       IN  /\ times' = [times EXCEPT ![r] = IF @ < 2 THEN @ + 1 ELSE 2]
           /\ session' = [session EXCEPT ![r] = Find("session")]
           /\ RTSP_validate_method
           /\ bwrite(r) \/ (Find("cseq") # 0 /\ UNCHANGED out_buffer)
    /\ RTSP_discard_msg
    /\ UNCHANGED <<client, replied>>

\* Faulty variant of Write: out_size is not set back to 0.
Write_KeepsOutput ==
    /\ pc = "handle" /\ in_size = 0
    /\ replied' = replied \o out_buffer
    /\ UNCHANGED out_buffer
    /\ pc' = "select"
    /\ UNCHANGED <<client, input, rtsp_cseq, handled>>

\* The handler has returned: tcp_write sends out_buffer, or the connection is
\* closed when it cannot.
Write ==
    /\ pc = "handle" /\ in_size = 0
    /\ \/ /\ replied' = replied \o out_buffer
          /\ out_buffer' = <<>>
          /\ pc' = "select"
       \/ /\ pc' = "closed"
          /\ UNCHANGED <<out_buffer, replied>>
    /\ UNCHANGED <<client, input, rtsp_cseq, handled>>

Server == Handle \/ Write

Next == Server \/ (\E n \in 1 .. RTSP_BUFFERSIZE : Read(n))

\* The main thread, once it has read something, runs.
Spec == Init /\ [][Next]_vars /\ WF_vars(Server)

-----------------------------------------------------------------------------
Replies == [req : Requests, cseq : 0 .. MaxRequests]

TypeOK == /\ kind \in [Requests -> Kinds]
          /\ pos \in 0 .. Len(Stream)
          /\ in_size \in 0 .. RTSP_BUFFERSIZE
          /\ in_buffer \in [1 .. RTSP_BUFFERSIZE -> {Nul} \cup {Stream[p] : p \in DOMAIN Stream}]
          /\ rtsp_cseq \in 0 .. MaxRequests
          /\ out_buffer \in Seq(Replies) /\ Len(out_buffer) <= OUT_BUFFERSIZE
          /\ replied \in Seq(Replies)
          /\ pc \in {"select", "handle", "closed", "wild"}
          /\ times \in [Requests -> 0 .. 2]
          /\ session \in [Requests -> 0 .. MaxRequests]

\* Where the request r ends in the stream, and whether a read ended inside of
\* the request at the front, so that the handler goes round on its first part.
EndOf(r) == Ends[kind][r]
OnCutRequest == pc = "wild" \/ (pc = "handle" /\ in_size > 0 /\ ~Whole)

\* However TCP cuts and joins the requests, those before the one at the front
\* were each handled once, those after it were not; one that is handled twice
\* is the one the handler is caught on.
HandledInOrder ==
    /\ \A r, s \in Requests : r < s /\ times[s] > 0 => times[r] = 1
    /\ \A r \in Requests : times[r] = 2 => OnCutRequest /\ in_buffer[1].req = r

\* The client gets its replies in the order of its requests, and no reply
\* twice, even when some are dropped for want of room in out_buffer.
RepliesInOrder ==
    \A j, k \in DOMAIN replied : j < k => replied[j].req < replied[k].req

\* A request goes by its own headers, although the code searches the whole
\* buffer for them, with the requests behind the first one and with what an
\* earlier one left there: a whole request with a Session header was last
\* handled with that header, and each reply that is written has the CSeq of
\* its own request, when that has one.
OwnHeaders ==
    /\ \A r \in Requests :
          times[r] > 0 /\ kind[r] = "session" /\ EndOf(r) <= pos /\ ~OnCutRequest => session[r] = r
    /\ \A k \in DOMAIN replied :
          kind[replied[k].req] \in {"plain", "session", "body"} =>
              replied[k].cseq = replied[k].req

\* in_size never wraps below 0 while reads end where requests end: whatever
\* the bodies, packets and zeros, RTSP_full_msg_rcvd finds no more than was
\* received.  A read that ends inside of a request can make it wrap, when the
\* length of a '$' packet or a Content-Length left over from before vouches
\* for bytes that have not come.
WildOnlyOnCut == pc = "wild" => \E r \in Requests : pos < EndOf(r) /\ in_buffer[1].req = r

\* Once something has been read, a time comes when every request that has been
\* read whole is handled, unless the connection ends or the read had ended
\* inside a request.
EveryRequestHandled ==
    pc = "handle" ~> \/ \A r \in Requests : pos >= EndOf(r) => times[r] > 0
                     \/ pc = "closed" \/ OnCutRequest
=============================================================================
