----------------------------- MODULE RtspServer -----------------------------
(***************************************************************************)
(* The RTSP server of src/rtsp/rtspservice.c and the schedule table of     *)
(* src/rtsp/rtsputils.c, as the main thread drives them: EventLoop accepts *)
(* a connection, ScheduleConnections serves the connections in list order, *)
(* and RTSP_state_machine handles one request of a connection.             *)
(*                                                                         *)
(* The main thread is the only one that writes this state, so a request is *)
(* one step.  A round of ScheduleConnections serves each connection once,  *)
(* and one that sent nothing is left alone, so a step may serve any        *)
(* connection.  The requests that change nothing here (DESCRIBE, PAUSE,    *)
(* unknown methods, OPTIONS outside READY, SETUP and PLAY answered 455,    *)
(* 551 or not at all, any request once session_list is NULL) are stutters. *)
(*                                                                         *)
(* The RTP sessions are assumed to be allocated.  A server that            *)
(* dereferences a null pointer, or an entry before the schedule table,     *)
(* takes no further step.                                                  *)
(***************************************************************************)
EXTENDS Integers, Sequences, FiniteSets

CONSTANTS
    Clients,         \* the sockets accept() can return
    MAX_CONNECTION,  \* connections, schedule slots and port pairs (10 in the code)
    SessionIds,      \* the session ids drawn for, or named by, a SETUP
    RequestIds,      \* the ids in the Session header of a PLAY or a TEARDOWN
    Transports,      \* the transports that clients ask for
    MaxSetups,       \* bound: SETUPs of a connection that get an RTP session
    MaxAccepts,      \* bound: connections accepted since the server started
    MaxRtp           \* bound: RTP sessions allocated since the server started

NoHeader == -1       \* a request with no Session header; also the unset id

TransportKinds == {"none", "tcp", "unicast", "multicast"}

ASSUME RtspAssumption == /\ MAX_CONNECTION \in Nat \ {0}
                         /\ SessionIds \subseteq Nat
                         /\ RequestIds \subseteq Nat \cup {NoHeader}
                         /\ Transports \subseteq TransportKinds
                         /\ MaxSetups \in Nat
                         /\ MaxAccepts \in Nat
                         /\ MaxRtp \in Nat

VARIABLES
    \* connections
    pRtspList,       \* the served connections, in list order
    ignored,         \* the sockets accepted and then neither served nor closed
    unallocated,     \* how many of them for want of memory for the connection
    s32ConCnt,       \* EventLoop's count of connections
    num_conn,        \* the other count, which starts at 2
    accepts,         \* connections accepted so far
    \* the RTSP session of each connection
    session_list,    \* whether session_list is not NULL
    cur_state,
    session_id,
    rtp_session,     \* its RTP sessions, in list order
    \* the RTP sessions, numbered in order of allocation: none is ever freed
    allocated,       \* how many there are
    hndRtp,          \* "null", "open", or "freed" by RtpDelete
    pause, started,
    sched_id,
    ser_port,        \* its server port pair
    \* tables
    sched,           \* the slots of the schedule: valid and rtp_session (0 is NULL)
    s_uPortPool,     \* the port pairs not handed out
    g_s32DoPlay,     \* the play counter
    fault,           \* what stopped the server, "none" while it runs
    polite           \* ghost: every SETUP so far was the first of its connection
                     \* and for a unicast stream, and every PLAY named its session

connVars == <<pRtspList, ignored, unallocated, s32ConCnt, num_conn, accepts>>
sessVars == <<session_list, cur_state, session_id, rtp_session>>
rtpVars == <<allocated, hndRtp, pause, started, sched_id, ser_port>>
tableVars == <<sched, s_uPortPool, g_s32DoPlay, fault>>
vars == <<connVars, sessVars, rtpVars, tableVars, polite>>

States == {"INIT", "READY", "PLAY"}
Slots == 0 .. MAX_CONNECTION - 1
Ports == Slots           \* the pair i is the ports start + 2i and start + 2i + 1
NoPort == -1
Rtps == 1 .. MaxRtp

Conns == {pRtspList[k] : k \in DOMAIN pRtspList}
RtpsOf(c) == {rtp_session[c][k] : k \in DOMAIN rtp_session[c]}
Least(S) == CHOOSE i \in S : \A j \in S : i <= j

Running == fault = "none"
\* RTSP_state_machine gets past its test of session_list.
Served(c) == Running /\ c \in Conns /\ session_list[c]

Init ==
    /\ pRtspList = <<>> /\ ignored = {} /\ unallocated = 0
    /\ s32ConCnt = 0 /\ num_conn = 2 /\ accepts = 0
    /\ session_list = [c \in Clients |-> FALSE]
    /\ cur_state = [c \in Clients |-> "INIT"]
    /\ session_id = [c \in Clients |-> NoHeader]
    /\ rtp_session = [c \in Clients |-> <<>>]
    /\ allocated = 0
    /\ hndRtp = [r \in Rtps |-> "null"]
    /\ pause = [r \in Rtps |-> FALSE]
    /\ started = [r \in Rtps |-> FALSE]
    /\ sched_id = [r \in Rtps |-> 0]
    /\ ser_port = [r \in Rtps |-> NoPort]
    /\ sched = [i \in Slots |-> [valid |-> FALSE, rtp_session |-> 0]]
    /\ s_uPortPool = Ports
    /\ g_s32DoPlay = 0
    /\ fault = "none"
    /\ polite = TRUE

-----------------------------------------------------------------------------
(* Connections *)

\* Faulty variant of RoomForClient: one connection too many.
RoomForClient_OffByOne == s32ConCnt <= MAX_CONNECTION

RoomForClient == s32ConCnt < MAX_CONNECTION

\* EventLoop, AddClient and RTSP_initserver
Accept(c) ==
    /\ Running /\ accepts < MaxAccepts
    /\ c \notin Conns \cup ignored
    /\ RoomForClient
    /\ pRtspList' = Append(pRtspList, c)
    /\ s32ConCnt' = s32ConCnt + 1
    /\ num_conn' = num_conn + 1
    /\ accepts' = accepts + 1
    /\ session_list' = [session_list EXCEPT ![c] = TRUE]
    /\ cur_state' = [cur_state EXCEPT ![c] = "INIT"]
    /\ session_id' = [session_id EXCEPT ![c] = NoHeader]
    /\ rtp_session' = [rtp_session EXCEPT ![c] = <<>>]
    /\ UNCHANGED <<ignored, unallocated, rtpVars, tableVars, polite>>

\* EventLoop at the limit: the socket is forgotten, still open.
AcceptIgnored(c) ==
    /\ Running /\ accepts < MaxAccepts
    /\ c \notin Conns \cup ignored
    /\ ~RoomForClient
    /\ ignored' = ignored \cup {c}
    /\ accepts' = accepts + 1
    /\ UNCHANGED <<pRtspList, unallocated, s32ConCnt, num_conn, sessVars, rtpVars,
                   tableVars, polite>>

\* AddClient has no memory for the connection: it is not on the list, and it
\* is counted all the same.
AcceptNoMemory(c) ==
    /\ Running /\ accepts < MaxAccepts
    /\ c \notin Conns \cup ignored
    /\ RoomForClient
    /\ ignored' = ignored \cup {c}
    /\ unallocated' = unallocated + 1
    /\ s32ConCnt' = s32ConCnt + 1
    /\ num_conn' = num_conn + 1
    /\ accepts' = accepts + 1
    /\ UNCHANGED <<pRtspList, sessVars, rtpVars, tableVars, polite>>

\* RTSP_initserver has none for the session, and writes its id to NULL.
AcceptFaults(c) ==
    /\ Running /\ accepts < MaxAccepts
    /\ c \notin Conns \cup ignored
    /\ RoomForClient
    /\ fault' = "session_list"
    /\ UNCHANGED <<connVars, sessVars, rtpVars, sched, s_uPortPool, g_s32DoPlay, polite>>

-----------------------------------------------------------------------------
(* SETUP, in INIT and in READY *)

\* The 406 and 400 replies return ERR_NOERROR, and the state becomes READY.
SetupNoTransport(c) ==
    /\ Served(c) /\ cur_state[c] # "PLAY"
    /\ "none" \in Transports
    /\ cur_state' = [cur_state EXCEPT ![c] = "READY"]
    /\ polite' = FALSE
    /\ UNCHANGED <<connVars, session_list, session_id, rtp_session, rtpVars, tableVars>>

\* The RTP session a SETUP links to the connection before it looks at the
\* transport: paused, without a handle, its sched_id 0 from calloc.
AddRtpSession(c, r) ==
    /\ Len(rtp_session[c]) < MaxSetups
    /\ allocated < MaxRtp
    /\ r = allocated + 1
    /\ allocated' = r
    /\ rtp_session' = [rtp_session EXCEPT ![c] = Append(@, r)]
    /\ pause' = [pause EXCEPT ![r] = TRUE]

\* 461: RTP/AVP/TCP is compared with the wrong string and never accepted.
SetupUnsupported(c) ==
    /\ Served(c) /\ cur_state[c] # "PLAY"
    /\ "tcp" \in Transports
    /\ \E r \in Rtps : AddRtpSession(c, r)
    /\ cur_state' = [cur_state EXCEPT ![c] = "READY"]
    /\ polite' = FALSE
    /\ UNCHANGED <<connVars, session_list, session_id, hndRtp, started,
                   sched_id, ser_port, tableVars>>

\* 500: RTP_get_port_pair fails, and so does RTSP_setup.
SetupNoPort(c) ==
    /\ Served(c) /\ cur_state[c] # "PLAY"
    /\ "unicast" \in Transports
    /\ s_uPortPool = {}
    /\ \E r \in Rtps : AddRtpSession(c, r)
    /\ polite' = FALSE
    /\ UNCHANGED <<connVars, session_list, cur_state, session_id, hndRtp,
                   started, sched_id, ser_port, tableVars>>

\* Faulty variant of StoreSlot: nobody stores the slot that schedule_add
\* returned, and sched_id keeps the 0 of calloc.
StoreSlot_Forgotten(c, r, i) ==
    /\ sched_id' = sched_id
    /\ sched' = IF i \notin Slots THEN sched
                ELSE [sched EXCEPT ![i] = [valid |-> TRUE, rtp_session |-> r]]

\* Stores the slot i that schedule_add returned for r, -1 for none.
StoreSlot(c, r, i) ==
    LET first == IF rtp_session[c] = <<>> THEN r ELSE rtp_session[c][1]
    IN  /\ sched_id' = [sched_id EXCEPT ![first] = i]
        /\ sched' = IF i \notin Slots THEN sched
                    ELSE [sched EXCEPT ![i] = [valid |-> TRUE, rtp_session |-> r]]

FreeSlots == {i \in Slots : ~sched[i].valid}

\* Faulty variant of schedule_add: a full table returns the loop's last index.
schedule_add_LastIndex(c, r) ==
    StoreSlot(c, r, IF FreeSlots = {} THEN MAX_CONNECTION ELSE Least(FreeSlots))

\* Faulty variant of schedule_add: it takes the first slot, valid or not.
schedule_add_Unguarded(c, r) == StoreSlot(c, r, Least(Slots))

\* schedule_add: the first slot that is not valid, -1 when there is none.
\* The slot returned is stored in the first RTP session of the connection,
\* whichever RTP session was added.
schedule_add(c, r) ==
    StoreSlot(c, r, IF FreeSlots = {} THEN -1 ELSE Least(FreeSlots))

\* RTP_get_port_pair: the first port pair of the pool leaves it.
RTP_get_port_pair(r) ==
    /\ s_uPortPool # {}
    /\ ser_port' = [ser_port EXCEPT ![r] = Least(s_uPortPool)]
    /\ s_uPortPool' = s_uPortPool \ {Least(s_uPortPool)}

\* RtpCreate may fail, for want of a socket or of an address of eth0 and wlan0.
RtpCreate(r) == \E h \in {"open", "null"} : hndRtp' = [hndRtp EXCEPT ![r] = h]

\* 200 for a unicast transport; nothing looks at what RtpCreate returned.
SetupUnicast(c, id) ==
    /\ Served(c) /\ cur_state[c] # "PLAY"
    /\ "unicast" \in Transports
    /\ \E r \in Rtps :
          /\ AddRtpSession(c, r)
          /\ RTP_get_port_pair(r)
          /\ RtpCreate(r)
          /\ schedule_add(c, r)
    /\ session_id' = [session_id EXCEPT ![c] = id]
    /\ cur_state' = [cur_state EXCEPT ![c] = "READY"]
    /\ polite' = (polite /\ rtp_session[c] = <<>>)
    /\ UNCHANGED <<connVars, session_list, started, g_s32DoPlay, fault>>

\* 200 for RTP/AVP without "unicast": no port pair, no handle, but a slot.
SetupMulticast(c, id) ==
    /\ Served(c) /\ cur_state[c] # "PLAY"
    /\ "multicast" \in Transports
    /\ \E r \in Rtps : AddRtpSession(c, r) /\ schedule_add(c, r)
    /\ session_id' = [session_id EXCEPT ![c] = id]
    /\ cur_state' = [cur_state EXCEPT ![c] = "READY"]
    /\ polite' = FALSE
    /\ UNCHANGED <<connVars, session_list, hndRtp, started, ser_port,
                   s_uPortPool, g_s32DoPlay, fault>>

-----------------------------------------------------------------------------
(* PLAY and OPTIONS *)

\* PLAY in READY without a Session header (400) or with another id (454):
\* RTSP_play returns ERR_NOERROR, and the state becomes PLAY all the same.
PlayRefused(c, id) ==
    /\ Served(c) /\ cur_state[c] = "READY"
    /\ id = NoHeader \/ id # session_id[c]
    /\ cur_state' = [cur_state EXCEPT ![c] = "PLAY"]
    /\ polite' = FALSE
    /\ UNCHANGED <<connVars, session_list, session_id, rtp_session, rtpVars, tableVars>>

\* The RTP session in the slot that schedule_start is called with, 0 for
\* NULL or for the slot -1.
Target(r) == IF sched_id[r] \in Slots THEN sched[sched_id[r]].rtp_session ELSE 0

\* RTSP_play walks the RTP sessions in order and calls schedule_start for
\* those not started, its earlier calls included: S is the set of the
\* positions it makes the call for.
Starts(c, S) ==
    \A k \in DOMAIN rtp_session[c] :
        k \in S <=> /\ ~started[rtp_session[c][k]]
                    /\ \A j \in S : j < k =>
                           Target(rtp_session[c][j]) # rtp_session[c][k]

\* PLAY with the id of the session.  schedule_start writes to the session in
\* the slot, which need not be the one it is called for.
Play(c, id) ==
    /\ Served(c) /\ cur_state[c] = "READY"
    /\ id = session_id[c] /\ id # NoHeader
    /\ \E S \in SUBSET DOMAIN rtp_session[c] :
          LET targets == {Target(rtp_session[c][k]) : k \in S}
          IN  /\ Starts(c, S)
              /\ 0 \notin targets
              /\ pause' = [r \in Rtps |-> pause[r] /\ r \notin targets]
              /\ started' = [r \in Rtps |-> started[r] \/ r \in targets]
              /\ g_s32DoPlay' = g_s32DoPlay + Cardinality(S)
    /\ cur_state' = [cur_state EXCEPT ![c] = "PLAY"]
    /\ UNCHANGED <<connVars, session_list, session_id, rtp_session, allocated,
                   hndRtp, sched_id, ser_port, sched, s_uPortPool, fault, polite>>

\* The same, when a slot holds no session or there is no such slot.
PlayFaults(c, id) ==
    /\ Served(c) /\ cur_state[c] = "READY"
    /\ id = session_id[c] /\ id # NoHeader
    /\ \E S \in SUBSET DOMAIN rtp_session[c] :
          /\ Starts(c, S)
          /\ \E k \in S : Target(rtp_session[c][k]) = 0
    /\ fault' = "schedule_start"
    /\ UNCHANGED <<connVars, sessVars, rtpVars, sched, s_uPortPool, g_s32DoPlay, polite>>

\* OPTIONS in READY goes back to INIT.
Options(c) ==
    /\ Served(c) /\ cur_state[c] = "READY"
    /\ cur_state' = [cur_state EXCEPT ![c] = "INIT"]
    /\ UNCHANGED <<connVars, session_list, session_id, rtp_session, rtpVars, tableVars, polite>>

-----------------------------------------------------------------------------
(* TEARDOWN and the end of a connection *)

\* The slots that the RTP sessions of c name.
SlotsNamedBy(c) == {sched_id[r] : r \in RtpsOf(c)}

\* Faulty variant of ReleasedRtps: the loop steps before it releases.
ReleasedRtps_SkipsFirst(c) == {rtp_session[c][k] : k \in DOMAIN rtp_session[c] \ {1}}

\* The RTP sessions that the release loops walk over.
ReleasedRtps(c) == RtpsOf(c)

\* RtpDelete closes the socket and frees the handle of each RTP session of S.
RtpDelete(S) ==
    hndRtp' = [r \in Rtps |-> IF r \in S /\ hndRtp[r] = "open"
                             THEN "freed" ELSE hndRtp[r]]

\* RtpDelete and schedule_remove for each RTP session of c, then the session
\* itself is freed.
ReleaseSession(c) ==
    LET rtps == ReleasedRtps(c)
        slots == {sched_id[r] : r \in rtps}
    IN  /\ slots \subseteq Slots
        /\ RtpDelete(rtps)
        /\ sched' = [i \in Slots |-> IF i \in slots
                                     THEN [sched[i] EXCEPT !.valid = FALSE] ELSE sched[i]]
    /\ session_list' = [session_list EXCEPT ![c] = FALSE]
    /\ cur_state' = [cur_state EXCEPT ![c] = "INIT"]
    /\ session_id' = [session_id EXCEPT ![c] = NoHeader]
    /\ rtp_session' = [rtp_session EXCEPT ![c] = <<>>]
    /\ UNCHANGED <<allocated, pause, started, sched_id, ser_port>>

\* Faulty variant of CountDown: the counter is left alone.
CountDown_Forgotten(k) == UNCHANGED <<g_s32DoPlay, s_uPortPool>>

\* The counter reaches 0 again: every port pair returns to the pool.
CountDown(k) ==
    /\ g_s32DoPlay' = g_s32DoPlay - k
    /\ s_uPortPool' = IF g_s32DoPlay' = 0 THEN Ports ELSE s_uPortPool

\* TEARDOWN in any state; no Session header stands for the id -1.  The
\* counter goes down by one for each RTP session, played or not.
Teardown(c, id) ==
    /\ Served(c)
    /\ id = session_id[c]
    /\ ReleaseSession(c)
    /\ CountDown(Len(rtp_session[c]))
    /\ UNCHANGED <<connVars, fault, polite>>

\* The node of c leaves pRtspList.
ListWithout(p) == [k \in 1 .. Len(pRtspList) - 1 |->
                      IF k < p THEN pRtspList[k] ELSE pRtspList[k + 1]]

\* ScheduleConnections finds the connection closed, or an error on it.  The
\* counter goes down by one if there is a session, played or not.  When the
\* node was the last one and not the first, the trace line that follows
\* reads the fd of the node after it.
Disconnect(c) ==
    /\ Running
    /\ \E p \in DOMAIN pRtspList :
          /\ pRtspList[p] = c
          /\ pRtspList' = ListWithout(p)
          /\ fault' = IF p > 1 /\ p = Len(pRtspList) THEN "next_fd" ELSE "none"
    /\ s32ConCnt' = s32ConCnt - 1
    /\ num_conn' = num_conn - 1
    /\ \/ /\ session_list[c]
          /\ ReleaseSession(c)
          /\ CountDown(1)
       \/ /\ ~session_list[c]
          /\ UNCHANGED <<sessVars, rtpVars, sched, s_uPortPool, g_s32DoPlay>>
    /\ UNCHANGED <<ignored, unallocated, accepts, polite>>

\* An RTP session with the slot -1 makes schedule_remove write before the
\* table.
ReleaseFaults(c) ==
    /\ Running /\ c \in Conns
    /\ -1 \in SlotsNamedBy(c)
    /\ fault' = "schedule_remove"
    /\ UNCHANGED <<connVars, sessVars, rtpVars, sched, s_uPortPool, g_s32DoPlay, polite>>

-----------------------------------------------------------------------------
Next == \E c \in Clients :
           \/ Accept(c)
           \/ AcceptIgnored(c)
           \/ AcceptNoMemory(c)
           \/ AcceptFaults(c)
           \/ SetupNoTransport(c)
           \/ SetupUnsupported(c)
           \/ SetupNoPort(c)
           \/ \E id \in SessionIds : SetupUnicast(c, id)
           \/ \E id \in SessionIds : SetupMulticast(c, id)
           \/ \E id \in RequestIds : PlayRefused(c, id)
           \/ \E id \in RequestIds : Play(c, id)
           \/ \E id \in RequestIds : PlayFaults(c, id)
           \/ Options(c)
           \/ \E id \in RequestIds : Teardown(c, id)
           \/ Disconnect(c)
           \/ ReleaseFaults(c)

Spec == Init /\ [][Next]_vars

-----------------------------------------------------------------------------
TypeOK ==
    /\ pRtspList \in Seq(Clients)
    /\ ignored \subseteq Clients
    /\ unallocated \in Nat
    /\ s32ConCnt \in Int
    /\ num_conn \in Int
    /\ accepts \in Nat
    /\ session_list \in [Clients -> BOOLEAN]
    /\ cur_state \in [Clients -> States]
    /\ session_id \in [Clients -> SessionIds \cup {NoHeader}]
    /\ rtp_session \in [Clients -> Seq(Rtps)]
    /\ allocated \in 0 .. MaxRtp
    /\ hndRtp \in [Rtps -> {"null", "open", "freed"}]
    /\ pause \in [Rtps -> BOOLEAN]
    /\ started \in [Rtps -> BOOLEAN]
    /\ sched_id \in [Rtps -> Slots \cup {-1}]
    /\ ser_port \in [Rtps -> Ports \cup {NoPort}]
    /\ sched \in [Slots -> [valid : BOOLEAN, rtp_session : Rtps \cup {0}]]
    /\ s_uPortPool \subseteq Ports
    /\ g_s32DoPlay \in Int
    /\ fault \in {"none", "next_fd", "schedule_start", "schedule_remove", "session_list"}
    /\ polite \in BOOLEAN

\* EventLoop's two counts follow the list through every accept, refusal and
\* disconnect: the list holds each socket once and never more than
\* MAX_CONNECTION of them.  The one count is its length and the accepts that
\* found no memory, each of which takes a place for ever; the other is 2 more.
ConnCount ==
    /\ \A j, k \in DOMAIN pRtspList : pRtspList[j] = pRtspList[k] => j = k
    /\ s32ConCnt = Len(pRtspList) + unallocated
    /\ s32ConCnt <= MAX_CONNECTION
    /\ num_conn = s32ConCnt + 2

\* A UDP socket that RtpCreate opened is still within reach of a connection
\* that will delete it, and one already deleted is not: whatever the SETUPs
\* of a client answered, TEARDOWN and a lost connection together run
\* RtpDelete once for every RTP session.
HandlesOwnedOnce ==
    /\ \A r \in Rtps : hndRtp[r] = "open" => \E c \in Conns : r \in RtpsOf(c)
    /\ \A c \in Clients : \A r \in RtpsOf(c) :
          /\ hndRtp[r] # "freed"
          /\ \A d \in Clients \ {c} : r \notin RtpsOf(d)

\* The connections that the RTP session in the slot i belongs to.
Owners(i) == {c \in Conns : sched[i].rtp_session \in RtpsOf(c)}

\* The slot i holds a stream that PLAY has started.
Started(i) == /\ sched[i].valid
              /\ ~pause[sched[i].rtp_session]

\* The slot i is one that schedule_do sends from: it passes over a stream whose
\* handle is NULL, but not over one whose handle was freed.
Streaming(i) == Started(i) /\ hndRtp[sched[i].rtp_session] # "null"

\* While every client sets up one unicast stream and the pool lasts, no slot
\* outlives its connection: a valid slot holds an RTP session of a served
\* connection, which names this slot as its own, and its handle, which
\* schedule_do will send on, was not deleted.
SlotHasOwner ==
    polite => \A i \in Slots : sched[i].valid =>
        /\ \E c \in Owners(i) : SlotsNamedBy(c) = {i}
        /\ hndRtp[sched[i].rtp_session] # "freed"

\* The SETUP of c got a handle from RtpCreate, and it is still there.
HasHandle(c) == \E r \in RtpsOf(c) : hndRtp[r] = "open"

\* For the same clients schedule_do sends a stream exactly to those in PLAY
\* whose SETUP got a handle: PLAY of one client never starts or stops the
\* stream of another, and the end of one never silences another.  A client
\* whose RtpCreate failed, which SETUP and PLAY answer with 200 all the same,
\* is in PLAY and is sent nothing; no other client is.
StreamsFollowPlay ==
    polite => \A c \in Conns :
        (\E i \in Slots : Streaming(i) /\ c \in Owners(i))
            <=> cur_state[c] = "PLAY" /\ HasHandle(c)

\* For the same clients g_s32DoPlay never counts a stream that PLAY has not
\* started, or one that has ended.  It counts the started ones without a
\* handle, to which nothing is sent, and it falls below the number of streams
\* when a client leaves that never played.
DoPlayNeverOvercounts ==
    polite => g_s32DoPlay <= Cardinality({i \in Slots : Started(i)})

\* The stream in each slot, and the streams that are to be sent.
Holds == [i \in Slots |-> IF sched[i].valid THEN sched[i].rtp_session ELSE 0]

Playing == {r \in Rtps : ~pause[r] /\ \E i \in Slots : Holds[i] = r}

Table == INSTANCE StreamTable WITH Streams <- Rtps, NoStream <- 0,
                                   holds <- Holds, playing <- Playing

\* The requests of c that call the table.
SetsUp(c) == \E id \in SessionIds : SetupUnicast(c, id)
Plays(c) == \E id \in RequestIds : Play(c, id)
Ends(c) == Disconnect(c) \/ \E id \in RequestIds : Teardown(c, id)

\* While every client is polite the server uses the schedule as a table of
\* streams, each client for its own: a SETUP of c adds the stream it links to c
\* unless the table is full, a PLAY of c starts the stream of c, TEARDOWN or
\* the loss of c removes the stream of c if there is one, and no other step
\* touches the table.
PoliteUsesTable ==
    /\ Table!Init
    /\ [][polite' =>
            /\ \A c \in Clients :
                  /\ SetsUp(c) => IF FreeSlots = {} THEN UNCHANGED Table!vars
                                  ELSE \E r \in RtpsOf(c)' : Table!Add(r)
                  /\ Plays(c) => \E r \in RtpsOf(c) : Table!Start(r)
                  /\ Ends(c) => IF RtpsOf(c) = {} THEN UNCHANGED Table!vars
                                ELSE \E r \in RtpsOf(c) : Table!Remove(r)
            /\ (\A c \in Clients : ~(SetsUp(c) \/ Plays(c) \/ Ends(c)))
                  => UNCHANGED Table!vars]_vars

\* rtspservice.c:1766 and 1768: when no user is online, every port pair is
\* put back into the pool.
PoolFullWhenOffline == Conns = {} => s_uPortPool = Ports

\* rtspservice.c:1789 has a connection other than the first removed from the
\* list and the next one served after it: the end of a connection never
\* stops the server.
RemovalKeepsServing == fault # "next_fd"
=============================================================================
