-------------------------- MODULE RtspServer_proofs --------------------------
(***************************************************************************)
(* What the RTSP server guarantees for every limit on the connections and  *)
(* every set of sockets, ids and transports, in whatever order clients     *)
(* come, ask and go.                                                       *)
(***************************************************************************)
EXTENDS RtspServer, SequenceTheorems, FiniteSetTheorems, WellFoundedInduction, TLAPS

\* The connection list is a list of sockets.
ListOfClients == pRtspList \in Seq(Clients)

CountInv == ListOfClients /\ unallocated \in Nat /\ ConnCount

\* What HandlesOwnedOnce needs to be inductive: a handle that is open belongs
\* to some client's session, whose connection is then still served, and no
\* RTP session has a handle before its number is allocated.
HandleInv ==
    /\ session_list \in [Clients -> BOOLEAN]
    /\ rtp_session \in [Clients -> Seq(Rtps)]
    /\ allocated \in Nat
    /\ hndRtp \in [Rtps -> {"null", "open", "freed"}]
    /\ \A r \in Rtps : /\ hndRtp[r] = "open" => \E c \in Clients : r \in RtpsOf(c)
                       /\ r > allocated => hndRtp[r] = "null"
    /\ \A c \in Clients : RtpsOf(c) # {} => c \in Conns /\ session_list[c]
    /\ \A c \in Clients : \A r \in RtpsOf(c) :
          /\ r <= allocated
          /\ hndRtp[r] # "freed"
          /\ \A d \in Clients \ {c} : r \notin RtpsOf(d)

-----------------------------------------------------------------------------
\* One node less: the list is shorter by one, it still holds each socket
\* once, and the socket of the node removed is the only one that went.
LEMMA ListWithoutProperties ==
  ASSUME ListOfClients,
         \A j, k \in DOMAIN pRtspList : pRtspList[j] = pRtspList[k] => j = k,
         NEW p \in DOMAIN pRtspList
  PROVE  /\ ListWithout(p) \in Seq(Clients)
         /\ Len(ListWithout(p)) = Len(pRtspList) - 1
         /\ \A j, k \in DOMAIN ListWithout(p) :
               ListWithout(p)[j] = ListWithout(p)[k] => j = k
         /\ {ListWithout(p)[k] : k \in DOMAIN ListWithout(p)} = Conns \ {pRtspList[p]}
<1> DEFINE m == Len(pRtspList) - 1
           rest == ListWithout(p)
<1>1. /\ Len(pRtspList) \in Nat
      /\ DOMAIN pRtspList = 1 .. Len(pRtspList)
      /\ \A k \in 1 .. Len(pRtspList) : pRtspList[k] \in Clients
  BY LenProperties, ElementOfSeq DEF ListOfClients
<1>2. m \in Nat /\ p \in 1 .. m + 1
  BY <1>1
<1>3. rest \in [1 .. m -> Clients]
  BY <1>1, <1>2 DEF ListWithout
<1>4. rest \in Seq(Clients)
  BY <1>2, <1>3, SeqDef
<1>5. Len(rest) = m /\ DOMAIN rest = 1 .. m
  BY <1>2, <1>3, <1>4, LenProperties
<1>6. \A k \in 1 .. m : rest[k] = IF k < p THEN pRtspList[k] ELSE pRtspList[k + 1]
  BY DEF ListWithout
<1>7. ASSUME NEW j \in 1 .. m, NEW k \in 1 .. m, rest[j] = rest[k]
      PROVE  j = k
  BY <1>1, <1>2, <1>6, <1>7
<1>8. {rest[k] : k \in 1 .. m} = Conns \ {pRtspList[p]}
  <2>1. ASSUME NEW k \in 1 .. m
        PROVE  rest[k] \in Conns \ {pRtspList[p]}
    BY <1>1, <1>2, <1>6 DEF Conns
  <2>2. ASSUME NEW c \in Conns, c # pRtspList[p]
        PROVE  \E k \in 1 .. m : rest[k] = c
    <3>1. PICK q \in 1 .. m + 1 : pRtspList[q] = c
      BY <1>1, <2>2 DEF Conns
    <3>2. CASE q < p
      BY <1>2, <1>6, <3>1, <3>2
    <3>3. CASE q > p
      <4>1. q - 1 \in 1 .. m /\ ~(q - 1 < p)
        BY <1>2, <3>1, <3>3
      <4>2. rest[q - 1] = c
        BY <1>6, <3>1, <4>1
      <4>3. QED
        BY <4>1, <4>2
    <3>4. QED
      BY <1>2, <2>2, <3>1, <3>2, <3>3
  <2>3. QED
    BY <2>1, <2>2
<1>9. QED
  BY <1>4, <1>5, <1>7, <1>8

\* The counts change only when a connection is accepted and when one ends.
LEMMA OthersKeepCounts ==
  ASSUME NEW c \in Clients,
         \/ AcceptIgnored(c) \/ AcceptFaults(c)
         \/ SetupNoTransport(c) \/ SetupUnsupported(c) \/ SetupNoPort(c)
         \/ \E id \in SessionIds : SetupUnicast(c, id) \/ SetupMulticast(c, id)
         \/ \E id \in RequestIds : \/ PlayRefused(c, id) \/ Play(c, id)
                                   \/ PlayFaults(c, id) \/ Teardown(c, id)
         \/ Options(c) \/ ReleaseFaults(c)
  PROVE  UNCHANGED <<pRtspList, unallocated, s32ConCnt, num_conn>>
BY DEF AcceptIgnored, AcceptFaults, SetupNoTransport, SetupUnsupported, SetupNoPort,
       SetupUnicast, SetupMulticast, PlayRefused, Play, PlayFaults, Teardown,
       Options, ReleaseFaults, connVars

LEMMA InitCountInv == Init => CountInv
<1> SUFFICES ASSUME Init PROVE CountInv
  OBVIOUS
<1>1. pRtspList \in Seq(Clients) /\ Len(pRtspList) = 0
  BY EmptySeq DEF Init
<1>2. DOMAIN pRtspList = 1 .. 0
  BY <1>1, LenProperties
<1>3. QED
  BY <1>1, <1>2, RtspAssumption DEF Init, CountInv, ListOfClients, ConnCount

LEMMA NextCountInv == CountInv /\ [Next]_vars => CountInv'
<1> SUFFICES ASSUME CountInv, [Next]_vars PROVE CountInv'
  OBVIOUS
<1> USE DEF CountInv, ListOfClients
<1>1. /\ Len(pRtspList) \in Nat
      /\ DOMAIN pRtspList = 1 .. Len(pRtspList)
  BY LenProperties
<1>2. ASSUME UNCHANGED <<pRtspList, unallocated, s32ConCnt, num_conn>>
      PROVE  CountInv'
  BY <1>2 DEF ConnCount
\* The new socket is not on the list yet, and there is room for it.
<1>3. ASSUME NEW c \in Clients, Accept(c)
      PROVE  CountInv'
  <2>1. /\ pRtspList' = Append(pRtspList, c)
        /\ s32ConCnt' = s32ConCnt + 1 /\ num_conn' = num_conn + 1
        /\ s32ConCnt < MAX_CONNECTION /\ c \notin Conns
        /\ unallocated' = unallocated
    BY <1>3 DEF Accept, RoomForClient
  <2>2. /\ pRtspList' \in Seq(Clients)
        /\ Len(pRtspList') = Len(pRtspList) + 1
        /\ \A k \in 1 .. Len(pRtspList) : pRtspList'[k] = pRtspList[k]
        /\ pRtspList'[Len(pRtspList) + 1] = c
    BY <2>1, AppendProperties
  <2>3. DOMAIN pRtspList' = 1 .. Len(pRtspList) + 1
    BY <2>2, LenProperties
  <2>4. ASSUME NEW j \in DOMAIN pRtspList', NEW k \in DOMAIN pRtspList',
               pRtspList'[j] = pRtspList'[k]
        PROVE  j = k
    <3>1. \A l \in 1 .. Len(pRtspList) : pRtspList[l] # c
      BY <1>1, <2>1 DEF Conns
    <3>2. QED
      BY <1>1, <2>2, <2>3, <2>4, <3>1 DEF ConnCount
  <2>5. /\ s32ConCnt' = Len(pRtspList') + unallocated' /\ s32ConCnt' <= MAX_CONNECTION
        /\ num_conn' = s32ConCnt' + 2
    BY <1>1, <2>1, <2>2, RtspAssumption DEF ConnCount
  <2>6. QED
    BY <2>1, <2>2, <2>4, <2>5 DEF ConnCount
<1>4. ASSUME NEW c \in Clients, Disconnect(c)
      PROVE  CountInv'
  <2>1. PICK p \in DOMAIN pRtspList : pRtspList' = ListWithout(p)
    BY <1>4 DEF Disconnect
  <2>2. s32ConCnt' = s32ConCnt - 1 /\ num_conn' = num_conn - 1 /\ unallocated' = unallocated
    BY <1>4 DEF Disconnect
  <2>3. /\ pRtspList' \in Seq(Clients)
        /\ Len(pRtspList') = Len(pRtspList) - 1
        /\ \A j, k \in DOMAIN pRtspList' : pRtspList'[j] = pRtspList'[k] => j = k
    BY <2>1, ListWithoutProperties DEF ConnCount
  <2>4. QED
    BY <1>1, <2>2, <2>3, RtspAssumption DEF ConnCount
\* No memory: the list stays, and the place is taken.
<1>5. ASSUME NEW c \in Clients, AcceptNoMemory(c)
      PROVE  CountInv'
  BY <1>1, <1>5, RtspAssumption DEF AcceptNoMemory, RoomForClient, ConnCount
<1>6. QED
  BY <1>2, <1>3, <1>4, <1>5, OthersKeepCounts DEF Next, vars, connVars

\* EventLoop's two counts follow the connection list, which never outgrows
\* the limit, whatever the order of connects, refusals and disconnects.
THEOREM ConnectionsCounted == Spec => []ConnCount
<1>1. CountInv => ConnCount
  BY DEF CountInv
<1>2. QED
  BY <1>1, InitCountInv, NextCountInv, PTL DEF Spec

-----------------------------------------------------------------------------
(* The handles *)

LEMMA RtpsOfType ==
  ASSUME HandleInv, NEW c \in Clients
  PROVE  RtpsOf(c) \subseteq Rtps
<1>1. rtp_session[c] \in Seq(Rtps)
  BY DEF HandleInv
<1>2. QED
  BY <1>1, LenProperties, ElementOfSeq DEF RtpsOf

\* A connection without RTP sessions owns none.
LEMMA RtpsOfEmpty ==
  ASSUME NEW c \in Clients, rtp_session[c] = <<>>
  PROVE  RtpsOf(c) = {}
<1>1. <<>> \in Seq(Rtps) /\ Len(<<>>) = 0
  BY EmptySeq
<1>2. DOMAIN rtp_session[c] = 1 .. 0
  BY <1>1, LenProperties
<1>3. QED
  BY <1>2 DEF RtpsOf

\* What a SETUP adds to a connection is the next RTP session, and that alone.
LEMMA AddedRtps ==
  ASSUME HandleInv, NEW c \in Clients, NEW r \in Rtps, AddRtpSession(c, r)
  PROVE  /\ rtp_session' \in [Clients -> Seq(Rtps)]
         /\ RtpsOf(c)' = RtpsOf(c) \cup {r}
         /\ \A d \in Clients \ {c} : RtpsOf(d)' = RtpsOf(d)
<1> DEFINE old == rtp_session[c]
<1>1. old \in Seq(Rtps) /\ rtp_session' = [rtp_session EXCEPT ![c] = Append(old, r)]
  BY DEF HandleInv, AddRtpSession
<1>2. rtp_session'[c] = Append(old, r)
      /\ \A d \in Clients \ {c} : rtp_session'[d] = rtp_session[d]
  BY <1>1 DEF HandleInv
<1> HIDE DEF old
<1>3. /\ Append(old, r) \in Seq(Rtps)
      /\ Len(Append(old, r)) = Len(old) + 1
      /\ \A k \in 1 .. Len(old) : Append(old, r)[k] = old[k]
      /\ Append(old, r)[Len(old) + 1] = r
  BY <1>1, AppendProperties
<1>4. Len(old) \in Nat /\ DOMAIN old = 1 .. Len(old)
      /\ DOMAIN Append(old, r) = 1 .. Len(old) + 1
  BY <1>1, <1>3, LenProperties
<1>5. {Append(old, r)[k] : k \in 1 .. Len(old) + 1}
         = {old[k] : k \in 1 .. Len(old)} \cup {r}
  BY <1>3, <1>4
<1>6. RtpsOf(c)' = RtpsOf(c) \cup {r}
  BY <1>2, <1>4, <1>5 DEF RtpsOf, old
<1>7. rtp_session' \in [Clients -> Seq(Rtps)]
  BY <1>1, <1>3 DEF HandleInv, old
<1>8. \A d \in Clients \ {c} : RtpsOf(d)' = RtpsOf(d)
  BY <1>2 DEF RtpsOf
<1>9. QED
  BY <1>6, <1>7, <1>8

LEMMA InitHandleInv == Init => HandleInv
<1> SUFFICES ASSUME Init PROVE HandleInv
  OBVIOUS
<1>1. \A c \in Clients : RtpsOf(c) = {}
  BY RtpsOfEmpty DEF Init
<1>2. <<>> \in Seq(Rtps)
  BY EmptySeq
<1>3. QED
  BY <1>1, <1>2 DEF Init, HandleInv

\* The steps that leave the handles and their owners as they are.
LEMMA UnchangedHandleInv ==
  ASSUME HandleInv,
         UNCHANGED <<pRtspList, session_list, rtp_session, allocated, hndRtp>>
  PROVE  HandleInv'
BY DEF HandleInv, RtpsOf, Conns

\* A new connection owns nothing yet, and owned nothing before.
LEMMA AcceptHandleInv ==
  ASSUME HandleInv, ListOfClients, NEW c \in Clients, Accept(c)
  PROVE  HandleInv'
<1>1. /\ pRtspList' = Append(pRtspList, c) /\ c \notin Conns
      /\ session_list' = [session_list EXCEPT ![c] = TRUE]
      /\ rtp_session' = [rtp_session EXCEPT ![c] = <<>>]
      /\ UNCHANGED <<allocated, hndRtp>>
  BY DEF Accept, rtpVars
<1>2. <<>> \in Seq(Rtps)
  BY EmptySeq
<1>3. /\ rtp_session' \in [Clients -> Seq(Rtps)]
      /\ rtp_session'[c] = <<>>
      /\ \A d \in Clients \ {c} : rtp_session'[d] = rtp_session[d]
  BY <1>1, <1>2 DEF HandleInv
<1>4. RtpsOf(c) = {} /\ RtpsOf(c)' = {}
  BY <1>1, <1>2, <1>3, EmptySeq, LenProperties DEF HandleInv, RtpsOf
<1>5. \A d \in Clients : RtpsOf(d)' = RtpsOf(d)
  BY <1>3, <1>4 DEF RtpsOf
<1>6. Conns \subseteq Conns'
  <2>1. /\ Len(pRtspList) \in Nat /\ DOMAIN pRtspList = 1 .. Len(pRtspList)
        /\ \A k \in 1 .. Len(pRtspList) : pRtspList'[k] = pRtspList[k]
        /\ pRtspList' \in Seq(Clients) /\ Len(pRtspList') = Len(pRtspList) + 1
    BY <1>1, LenProperties, AppendProperties DEF ListOfClients
  <2>2. DOMAIN pRtspList' = 1 .. Len(pRtspList) + 1
    BY <2>1, LenProperties
  <2>3. QED
    BY <2>1, <2>2 DEF Conns
<1>7. QED
  BY <1>1, <1>3, <1>5, <1>6 DEF HandleInv

\* A SETUP adds the next RTP session to a connection that is served, and opens
\* a handle for no other.
LEMMA SetupHandleInv ==
  ASSUME HandleInv, NEW c \in Clients, NEW r \in Rtps,
         Served(c), AddRtpSession(c, r),
         UNCHANGED hndRtp \/ RtpCreate(r),
         UNCHANGED <<pRtspList, session_list>>
  PROVE  HandleInv'
<1>1. r = allocated + 1 /\ allocated' = r
  BY DEF AddRtpSession
<1>2. /\ rtp_session' \in [Clients -> Seq(Rtps)]
      /\ RtpsOf(c)' = RtpsOf(c) \cup {r}
      /\ \A d \in Clients \ {c} : RtpsOf(d)' = RtpsOf(d)
  BY AddedRtps
<1>3. \A d \in Clients : RtpsOf(d) \subseteq Rtps
  BY RtpsOfType
<1>4. /\ hndRtp' \in [Rtps -> {"null", "open", "freed"}]
      /\ hndRtp'[r] \in {"null", "open"}
      /\ \A q \in Rtps \ {r} : hndRtp'[q] = hndRtp[q]
  <2>1. hndRtp[r] = "null"
    BY <1>1, RtspAssumption DEF HandleInv, Rtps
  <2>2. CASE UNCHANGED hndRtp
    BY <2>1, <2>2 DEF HandleInv
  <2>3. CASE RtpCreate(r)
    BY <2>3 DEF HandleInv, RtpCreate
  <2>4. QED
    BY <2>2, <2>3
<1>5. c \in Conns' /\ session_list'[c] /\ Conns' = Conns
  BY DEF Served, Conns
<1>6. \A d \in Clients : r \notin RtpsOf(d)
  BY <1>1, <1>3 DEF HandleInv, Rtps
<1>7. allocated' \in Nat /\ session_list' \in [Clients -> BOOLEAN]
  BY <1>1 DEF HandleInv, Rtps
<1>8. \A q \in Rtps : /\ hndRtp'[q] = "open" => \E d \in Clients : q \in RtpsOf(d)'
                      /\ q > allocated' => hndRtp'[q] = "null"
  <2>1. ASSUME NEW q \in Rtps, hndRtp'[q] = "open"
        PROVE  \E d \in Clients : q \in RtpsOf(d)'
    <3>1. CASE q = r
      BY <1>2, <3>1
    <3>2. CASE q # r
      <4>1. PICK d \in Clients : q \in RtpsOf(d)
        BY <1>4, <2>1, <3>2 DEF HandleInv
      <4>2. QED
        BY <1>2, <4>1
    <3>3. QED
      BY <3>1, <3>2
  <2>2. ASSUME NEW q \in Rtps, q > allocated'
        PROVE  hndRtp'[q] = "null"
    <3>1. q # r /\ q > allocated
      BY <1>1, <2>2, RtspAssumption DEF HandleInv, Rtps
    <3>2. QED
      BY <1>4, <3>1 DEF HandleInv
  <2>3. QED
    BY <2>1, <2>2
<1>9. \A d \in Clients : RtpsOf(d)' # {} => d \in Conns' /\ session_list'[d]
  BY <1>2, <1>5 DEF HandleInv
<1>10. ASSUME NEW d \in Clients, NEW q \in RtpsOf(d)'
       PROVE  /\ q <= allocated'
              /\ hndRtp'[q] # "freed"
              /\ \A e \in Clients \ {d} : q \notin RtpsOf(e)'
  <2>1. CASE q = r
    <3>1. d = c
      BY <1>2, <1>6, <1>10, <2>1
    <3>2. QED
      BY <1>1, <1>2, <1>4, <1>6, <2>1, <3>1, RtspAssumption DEF Rtps
  <2>2. CASE q # r
    <3>1. q \in RtpsOf(d) /\ q \in Rtps
      BY <1>2, <1>3, <1>10, <2>2
    <3>2. q <= allocated'
      BY <1>1, <3>1, RtspAssumption DEF HandleInv, Rtps
    <3>3. hndRtp'[q] # "freed"
      BY <1>4, <2>2, <3>1 DEF HandleInv
    <3>4. \A e \in Clients \ {d} : q \notin RtpsOf(e)
      BY <3>1 DEF HandleInv
    <3>5. QED
      BY <1>2, <2>2, <3>2, <3>3, <3>4
  <2>3. QED
    BY <2>1, <2>2
<1>11. QED
  BY <1>2, <1>4, <1>7, <1>8, <1>9, <1>10 DEF HandleInv

\* A release deletes the handles of one client and leaves it owning none; the
\* handles of the others are not touched, for nobody shares one.
LEMMA ReleaseHandleInv ==
  ASSUME HandleInv, NEW c \in Clients, ReleaseSession(c),
         Conns \ {c} \subseteq Conns'
  PROVE  HandleInv'
<1>1. /\ session_list' = [session_list EXCEPT ![c] = FALSE]
      /\ rtp_session' = [rtp_session EXCEPT ![c] = <<>>]
      /\ hndRtp' = [r \in Rtps |-> IF r \in RtpsOf(c) /\ hndRtp[r] = "open"
                                   THEN "freed" ELSE hndRtp[r]]
      /\ UNCHANGED allocated
  BY DEF ReleaseSession, RtpDelete, ReleasedRtps
<1>2. <<>> \in Seq(Rtps) /\ DOMAIN <<>> = 1 .. 0
  BY EmptySeq, LenProperties
<1>3. /\ rtp_session' \in [Clients -> Seq(Rtps)]
      /\ rtp_session'[c] = <<>>
      /\ \A d \in Clients \ {c} : rtp_session'[d] = rtp_session[d]
  BY <1>1, <1>2 DEF HandleInv
<1>4. RtpsOf(c)' = {} /\ \A d \in Clients \ {c} : RtpsOf(d)' = RtpsOf(d)
  BY <1>2, <1>3 DEF RtpsOf
<1>5. \A d \in Clients : RtpsOf(d) \subseteq Rtps
  BY RtpsOfType
<1>6. /\ session_list' \in [Clients -> BOOLEAN]
      /\ hndRtp' \in [Rtps -> {"null", "open", "freed"}]
      /\ \A d \in Clients \ {c} : session_list'[d] = session_list[d]
  BY <1>1 DEF HandleInv
<1>7. \A r \in Rtps : hndRtp'[r] = "open" => \E d \in Clients : r \in RtpsOf(d)'
  BY <1>1, <1>4 DEF HandleInv
<1>8. \A r \in Rtps : r > allocated' => hndRtp'[r] = "null"
  BY <1>1 DEF HandleInv
<1>9. \A d \in Clients : RtpsOf(d)' # {} => d \in Conns' /\ session_list'[d]
  BY <1>4, <1>6 DEF HandleInv
<1>10. ASSUME NEW d \in Clients, NEW r \in RtpsOf(d)'
       PROVE  /\ r <= allocated'
              /\ hndRtp'[r] # "freed"
              /\ \A e \in Clients \ {d} : r \notin RtpsOf(e)'
  <2>1. d # c /\ r \in RtpsOf(d) /\ r \in Rtps /\ r \notin RtpsOf(c)
    BY <1>4, <1>5, <1>10 DEF HandleInv
  <2>2. r <= allocated /\ hndRtp[r] # "freed" /\ \A e \in Clients \ {d} : r \notin RtpsOf(e)
    BY <2>1 DEF HandleInv
  <2>3. hndRtp'[r] = hndRtp[r]
    BY <1>1, <2>1
  <2>4. QED
    BY <1>1, <1>4, <2>2, <2>3
<1>11. QED
  BY <1>1, <1>3, <1>6, <1>7, <1>8, <1>9, <1>10 DEF HandleInv

\* A connection that ends leaves the list; its session, if it still has one,
\* is released, and owned no handle otherwise.
LEMMA DisconnectHandleInv ==
  ASSUME HandleInv, CountInv, NEW c \in Clients, Disconnect(c)
  PROVE  HandleInv'
<1>1. PICK p \in DOMAIN pRtspList : pRtspList[p] = c /\ pRtspList' = ListWithout(p)
  BY DEF Disconnect
<1>2. Conns' = Conns \ {c}
  <2> DEFINE rest == ListWithout(p)
  <2>1. {rest[k] : k \in DOMAIN rest} = Conns \ {c}
    BY <1>1, ListWithoutProperties DEF CountInv, ConnCount
  <2>2. pRtspList' = rest
    BY <1>1
  <2> HIDE DEF rest
  <2>3. Conns' = {rest[k] : k \in DOMAIN rest}
    BY <2>2 DEF Conns
  <2>4. QED
    BY <2>1, <2>3
<1>3. CASE session_list[c] /\ ReleaseSession(c)
  BY <1>2, <1>3, ReleaseHandleInv
<1>4. CASE /\ ~session_list[c]
           /\ UNCHANGED <<session_list, rtp_session, allocated, hndRtp>>
  <2>1. \A d \in Clients : RtpsOf(d)' = RtpsOf(d)
    BY <1>4 DEF RtpsOf
  <2>2. RtpsOf(c) = {}
    BY <1>4 DEF HandleInv
  <2>3. QED
    BY <1>2, <1>4, <2>1, <2>2 DEF HandleInv
<1>5. QED
  BY <1>3, <1>4 DEF Disconnect, sessVars, rtpVars

LEMMA NextHandleInv == CountInv /\ HandleInv /\ [Next]_vars => HandleInv'
<1> SUFFICES ASSUME CountInv, HandleInv, [Next]_vars PROVE HandleInv'
  OBVIOUS
<1>1. CASE UNCHANGED vars
  BY <1>1, UnchangedHandleInv DEF vars, connVars, sessVars, rtpVars
<1>2. ASSUME NEW c \in Clients, Accept(c) PROVE HandleInv'
  BY <1>2, AcceptHandleInv DEF CountInv
<1>3. ASSUME NEW c \in Clients,
             \/ AcceptIgnored(c) \/ AcceptNoMemory(c) \/ AcceptFaults(c)
             \/ SetupNoTransport(c) \/ Options(c) \/ ReleaseFaults(c)
             \/ \E id \in RequestIds : PlayRefused(c, id) \/ Play(c, id) \/ PlayFaults(c, id)
      PROVE  HandleInv'
  <2>1. UNCHANGED <<pRtspList, session_list, rtp_session, allocated, hndRtp>>
    BY <1>3 DEF AcceptIgnored, AcceptNoMemory, AcceptFaults, SetupNoTransport, Options, ReleaseFaults,
                PlayRefused, Play, PlayFaults, connVars, sessVars, rtpVars
  <2>2. QED
    BY <2>1, UnchangedHandleInv
<1>4. ASSUME NEW c \in Clients, SetupUnsupported(c) \/ SetupNoPort(c) PROVE HandleInv'
  BY <1>4, SetupHandleInv DEF SetupUnsupported, SetupNoPort, connVars
<1>5. ASSUME NEW c \in Clients, NEW id \in SessionIds,
             SetupUnicast(c, id) \/ SetupMulticast(c, id)
      PROVE  HandleInv'
  BY <1>5, SetupHandleInv DEF SetupUnicast, SetupMulticast, connVars
<1>6. ASSUME NEW c \in Clients, NEW id \in RequestIds, Teardown(c, id) PROVE HandleInv'
  BY <1>6, ReleaseHandleInv DEF Teardown, connVars, Conns
<1>7. ASSUME NEW c \in Clients, Disconnect(c) PROVE HandleInv'
  BY <1>7, DisconnectHandleInv
<1>8. QED
  BY <1>1, <1>2, <1>3, <1>4, <1>5, <1>6, <1>7 DEF Next

\* Whatever SETUPs were refused halfway and however a client leaves, every UDP
\* socket that is open has a connection that will delete it, only one, and
\* none is deleted a second time.
THEOREM HandlesDeletedOnce == Spec => []HandlesOwnedOnce
<1>1. HandleInv => HandlesOwnedOnce
  <2> SUFFICES ASSUME HandleInv PROVE HandlesOwnedOnce
    OBVIOUS
  <2>1. ASSUME NEW r \in Rtps, hndRtp[r] = "open"
        PROVE  \E c \in Conns : r \in RtpsOf(c)
    BY <2>1 DEF HandleInv
  <2>2. QED
    BY <2>1 DEF HandleInv, HandlesOwnedOnce
<1>2. QED
  BY <1>1, InitCountInv, NextCountInv, InitHandleInv, NextHandleInv, PTL DEF Spec

-----------------------------------------------------------------------------
\* The types that CountInv and HandleInv leave open.
SessTypes ==
    /\ ignored \subseteq Clients
    /\ accepts \in Nat
    /\ cur_state \in [Clients -> States]
    /\ session_id \in [Clients -> SessionIds \cup {NoHeader}]

RtpTypes ==
    /\ allocated \in 0 .. MaxRtp
    /\ sched_id \in [Rtps -> Slots \cup {-1}]
    /\ ser_port \in [Rtps -> Ports \cup {NoPort}]
    /\ sched \in [Slots -> [valid : BOOLEAN, rtp_session : Rtps \cup {0}]]

PoolTypes ==
    /\ s_uPortPool \subseteq Ports
    /\ g_s32DoPlay \in Int
    /\ fault \in {"none", "next_fd", "schedule_start", "schedule_remove", "session_list"}

FlagTypes ==
    /\ pause \in [Rtps -> BOOLEAN]
    /\ started \in [Rtps -> BOOLEAN]
    /\ polite \in BOOLEAN

RestInv == SessTypes /\ RtpTypes /\ PoolTypes /\ FlagTypes

-----------------------------------------------------------------------------
(* The tables *)

LEMMA LeastIsElement ==
  ASSUME NEW S, S \subseteq Nat, S # {}
  PROVE  Least(S) \in S
<1> DEFINE R == OpToRel(<, Nat)
<1>1. IsWellFoundedOn(R, Nat)
  BY NatLessThanWellFounded
<1> HIDE DEF R
<1>2. PICK x \in S : \A y \in S : ~(<<y, x>> \in R)
  BY <1>1, WFMin
<1>3. ASSUME NEW y \in S PROVE x <= y
  <2>1. x \in Nat /\ y \in Nat /\ ~(<<y, x>> \in R)
    BY <1>2
  <2>2. y < x => <<y, x>> \in R
    BY <2>1 DEF R, OpToRel
  <2>3. QED
    BY <2>1, <2>2
<1>4. QED
  BY <1>3 DEF Least

\* schedule_add hands out a slot that was free, or -1.  The slot goes to the
\* first RTP session of the connection.
LEMMA ScheduleAdd ==
  ASSUME NEW c \in Clients, NEW r \in Rtps, schedule_add(c, r),
         rtp_session \in [Clients -> Seq(Rtps)]
  PROVE  \E i \in Slots \cup {-1}, q \in Rtps :
            /\ sched_id' = [sched_id EXCEPT ![q] = i]
            /\ rtp_session[c] = <<>> => q = r
            /\ i = -1 => sched' = sched /\ FreeSlots = {}
            /\ i # -1 => /\ ~sched[i].valid
                         /\ sched' = [sched EXCEPT ![i] = [valid |-> TRUE, rtp_session |-> r]]
<1> DEFINE i == IF FreeSlots = {} THEN -1 ELSE Least(FreeSlots)
           q == IF rtp_session[c] = <<>> THEN r ELSE rtp_session[c][1]
<1>1. /\ sched_id' = [sched_id EXCEPT ![q] = i]
      /\ sched' = IF i \notin Slots THEN sched
                  ELSE [sched EXCEPT ![i] = [valid |-> TRUE, rtp_session |-> r]]
  BY DEF schedule_add, StoreSlot
<1>2. FreeSlots # {} => i \in FreeSlots
  <2>1. FreeSlots \subseteq Nat
    BY RtspAssumption DEF FreeSlots, Slots
  <2>2. QED
    BY <2>1, LeastIsElement
<1>3. i \in FreeSlots \/ i = -1
  BY <1>2
<1>4. q \in Rtps /\ (rtp_session[c] = <<>> => q = r)
  <2>1. CASE rtp_session[c] = <<>>
    BY <2>1
  <2>2. CASE rtp_session[c] # <<>>
    <3>1. rtp_session[c] \in Seq(Rtps)
      OBVIOUS
    <3>2. rtp_session[c][1] \in Rtps
      BY <2>2, <3>1, EmptySeq, LenProperties, ElementOfSeq
    <3>3. QED
      BY <2>2, <3>2
  <2>3. QED
    BY <2>1, <2>2
<1> HIDE DEF i, q
<1>5. -1 \notin Slots /\ FreeSlots \subseteq Slots
  BY RtspAssumption DEF Slots, FreeSlots
<1>6. i = -1 => sched' = sched /\ FreeSlots = {}
  BY <1>1, <1>2, <1>5
<1>7. i # -1 => /\ ~sched[i].valid
                /\ sched' = [sched EXCEPT ![i] = [valid |-> TRUE, rtp_session |-> r]]
  BY <1>1, <1>3, <1>5 DEF FreeSlots
<1>8. i \in Slots \cup {-1}
  BY <1>3, <1>5
<1>9. QED
  BY <1>1, <1>4, <1>6, <1>7, <1>8

LEMMA SetupTypes ==
  ASSUME RestInv, NEW c \in Clients, NEW r \in Rtps, AddRtpSession(c, r)
  PROVE  allocated' \in 0 .. MaxRtp /\ pause' \in [Rtps -> BOOLEAN]
<1>1. allocated' = r /\ pause' = [pause EXCEPT ![r] = TRUE]
  BY DEF AddRtpSession
<1>2. QED
  BY <1>1, RtspAssumption DEF RestInv, FlagTypes, Rtps

LEMMA SlotTypes ==
  ASSUME RestInv, HandleInv, NEW c \in Clients, NEW r \in Rtps, schedule_add(c, r)
  PROVE  /\ sched_id' \in [Rtps -> Slots \cup {-1}]
         /\ sched' \in [Slots -> [valid : BOOLEAN, rtp_session : Rtps \cup {0}]]
<1>1. PICK i \in Slots \cup {-1}, q \in Rtps :
            /\ sched_id' = [sched_id EXCEPT ![q] = i]
            /\ i = -1 => sched' = sched
            /\ i # -1 => sched' = [sched EXCEPT ![i] = [valid |-> TRUE, rtp_session |-> r]]
  BY ScheduleAdd DEF HandleInv
<1>2. sched_id' \in [Rtps -> Slots \cup {-1}]
  BY <1>1 DEF RestInv, RtpTypes
<1>3. [valid |-> TRUE, rtp_session |-> r] \in [valid : BOOLEAN, rtp_session : Rtps \cup {0}]
  OBVIOUS
<1>4. sched' \in [Slots -> [valid : BOOLEAN, rtp_session : Rtps \cup {0}]]
  BY <1>1, <1>3 DEF RestInv, RtpTypes
<1>5. QED
  BY <1>2, <1>4

LEMMA ReleaseTypes ==
  ASSUME RestInv, NEW c \in Clients, ReleaseSession(c)
  PROVE  /\ cur_state' \in [Clients -> States]
         /\ session_id' \in [Clients -> SessionIds \cup {NoHeader}]
         /\ RtpTypes'
         /\ UNCHANGED <<pause, started>>
<1>1. /\ cur_state' = [cur_state EXCEPT ![c] = "INIT"]
      /\ session_id' = [session_id EXCEPT ![c] = NoHeader]
      /\ UNCHANGED <<allocated, pause, started, sched_id, ser_port>>
  BY DEF ReleaseSession
<1>2. PICK T : sched' = [i \in Slots |-> IF i \in T THEN [sched[i] EXCEPT !.valid = FALSE]
                                         ELSE sched[i]]
  BY DEF ReleaseSession
<1>3. \A i \in Slots : sched[i] \in [valid : BOOLEAN, rtp_session : Rtps \cup {0}]
  BY DEF RestInv, RtpTypes
<1>4. ASSUME NEW i \in Slots
      PROVE  [sched[i] EXCEPT !.valid = FALSE] \in [valid : BOOLEAN, rtp_session : Rtps \cup {0}]
  BY <1>3
<1>5. sched' \in [Slots -> [valid : BOOLEAN, rtp_session : Rtps \cup {0}]]
  BY <1>2, <1>3, <1>4
<1>6. cur_state' \in [Clients -> States] /\ session_id' \in [Clients -> SessionIds \cup {NoHeader}]
  BY <1>1 DEF RestInv, SessTypes, States
<1>7. QED
  BY <1>1, <1>5, <1>6 DEF RestInv, RtpTypes

LEMMA CountDownTypes ==
  ASSUME RestInv, NEW k \in Int, CountDown(k)
  PROVE  g_s32DoPlay' \in Int /\ s_uPortPool' \subseteq Ports
BY DEF CountDown, RestInv, PoolTypes

-----------------------------------------------------------------------------
(* Types *)

LEMMA InitRestInv == Init => RestInv
<1> SUFFICES ASSUME Init PROVE RestInv
  OBVIOUS
<1>1. SessTypes
  BY DEF Init, SessTypes, States
<1>2. RtpTypes
  <2>1. 0 \in Slots
    BY RtspAssumption DEF Slots
  <2>2. [valid |-> FALSE, rtp_session |-> 0] \in [valid : BOOLEAN, rtp_session : Rtps \cup {0}]
    OBVIOUS
  <2>3. QED
    BY <2>1, <2>2, RtspAssumption DEF Init, RtpTypes
<1>3. PoolTypes
  BY DEF Init, PoolTypes
<1>4. FlagTypes
  BY DEF Init, FlagTypes
<1>5. QED
  BY <1>1, <1>2, <1>3, <1>4 DEF RestInv

\* A SETUP that gets an RTP session.
LEMMA SetupKeepsTypes ==
  ASSUME HandleInv, RestInv, NEW c \in Clients,
         \/ SetupUnsupported(c) \/ SetupNoPort(c)
         \/ \E id \in SessionIds : SetupUnicast(c, id) \/ SetupMulticast(c, id)
  PROVE  RestInv'
<1>1. PICK r \in Rtps :
        /\ AddRtpSession(c, r)
        /\ (UNCHANGED sched_id /\ UNCHANGED sched) \/ schedule_add(c, r)
        /\ (UNCHANGED ser_port /\ UNCHANGED s_uPortPool) \/ RTP_get_port_pair(r)
  BY DEF SetupUnsupported, SetupNoPort, SetupUnicast, SetupMulticast, tableVars
<1>2. /\ UNCHANGED <<ignored, accepts, g_s32DoPlay, fault, started>>
      /\ session_id' = session_id \/ \E id \in SessionIds : session_id' = [session_id EXCEPT ![c] = id]
      /\ cur_state' = cur_state \/ cur_state' = [cur_state EXCEPT ![c] = "READY"]
  BY DEF SetupUnsupported, SetupNoPort, SetupUnicast, SetupMulticast, connVars, tableVars
<1>3. polite' \in BOOLEAN
  <2>1. CASE polite' = FALSE
    BY <2>1
  <2>2. CASE polite' = (polite /\ rtp_session[c] = <<>>)
    BY <2>2
  <2>3. QED
    BY <2>1, <2>2 DEF SetupUnsupported, SetupNoPort, SetupUnicast, SetupMulticast
<1>4. SessTypes'
  BY <1>2 DEF RestInv, SessTypes, States
<1>5. /\ sched_id' \in [Rtps -> Slots \cup {-1}]
      /\ sched' \in [Slots -> [valid : BOOLEAN, rtp_session : Rtps \cup {0}]]
  <2>1. CASE UNCHANGED sched_id /\ UNCHANGED sched
    BY <2>1 DEF RestInv, RtpTypes
  <2>2. CASE schedule_add(c, r)
    BY <2>2, SlotTypes
  <2>3. QED
    BY <1>1, <2>1, <2>2
<1>6. ser_port' \in [Rtps -> Ports \cup {NoPort}] /\ s_uPortPool' \subseteq Ports
  <2>1. CASE UNCHANGED ser_port /\ UNCHANGED s_uPortPool
    BY <2>1 DEF RestInv, RtpTypes, PoolTypes
  <2>2. CASE RTP_get_port_pair(r)
    <3>1. s_uPortPool \subseteq Nat /\ s_uPortPool # {}
      BY <2>2, RtspAssumption DEF RTP_get_port_pair, RestInv, PoolTypes, Ports, Slots
    <3>2. Least(s_uPortPool) \in Ports
      BY <3>1, LeastIsElement DEF RestInv, PoolTypes
    <3>3. QED
      BY <2>2, <3>2 DEF RTP_get_port_pair, RestInv, RtpTypes, PoolTypes
  <2>3. QED
    BY <1>1, <2>1, <2>2
<1>7. allocated' \in 0 .. MaxRtp /\ pause' \in [Rtps -> BOOLEAN]
  BY <1>1, SetupTypes
<1>8. RtpTypes'
  BY <1>5, <1>6, <1>7 DEF RtpTypes
<1>9. PoolTypes'
  BY <1>2, <1>6 DEF RestInv, PoolTypes
<1>10. FlagTypes'
  BY <1>2, <1>3, <1>7 DEF RestInv, FlagTypes
<1>11. QED
  BY <1>4, <1>8, <1>9, <1>10 DEF RestInv

LEMMA PlayKeepsTypes ==
  ASSUME HandleInv, RestInv, NEW c \in Clients, NEW id \in RequestIds, Play(c, id)
  PROVE  RestInv'
<1>1. PICK S \in SUBSET DOMAIN rtp_session[c] :
        LET targets == {Target(rtp_session[c][k]) : k \in S}
        IN  /\ pause' = [r \in Rtps |-> pause[r] /\ r \notin targets]
            /\ started' = [r \in Rtps |-> started[r] \/ r \in targets]
            /\ g_s32DoPlay' = g_s32DoPlay + Cardinality(S)
  BY DEF Play
<1> DEFINE targets == {Target(rtp_session[c][k]) : k \in S}
<1>2. Cardinality(S) \in Nat
  <2>1. DOMAIN rtp_session[c] = 1 .. Len(rtp_session[c]) /\ Len(rtp_session[c]) \in Nat
    BY LenProperties DEF HandleInv
  <2>2. IsFiniteSet(DOMAIN rtp_session[c])
    BY <2>1, FS_Interval
  <2>3. QED
    BY <2>2, FS_Subset, FS_CardinalityType
<1>3. \A r \in Rtps : (pause[r] /\ r \notin targets) \in BOOLEAN /\ (started[r] \/ r \in targets) \in BOOLEAN
  OBVIOUS
<1>4. pause' \in [Rtps -> BOOLEAN] /\ started' \in [Rtps -> BOOLEAN]
  BY <1>1, <1>3
<1>5. /\ UNCHANGED <<ignored, accepts, session_id, polite, s_uPortPool, fault>>
      /\ UNCHANGED <<allocated, sched_id, ser_port, sched>>
      /\ cur_state' = [cur_state EXCEPT ![c] = "PLAY"]
  BY DEF Play, connVars
<1>6. SessTypes'
  BY <1>5 DEF RestInv, SessTypes, States
<1>7. RtpTypes'
  BY <1>5 DEF RestInv, RtpTypes
<1>8. PoolTypes'
  BY <1>1, <1>2, <1>5 DEF RestInv, PoolTypes
<1>9. FlagTypes'
  BY <1>4, <1>5 DEF RestInv, FlagTypes
<1>10. QED
  BY <1>6, <1>7, <1>8, <1>9 DEF RestInv

\* TEARDOWN, and the end of a connection that has a session.
LEMMA ReleaseKeepsTypes ==
  ASSUME RestInv, NEW c \in Clients, ReleaseSession(c), NEW k \in Int, CountDown(k),
         UNCHANGED <<ignored, accepts, polite>>,
         fault' \in {"none", "next_fd"} \/ UNCHANGED fault
  PROVE  RestInv'
<1>1. SessTypes'
  BY ReleaseTypes DEF RestInv, SessTypes
<1>2. RtpTypes' /\ UNCHANGED <<pause, started>>
  BY ReleaseTypes
<1>3. PoolTypes'
  BY CountDownTypes DEF RestInv, PoolTypes
<1>4. FlagTypes'
  BY <1>2 DEF RestInv, FlagTypes
<1>5. QED
  BY <1>1, <1>2, <1>3, <1>4 DEF RestInv

\* The steps that touch the state of a connection and none of the tables.
LEMMA PlainKeepsTypes ==
  ASSUME RestInv, ignored' \subseteq Clients, accepts' \in Nat,
         cur_state' \in [Clients -> States],
         session_id' \in [Clients -> SessionIds \cup {NoHeader}],
         UNCHANGED <<allocated, sched_id, ser_port, sched, pause, started>>,
         UNCHANGED <<s_uPortPool, g_s32DoPlay>>,
         UNCHANGED fault \/ fault' \in {"none", "next_fd", "schedule_start",
                                        "schedule_remove", "session_list"},
         UNCHANGED polite \/ polite' = FALSE
  PROVE  RestInv'
<1>1. SessTypes' /\ RtpTypes' /\ PoolTypes'
  BY DEF RestInv, SessTypes, RtpTypes, PoolTypes
<1>2. FlagTypes'
  BY DEF RestInv, FlagTypes
<1>3. QED
  BY <1>1, <1>2 DEF RestInv

LEMMA NextRestInv == CountInv /\ HandleInv /\ RestInv /\ [Next]_vars => RestInv'
<1> SUFFICES ASSUME CountInv, HandleInv, RestInv, [Next]_vars PROVE RestInv'
  OBVIOUS
<1>1. CASE UNCHANGED vars
  BY <1>1, PlainKeepsTypes DEF vars, connVars, sessVars, rtpVars, tableVars, RestInv, SessTypes
<1>2. ASSUME NEW c \in Clients,
             \/ Accept(c) \/ AcceptIgnored(c) \/ AcceptNoMemory(c)
      PROVE  RestInv'
  <2>1. ignored' \subseteq Clients /\ accepts' \in Nat
    BY <1>2 DEF Accept, AcceptIgnored, AcceptNoMemory, RestInv, SessTypes
  <2>2. /\ cur_state' \in [Clients -> States]
        /\ session_id' \in [Clients -> SessionIds \cup {NoHeader}]
    BY <1>2 DEF Accept, AcceptIgnored, AcceptNoMemory, RestInv, SessTypes, States, sessVars
  <2>3. UNCHANGED <<rtpVars, tableVars, polite>>
    BY <1>2 DEF Accept, AcceptIgnored, AcceptNoMemory
  <2>4. QED
    BY <2>1, <2>2, <2>3, PlainKeepsTypes DEF rtpVars, tableVars
<1>3. ASSUME NEW c \in Clients, SetupNoTransport(c) \/ Options(c)
      PROVE  RestInv'
  <2>1. cur_state' \in [Clients -> States]
    BY <1>3 DEF SetupNoTransport, Options, RestInv, SessTypes, States
  <2>2. UNCHANGED <<connVars, session_id, rtpVars, tableVars>> /\ (UNCHANGED polite \/ polite' = FALSE)
    BY <1>3 DEF SetupNoTransport, Options
  <2>3. QED
    BY <2>1, <2>2, PlainKeepsTypes DEF connVars, rtpVars, tableVars, RestInv, SessTypes
<1>4. ASSUME NEW c \in Clients, NEW id \in RequestIds, PlayRefused(c, id)
      PROVE  RestInv'
  <2>1. cur_state' \in [Clients -> States]
    BY <1>4 DEF PlayRefused, RestInv, SessTypes, States
  <2>2. UNCHANGED <<connVars, session_id, rtpVars, tableVars>> /\ polite' = FALSE
    BY <1>4 DEF PlayRefused
  <2>3. QED
    BY <2>1, <2>2, PlainKeepsTypes DEF connVars, rtpVars, tableVars, RestInv, SessTypes
<1>5. ASSUME NEW c \in Clients,
             \/ AcceptFaults(c) \/ ReleaseFaults(c)
             \/ \E id \in RequestIds : PlayFaults(c, id)
      PROVE  RestInv'
  <2>1. /\ UNCHANGED <<connVars, sessVars, rtpVars, sched, s_uPortPool, g_s32DoPlay, polite>>
        /\ fault' \in {"session_list", "schedule_remove", "schedule_start"}
    BY <1>5 DEF AcceptFaults, ReleaseFaults, PlayFaults
  <2>2. QED
    BY <2>1, PlainKeepsTypes DEF connVars, sessVars, rtpVars, RestInv, SessTypes
<1>6. ASSUME NEW c \in Clients,
             \/ SetupUnsupported(c) \/ SetupNoPort(c)
             \/ \E id \in SessionIds : SetupUnicast(c, id) \/ SetupMulticast(c, id)
      PROVE  RestInv'
  BY <1>6, SetupKeepsTypes
<1>7. ASSUME NEW c \in Clients, NEW id \in RequestIds, Play(c, id)
      PROVE  RestInv'
  BY <1>7, PlayKeepsTypes
<1>8. ASSUME NEW c \in Clients, NEW id \in RequestIds, Teardown(c, id)
      PROVE  RestInv'
  <2>1. Len(rtp_session[c]) \in Int
    BY LenProperties DEF HandleInv
  <2>2. QED
    BY <1>8, <2>1, ReleaseKeepsTypes DEF Teardown, connVars
<1>9. ASSUME NEW c \in Clients, Disconnect(c)
       PROVE  RestInv'
  <2>1. UNCHANGED <<ignored, accepts, polite>> /\ fault' \in {"none", "next_fd"}
    BY <1>9 DEF Disconnect
  <2>2. CASE ReleaseSession(c) /\ CountDown(1)
    BY <2>1, <2>2, ReleaseKeepsTypes
  <2>3. CASE UNCHANGED <<sessVars, rtpVars, sched, s_uPortPool, g_s32DoPlay>>
    BY <2>1, <2>3, PlainKeepsTypes DEF sessVars, rtpVars, RestInv, SessTypes
  <2>4. QED
    BY <1>9, <2>2, <2>3 DEF Disconnect
<1>10. QED
  BY <1>1, <1>2, <1>3, <1>4, <1>5, <1>6, <1>7, <1>8, <1>9 DEF Next

\* The state of the server keeps its types, whatever clients ask for and
\* however often memory, sockets, ports or slots run out.
THEOREM TypeCorrect == Spec => []TypeOK
<1>1. CountInv /\ HandleInv /\ RestInv => TypeOK
  <2> SUFFICES ASSUME CountInv, HandleInv, RestInv PROVE TypeOK
    OBVIOUS
  <2>1. s32ConCnt \in Int /\ num_conn \in Int
    BY LenProperties DEF CountInv, ConnCount, ListOfClients
  <2>2. QED
    BY <2>1 DEF CountInv, ListOfClients, HandleInv, RestInv, SessTypes, RtpTypes, PoolTypes,
                FlagTypes, TypeOK
<1>2. QED
  BY <1>1, InitCountInv, NextCountInv, InitHandleInv, NextHandleInv, InitRestInv, NextRestInv,
     PTL DEF Spec

-----------------------------------------------------------------------------
(* Polite clients *)

\* The RTP session r and its slot name each other.
Seated(r) ==
    sched_id[r] \in Slots => /\ sched[sched_id[r]].valid
                             /\ sched[sched_id[r]].rtp_session = r

\* While all clients are polite, a connection has at most one RTP session.
\* It is paused until PLAY and not after, and it has a slot of its own or
\* none; a slot in use is the slot of the RTP session it holds.
OneStreamEach ==
    \A c \in Clients :
        /\ \A q, r \in RtpsOf(c) : q = r
        /\ RtpsOf(c) = {} => cur_state[c] = "INIT"
        /\ \A r \in RtpsOf(c) :
              /\ Seated(r)
              /\ IF cur_state[c] = "PLAY" THEN sched_id[r] \in Slots /\ ~pause[r]
                 ELSE pause[r] /\ ~started[r]

SlotsAreNamed ==
    \A i \in Slots : sched[i].valid =>
        \E c \in Clients : /\ sched[i].rtp_session \in RtpsOf(c)
                           /\ sched_id[sched[i].rtp_session] = i

FreshNotStarted == \A r \in Rtps : r > allocated => ~started[r]

StreamInv == polite => OneStreamEach /\ SlotsAreNamed /\ FreshNotStarted

LEMMA InitStreamInv == Init => StreamInv
<1> SUFFICES ASSUME Init PROVE StreamInv
  OBVIOUS
<1>1. \A c \in Clients : RtpsOf(c) = {}
  BY RtpsOfEmpty DEF Init
<1>2. OneStreamEach
  BY <1>1 DEF Init, OneStreamEach
<1>3. SlotsAreNamed /\ FreshNotStarted
  BY DEF Init, SlotsAreNamed, FreshNotStarted
<1>4. QED
  BY <1>2, <1>3 DEF StreamInv

\* The steps that leave the sessions and the slots as they are.
LEMMA PlainStreamInv ==
  ASSUME StreamInv, UNCHANGED <<sessVars, rtpVars, sched, polite>>
  PROVE  StreamInv'
<1>1. \A c \in Clients : RtpsOf(c)' = RtpsOf(c)
  BY DEF RtpsOf, sessVars
<1>2. OneStreamEach => OneStreamEach'
  BY <1>1 DEF OneStreamEach, Seated, sessVars, rtpVars
<1>3. SlotsAreNamed => SlotsAreNamed'
  BY <1>1 DEF SlotsAreNamed, rtpVars
<1>4. FreshNotStarted => FreshNotStarted'
  BY DEF FreshNotStarted, rtpVars
<1>5. QED
  BY <1>2, <1>3, <1>4 DEF StreamInv

\* A new connection has no RTP session, and had none.
LEMMA AcceptStreamInv ==
  ASSUME StreamInv, HandleInv, RestInv, NEW c \in Clients, Accept(c)
  PROVE  StreamInv'
<1>1. /\ c \notin Conns
      /\ cur_state' = [cur_state EXCEPT ![c] = "INIT"]
      /\ rtp_session' = [rtp_session EXCEPT ![c] = <<>>]
      /\ UNCHANGED <<allocated, pause, started, sched_id, sched, polite>>
  BY DEF Accept, rtpVars, tableVars
<1>2. RtpsOf(c) = {}
  BY <1>1 DEF HandleInv
<1>3. rtp_session'[c] = <<>> /\ \A d \in Clients \ {c} : rtp_session'[d] = rtp_session[d]
  BY <1>1 DEF HandleInv
<1>4. RtpsOf(c)' = {}
  BY <1>3, EmptySeq, LenProperties DEF RtpsOf
<1>5. \A d \in Clients : RtpsOf(d)' = RtpsOf(d)
  BY <1>2, <1>3, <1>4 DEF RtpsOf
<1>6. cur_state'[c] = "INIT" /\ \A d \in Clients \ {c} : cur_state'[d] = cur_state[d]
  BY <1>1 DEF RestInv, SessTypes
<1>7. OneStreamEach => OneStreamEach'
  BY <1>1, <1>2, <1>5, <1>6 DEF OneStreamEach, Seated
<1>8. SlotsAreNamed => SlotsAreNamed'
  BY <1>1, <1>5 DEF SlotsAreNamed
<1>9. FreshNotStarted => FreshNotStarted'
  BY <1>1 DEF FreshNotStarted
<1>10. QED
  BY <1>1, <1>7, <1>8, <1>9 DEF StreamInv

\* The SETUP of a polite client: its first, for a unicast stream.  It gets a
\* slot that was free, which no other RTP session names.
LEMMA SetupStreamInv ==
  ASSUME StreamInv, HandleInv, RestInv, NEW c \in Clients, NEW id \in SessionIds,
         SetupUnicast(c, id)
  PROVE  StreamInv'
<1> SUFFICES ASSUME polite' PROVE (OneStreamEach /\ SlotsAreNamed /\ FreshNotStarted)'
  BY DEF StreamInv
<1>1. polite /\ rtp_session[c] = <<>>
  BY DEF SetupUnicast
<1>2. OneStreamEach /\ SlotsAreNamed /\ FreshNotStarted
  BY <1>1 DEF StreamInv
<1>3. PICK r \in Rtps : AddRtpSession(c, r) /\ schedule_add(c, r)
  BY DEF SetupUnicast
<1>4. PICK i \in Slots \cup {-1} :
        /\ sched_id' = [sched_id EXCEPT ![r] = i]
        /\ i = -1 => sched' = sched
        /\ i # -1 => /\ ~sched[i].valid
                     /\ sched' = [sched EXCEPT ![i] = [valid |-> TRUE, rtp_session |-> r]]
  BY <1>1, <1>3, ScheduleAdd DEF HandleInv
<1>5. /\ r = allocated + 1 /\ allocated' = r
      /\ pause' = [pause EXCEPT ![r] = TRUE]
      /\ UNCHANGED started
      /\ cur_state' = [cur_state EXCEPT ![c] = "READY"]
  BY <1>3 DEF AddRtpSession, SetupUnicast
<1>6. /\ RtpsOf(c) = {} /\ RtpsOf(c)' = {r}
      /\ \A d \in Clients \ {c} : RtpsOf(d)' = RtpsOf(d)
  BY <1>1, <1>3, AddedRtps, RtpsOfEmpty
<1>7. \A d \in Clients : RtpsOf(d) \subseteq Rtps /\ r \notin RtpsOf(d)
  BY <1>5, RtpsOfType DEF HandleInv, Rtps
<1>8. /\ sched_id'[r] = i /\ pause'[r] /\ ~started'[r] /\ cur_state'[c] = "READY"
      /\ \A q \in Rtps \ {r} : sched_id'[q] = sched_id[q] /\ pause'[q] = pause[q]
      /\ \A d \in Clients \ {c} : cur_state'[d] = cur_state[d]
  <2>1. sched_id'[r] = i /\ \A q \in Rtps \ {r} : sched_id'[q] = sched_id[q]
    BY <1>4 DEF RestInv, RtpTypes
  <2>2. pause'[r] /\ \A q \in Rtps \ {r} : pause'[q] = pause[q]
    BY <1>5 DEF RestInv, FlagTypes
  <2>3. ~started[r]
    <3>1. r > allocated
      BY <1>5 DEF HandleInv
    <3>2. QED
      BY <1>2, <3>1 DEF FreshNotStarted
  <2>4. cur_state'[c] = "READY" /\ \A d \in Clients \ {c} : cur_state'[d] = cur_state[d]
    BY <1>5 DEF RestInv, SessTypes
  <2>5. QED
    BY <1>5, <2>1, <2>2, <2>3, <2>4
<1>9. /\ i \in Slots => sched'[i].valid /\ sched'[i].rtp_session = r
      /\ \A j \in Slots : j # i => sched'[j] = sched[j]
      /\ i \in Slots => ~sched[i].valid
  <2>1. -1 \notin Slots
    BY RtspAssumption DEF Slots
  <2>2. QED
    BY <1>4, <2>1 DEF RestInv, RtpTypes
<1>10. OneStreamEach'
  <2>1. ASSUME NEW d \in Clients, NEW q \in RtpsOf(d)', d # c
        PROVE  /\ Seated(q)'
               /\ IF cur_state'[d] = "PLAY" THEN sched_id'[q] \in Slots /\ ~pause'[q]
                  ELSE pause'[q] /\ ~started'[q]
    <3>1. q \in RtpsOf(d) /\ q \in Rtps \ {r}
      BY <1>6, <1>7, <2>1
    <3>2. /\ Seated(q)
          /\ IF cur_state[d] = "PLAY" THEN sched_id[q] \in Slots /\ ~pause[q]
             ELSE pause[q] /\ ~started[q]
      BY <1>2, <3>1 DEF OneStreamEach
    <3>3. sched_id'[q] = sched_id[q] /\ pause'[q] = pause[q] /\ cur_state'[d] = cur_state[d]
          /\ started'[q] = started[q]
      BY <1>5, <1>8, <2>1, <3>1
    <3>4. Seated(q)'
      BY <1>9, <3>2, <3>3 DEF Seated
    <3>5. QED
      BY <3>2, <3>3, <3>4
  <2>2. Seated(r)'
    BY <1>8, <1>9 DEF Seated
  <2>3. ASSUME NEW d \in Clients, d # c
        PROVE  /\ \A p, q \in RtpsOf(d)' : p = q
               /\ RtpsOf(d)' = {} => cur_state'[d] = "INIT"
    BY <1>2, <1>6, <1>8, <2>3 DEF OneStreamEach
  <2>4. QED
    BY <1>6, <1>8, <2>1, <2>2, <2>3 DEF OneStreamEach
<1>11. SlotsAreNamed'
  <2>1. ASSUME NEW j \in Slots, sched'[j].valid
        PROVE  \E d \in Clients : /\ sched'[j].rtp_session \in RtpsOf(d)'
                                  /\ sched_id'[sched'[j].rtp_session] = j
    <3>1. CASE j = i
      BY <1>6, <1>8, <1>9, <3>1
    <3>2. CASE j # i
      <4>1. PICK d \in Clients : /\ sched[j].rtp_session \in RtpsOf(d)
                                 /\ sched_id[sched[j].rtp_session] = j
        BY <1>2, <1>9, <2>1, <3>2 DEF SlotsAreNamed
      <4>2. d # c
        BY <1>6, <4>1
      <4>3. sched[j].rtp_session \in Rtps \ {r}
        BY <1>7, <4>1
      <4>4. QED
        BY <1>6, <1>8, <1>9, <3>2, <4>1, <4>2, <4>3
    <3>3. QED
      BY <3>1, <3>2
  <2>2. QED
    BY <2>1 DEF SlotsAreNamed
<1>12. FreshNotStarted'
  <2>1. \A q \in Rtps : q > allocated' => q > allocated
    BY <1>5, RtspAssumption DEF HandleInv, Rtps
  <2>2. QED
    BY <1>2, <1>5, <2>1 DEF FreshNotStarted
<1>13. QED
  BY <1>10, <1>11, <1>12

\* The PLAY of a polite client: it starts the one stream of the connection,
\* once.
LEMMA PolitePlay ==
  ASSUME polite, StreamInv, HandleInv, RestInv, NEW c \in Clients, NEW id \in RequestIds,
         Play(c, id)
  PROVE  \E r \in Rtps : /\ RtpsOf(c) = {r}
                         /\ sched_id[r] \in Slots /\ pause[r]
                         /\ pause' = [pause EXCEPT ![r] = FALSE]
                         /\ started' = [started EXCEPT ![r] = TRUE]
                         /\ g_s32DoPlay' = g_s32DoPlay + 1
<1>1. PICK S \in SUBSET DOMAIN rtp_session[c] :
        LET targets == {Target(rtp_session[c][k]) : k \in S}
        IN  /\ Starts(c, S)
            /\ 0 \notin targets
            /\ pause' = [r \in Rtps |-> pause[r] /\ r \notin targets]
            /\ started' = [r \in Rtps |-> started[r] \/ r \in targets]
            /\ g_s32DoPlay' = g_s32DoPlay + Cardinality(S)
  BY DEF Play
<1> DEFINE targets == {Target(rtp_session[c][k]) : k \in S}
<1>2. OneStreamEach /\ cur_state[c] = "READY"
  BY DEF StreamInv, Play
<1>3. RtpsOf(c) # {}
  BY <1>2 DEF OneStreamEach
<1>4. PICK r \in RtpsOf(c) : RtpsOf(c) = {r}
  BY <1>2, <1>3 DEF OneStreamEach
<1>5. r \in Rtps
  BY <1>4, RtpsOfType
<1>6. Seated(r) /\ pause[r] /\ ~started[r]
  BY <1>2, <1>4 DEF OneStreamEach
<1>7. \A k \in DOMAIN rtp_session[c] : rtp_session[c][k] = r
  BY <1>4 DEF RtpsOf
<1>8. DOMAIN rtp_session[c] # {} /\ DOMAIN rtp_session[c] \subseteq Int
  BY <1>3, LenProperties DEF HandleInv, RtpsOf
<1>9. S # {}
  <2> SUFFICES ASSUME S = {} PROVE FALSE
    OBVIOUS
  <2>1. PICK k \in DOMAIN rtp_session[c] : TRUE
    BY <1>8
  <2>2. k \in S <=> ~started[rtp_session[c][k]] /\ \A j \in S : j < k =>
                       Target(rtp_session[c][j]) # rtp_session[c][k]
    BY <1>1 DEF Starts
  <2>3. ~started[rtp_session[c][k]]
    BY <1>6, <1>7
  <2>4. QED
    BY <2>2, <2>3
<1>10. Target(r) # 0
  BY <1>1, <1>7, <1>9
<1>11. sched_id[r] \in Slots /\ Target(r) = r
  BY <1>6, <1>10 DEF Target, Seated
<1>12. targets = {r}
  BY <1>7, <1>9, <1>11
<1>13. \E k \in S : S = {k}
  <2>1. ASSUME NEW j \in S, NEW k \in S PROVE ~(j < k)
    <3>1. j < k => Target(rtp_session[c][j]) # rtp_session[c][k]
      BY <1>1 DEF Starts
    <3>2. QED
      BY <1>7, <1>11, <3>1
  <2>2. \A j, k \in S : j = k
    BY <1>8, <2>1
  <2>3. QED
    BY <1>9, <2>2
<1>14. Cardinality(S) = 1
  BY <1>13, FS_Singleton
<1>15. pause' = [pause EXCEPT ![r] = FALSE]
  <2>1. pause' = [q \in Rtps |-> pause[q] /\ q \notin {r}]
    BY <1>1, <1>12
  <2>2. pause \in [Rtps -> BOOLEAN]
    BY DEF RestInv, FlagTypes
  <2>3. QED
    BY <1>5, <2>1, <2>2
<1>16. started' = [started EXCEPT ![r] = TRUE]
  <2>1. started' = [q \in Rtps |-> started[q] \/ q \in {r}]
    BY <1>1, <1>12
  <2>2. started \in [Rtps -> BOOLEAN]
    BY DEF RestInv, FlagTypes
  <2>3. QED
    BY <1>5, <2>1, <2>2
<1>17. g_s32DoPlay' = g_s32DoPlay + 1
  BY <1>1, <1>14
<1>18. QED
  BY <1>4, <1>5, <1>6, <1>11, <1>15, <1>16, <1>17

LEMMA PlayStreamInv ==
  ASSUME StreamInv, HandleInv, RestInv, NEW c \in Clients, NEW id \in RequestIds,
         Play(c, id)
  PROVE  StreamInv'
<1> SUFFICES ASSUME polite' PROVE (OneStreamEach /\ SlotsAreNamed /\ FreshNotStarted)'
  BY DEF StreamInv
<1>1. /\ polite
      /\ cur_state' = [cur_state EXCEPT ![c] = "PLAY"]
      /\ UNCHANGED <<rtp_session, allocated, sched_id, sched>>
  BY DEF Play
<1>2. OneStreamEach /\ SlotsAreNamed /\ FreshNotStarted
  BY <1>1 DEF StreamInv
<1>3. PICK r \in Rtps : /\ RtpsOf(c) = {r}
                        /\ sched_id[r] \in Slots
                        /\ pause' = [pause EXCEPT ![r] = FALSE]
                        /\ started' = [started EXCEPT ![r] = TRUE]
  BY <1>1, PolitePlay
<1>4. /\ ~pause'[r]
      /\ \A q \in Rtps \ {r} : pause'[q] = pause[q] /\ started'[q] = started[q]
  BY <1>3 DEF RestInv, FlagTypes
<1>5. cur_state'[c] = "PLAY" /\ \A d \in Clients \ {c} : cur_state'[d] = cur_state[d]
  BY <1>1 DEF RestInv, SessTypes
<1>6. \A d \in Clients : RtpsOf(d)' = RtpsOf(d) /\ RtpsOf(d) \subseteq Rtps
  BY <1>1, RtpsOfType DEF RtpsOf
<1>7. \A d \in Clients \ {c} : r \notin RtpsOf(d)
  BY <1>3 DEF HandleInv
<1>8. \A q : Seated(q)' <=> Seated(q)
  BY <1>1 DEF Seated
<1>9. OneStreamEach'
  <2>1. ASSUME NEW d \in Clients \ {c}, NEW q \in RtpsOf(d)
        PROVE  IF cur_state'[d] = "PLAY" THEN sched_id'[q] \in Slots /\ ~pause'[q]
               ELSE pause'[q] /\ ~started'[q]
    <3>1. q \in Rtps \ {r}
      BY <1>6, <1>7
    <3>2. IF cur_state[d] = "PLAY" THEN sched_id[q] \in Slots /\ ~pause[q]
          ELSE pause[q] /\ ~started[q]
      BY <1>2 DEF OneStreamEach
    <3>3. QED
      BY <1>1, <1>4, <1>5, <3>1, <3>2
  <2>2. \A q \in RtpsOf(c) : sched_id'[q] \in Slots /\ ~pause'[q]
    BY <1>1, <1>3, <1>4
  <2>3. QED
    BY <1>2, <1>3, <1>5, <1>6, <1>8, <2>1, <2>2 DEF OneStreamEach
<1>10. SlotsAreNamed'
  BY <1>1, <1>2, <1>6 DEF SlotsAreNamed
<1>11. FreshNotStarted'
  <2>1. r <= allocated /\ r \in Int /\ allocated \in Int
    BY <1>3 DEF HandleInv, Rtps
  <2>2. \A q \in Rtps : q > allocated => q # r
    BY <2>1
  <2>3. QED
    BY <1>1, <1>2, <1>4, <2>2 DEF FreshNotStarted
<1>12. QED
  BY <1>9, <1>10, <1>11

LEMMA OptionsStreamInv ==
  ASSUME StreamInv, HandleInv, RestInv, NEW c \in Clients, Options(c)
  PROVE  StreamInv'
<1>1. /\ cur_state[c] = "READY"
      /\ cur_state' = [cur_state EXCEPT ![c] = "INIT"]
      /\ UNCHANGED <<rtp_session, allocated, pause, started, sched_id, sched, polite>>
  BY DEF Options, rtpVars, tableVars
<1>2. cur_state'[c] = "INIT" /\ \A d \in Clients \ {c} : cur_state'[d] = cur_state[d]
  BY <1>1 DEF RestInv, SessTypes
<1>3. \A d \in Clients : RtpsOf(d)' = RtpsOf(d)
  BY <1>1 DEF RtpsOf
<1>4. OneStreamEach => OneStreamEach'
  BY <1>1, <1>2, <1>3 DEF OneStreamEach, Seated
<1>5. SlotsAreNamed => SlotsAreNamed'
  BY <1>1, <1>3 DEF SlotsAreNamed
<1>6. FreshNotStarted => FreshNotStarted'
  BY <1>1 DEF FreshNotStarted
<1>7. QED
  BY <1>1, <1>4, <1>5, <1>6 DEF StreamInv

\* What a release does to the lists and the slots.
LEMMA Released ==
  ASSUME HandleInv, RestInv, NEW c \in Clients, ReleaseSession(c)
  PROVE  /\ RtpsOf(c)' = {} /\ cur_state'[c] = "INIT"
         /\ \A d \in Clients \ {c} : RtpsOf(d)' = RtpsOf(d) /\ cur_state'[d] = cur_state[d]
         /\ \A i \in Slots : /\ sched'[i].rtp_session = sched[i].rtp_session
                             /\ sched'[i].valid <=> sched[i].valid /\ i \notin SlotsNamedBy(c)
         /\ UNCHANGED <<allocated, pause, started, sched_id>>
<1>1. /\ rtp_session' = [rtp_session EXCEPT ![c] = <<>>]
      /\ cur_state' = [cur_state EXCEPT ![c] = "INIT"]
      /\ sched' = [i \in Slots |-> IF i \in SlotsNamedBy(c)
                                   THEN [sched[i] EXCEPT !.valid = FALSE] ELSE sched[i]]
      /\ UNCHANGED <<allocated, pause, started, sched_id>>
  BY DEF ReleaseSession, ReleasedRtps, SlotsNamedBy
<1>2. rtp_session'[c] = <<>> /\ \A d \in Clients \ {c} : rtp_session'[d] = rtp_session[d]
  BY <1>1 DEF HandleInv
<1>3. RtpsOf(c)' = {} /\ \A d \in Clients \ {c} : RtpsOf(d)' = RtpsOf(d)
  BY <1>2, EmptySeq, LenProperties DEF RtpsOf
<1>4. cur_state'[c] = "INIT" /\ \A d \in Clients \ {c} : cur_state'[d] = cur_state[d]
  BY <1>1 DEF RestInv, SessTypes
<1>5. ASSUME NEW i \in Slots
      PROVE  /\ sched'[i].rtp_session = sched[i].rtp_session
             /\ sched'[i].valid <=> sched[i].valid /\ i \notin SlotsNamedBy(c)
  <2>1. sched[i] \in [valid : BOOLEAN, rtp_session : Rtps \cup {0}]
    BY DEF RestInv, RtpTypes
  <2>2. CASE i \in SlotsNamedBy(c)
    <3>1. sched'[i] = [sched[i] EXCEPT !.valid = FALSE]
      BY <1>1, <2>2
    <3>2. QED
      BY <2>1, <2>2, <3>1
  <2>3. CASE i \notin SlotsNamedBy(c)
    <3>1. sched'[i] = sched[i]
      BY <1>1, <2>3
    <3>2. QED
      BY <2>3, <3>1
  <2>4. QED
    BY <2>2, <2>3
<1>6. QED
  BY <1>1, <1>3, <1>4, <1>5

\* The slots that a release frees were those of no other connection.
LEMMA ReleaseStreamInv ==
  ASSUME StreamInv, HandleInv, RestInv, NEW c \in Clients, ReleaseSession(c), UNCHANGED polite
  PROVE  StreamInv'
<1> SUFFICES ASSUME OneStreamEach, SlotsAreNamed, FreshNotStarted
             PROVE  (OneStreamEach /\ SlotsAreNamed /\ FreshNotStarted)'
  BY DEF StreamInv
<1>1. ASSUME NEW d \in Clients \ {c}, NEW q \in RtpsOf(d), sched_id[q] \in Slots
      PROVE  sched_id[q] \notin SlotsNamedBy(c)
  <2> SUFFICES ASSUME NEW r \in RtpsOf(c), sched_id[q] = sched_id[r] PROVE FALSE
    BY DEF SlotsNamedBy
  <2>1. Seated(q) /\ Seated(r)
    BY DEF OneStreamEach
  <2>2. q = r
    BY <1>1, <2>1 DEF Seated
  <2>3. QED
    BY <2>2 DEF HandleInv
<1>2. OneStreamEach'
  <2>1. ASSUME NEW d \in Clients \ {c}, NEW q \in RtpsOf(d)
        PROVE  /\ Seated(q)'
               /\ IF cur_state'[d] = "PLAY" THEN sched_id'[q] \in Slots /\ ~pause'[q]
                  ELSE pause'[q] /\ ~started'[q]
    <3>1. /\ Seated(q)
          /\ IF cur_state[d] = "PLAY" THEN sched_id[q] \in Slots /\ ~pause[q]
             ELSE pause[q] /\ ~started[q]
      BY DEF OneStreamEach
    <3>2. Seated(q)'
      BY <1>1, <3>1, Released DEF Seated
    <3>3. QED
      BY <3>1, <3>2, Released
  <2>2. QED
    BY <2>1, Released DEF OneStreamEach
<1>3. SlotsAreNamed'
  <2>1. ASSUME NEW j \in Slots, sched'[j].valid
        PROVE  \E d \in Clients : /\ sched'[j].rtp_session \in RtpsOf(d)'
                                  /\ sched_id'[sched'[j].rtp_session] = j
    <3>1. sched[j].valid /\ j \notin SlotsNamedBy(c) /\ sched'[j].rtp_session = sched[j].rtp_session
      BY <2>1, Released
    <3>2. PICK d \in Clients : /\ sched[j].rtp_session \in RtpsOf(d)
                               /\ sched_id[sched[j].rtp_session] = j
      BY <3>1 DEF SlotsAreNamed
    <3>3. d # c
      BY <3>1, <3>2 DEF SlotsNamedBy
    <3>4. QED
      BY <3>1, <3>2, <3>3, Released
  <2>2. QED
    BY <2>1 DEF SlotsAreNamed
<1>4. FreshNotStarted'
  BY Released DEF FreshNotStarted
<1>5. QED
  BY <1>2, <1>3, <1>4

LEMMA NextStreamInv == StreamInv /\ HandleInv /\ RestInv /\ [Next]_vars => StreamInv'
<1> SUFFICES ASSUME StreamInv, HandleInv, RestInv, [Next]_vars PROVE StreamInv'
  OBVIOUS
<1>1. CASE UNCHANGED vars
  BY <1>1, PlainStreamInv DEF vars, tableVars
<1>2. ASSUME NEW c \in Clients, Accept(c)
      PROVE  StreamInv'
  BY <1>2, AcceptStreamInv
<1>3. ASSUME NEW c \in Clients,
             \/ AcceptIgnored(c) \/ AcceptNoMemory(c) \/ AcceptFaults(c) \/ ReleaseFaults(c)
             \/ \E id \in RequestIds : PlayFaults(c, id)
      PROVE  StreamInv'
  <2>1. UNCHANGED <<sessVars, rtpVars, sched, polite>>
    BY <1>3 DEF AcceptIgnored, AcceptNoMemory, AcceptFaults, ReleaseFaults, PlayFaults, tableVars
  <2>2. QED
    BY <2>1, PlainStreamInv
<1>4. ASSUME NEW c \in Clients,
             \/ SetupNoTransport(c) \/ SetupUnsupported(c) \/ SetupNoPort(c)
             \/ \E id \in SessionIds : SetupMulticast(c, id)
             \/ \E id \in RequestIds : PlayRefused(c, id)
      PROVE  StreamInv'
  BY <1>4 DEF SetupNoTransport, SetupUnsupported, SetupNoPort, SetupMulticast, PlayRefused, StreamInv
<1>5. ASSUME NEW c \in Clients, NEW id \in SessionIds, SetupUnicast(c, id)
      PROVE  StreamInv'
  BY <1>5, SetupStreamInv
<1>6. ASSUME NEW c \in Clients, NEW id \in RequestIds, Play(c, id)
      PROVE  StreamInv'
  BY <1>6, PlayStreamInv
<1>7. ASSUME NEW c \in Clients, Options(c)
      PROVE  StreamInv'
  BY <1>7, OptionsStreamInv
<1>8. ASSUME NEW c \in Clients, NEW id \in RequestIds, Teardown(c, id)
      PROVE  StreamInv'
  BY <1>8, ReleaseStreamInv DEF Teardown
<1>9. ASSUME NEW c \in Clients, Disconnect(c)
      PROVE  StreamInv'
  <2>1. UNCHANGED polite
    BY <1>9 DEF Disconnect
  <2>2. CASE ReleaseSession(c)
    BY <2>1, <2>2, ReleaseStreamInv
  <2>3. CASE UNCHANGED <<sessVars, rtpVars, sched>>
    BY <2>1, <2>3, PlainStreamInv
  <2>4. QED
    BY <1>9, <2>2, <2>3 DEF Disconnect
<1>10. QED
  BY <1>1, <1>2, <1>3, <1>4, <1>5, <1>6, <1>7, <1>8, <1>9 DEF Next

LEMMA SpecInvariants == Spec => [](HandleInv /\ RestInv /\ StreamInv)
BY InitCountInv, NextCountInv, InitHandleInv, NextHandleInv, InitRestInv, NextRestInv,
   InitStreamInv, NextStreamInv, PTL DEF Spec

\* No slot outlives its connection while clients are polite: the RTP session
\* in a slot in use belongs to a served connection, which names this slot and
\* no other, and the handle that schedule_do sends on was not deleted.
THEOREM SlotsAreOwned == Spec => []SlotHasOwner
<1>1. HandleInv /\ RestInv /\ StreamInv => SlotHasOwner
  <2> SUFFICES ASSUME HandleInv, StreamInv, polite, NEW i \in Slots, sched[i].valid
               PROVE  /\ \E c \in Owners(i) : SlotsNamedBy(c) = {i}
                      /\ hndRtp[sched[i].rtp_session] # "freed"
    BY DEF SlotHasOwner
  <2>1. OneStreamEach /\ SlotsAreNamed
    BY DEF StreamInv
  <2>2. PICK c \in Clients : /\ sched[i].rtp_session \in RtpsOf(c)
                             /\ sched_id[sched[i].rtp_session] = i
    BY <2>1 DEF SlotsAreNamed
  <2>3. c \in Owners(i) /\ hndRtp[sched[i].rtp_session] # "freed"
    BY <2>2 DEF HandleInv, Owners
  <2>4. SlotsNamedBy(c) = {i}
    BY <2>1, <2>2 DEF OneStreamEach, SlotsNamedBy
  <2>5. QED
    BY <2>3, <2>4
<1>2. QED
  BY <1>1, SpecInvariants, PTL

\* While clients are polite a stream is sent exactly to those in PLAY that got
\* a handle, whatever the others do.
THEOREM StreamsArePlays == Spec => []StreamsFollowPlay
<1>1. CountInv => Conns \subseteq Clients
  BY LenProperties, ElementOfSeq DEF CountInv, ListOfClients, Conns
<1>2. CountInv /\ HandleInv /\ RestInv /\ StreamInv => StreamsFollowPlay
  <2> SUFFICES ASSUME CountInv, HandleInv, StreamInv, polite, NEW c \in Conns
               PROVE  (\E i \in Slots : Streaming(i) /\ c \in Owners(i))
                         <=> cur_state[c] = "PLAY" /\ HasHandle(c)
    BY DEF StreamsFollowPlay
  <2>1. OneStreamEach /\ c \in Clients
    BY <1>1 DEF StreamInv
  <2>2. ASSUME cur_state[c] = "PLAY", HasHandle(c)
        PROVE  \E i \in Slots : Streaming(i) /\ c \in Owners(i)
    <3>1. PICK r \in RtpsOf(c) : hndRtp[r] = "open"
      BY <2>2 DEF HasHandle
    <3>2. sched_id[r] \in Slots /\ ~pause[r] /\ Seated(r)
      BY <2>1, <2>2 DEF OneStreamEach
    <3>3. QED
      BY <3>1, <3>2 DEF Seated, Started, Streaming, Owners
  \* The handle of the session in the slot is neither null nor freed.
  <2>3. ASSUME NEW i \in Slots, Streaming(i), c \in Owners(i)
        PROVE  cur_state[c] = "PLAY" /\ HasHandle(c)
    <3> DEFINE r == sched[i].rtp_session
    <3>1. r \in RtpsOf(c) /\ ~pause[r] /\ hndRtp[r] # "null"
      BY <2>3 DEF Streaming, Started, Owners
    <3>2. cur_state[c] = "PLAY"
      BY <2>1, <3>1 DEF OneStreamEach
    <3>3. r \in Rtps /\ hndRtp[r] # "freed"
      BY <2>1, <3>1, RtpsOfType DEF HandleInv
    <3>4. hndRtp[r] = "open"
      BY <3>1, <3>3 DEF HandleInv
    <3>5. QED
      BY <3>1, <3>2, <3>4 DEF HasHandle
  <2>4. QED
    BY <2>2, <2>3
<1>3. QED
  BY <1>2, SpecInvariants, InitCountInv, NextCountInv, PTL DEF Spec

-----------------------------------------------------------------------------
(* The play counter *)

Streams == {i \in Slots : Started(i)}

PlayInv == polite => g_s32DoPlay <= Cardinality(Streams)

LEMMA StreamsFinite == IsFiniteSet(Streams) /\ Cardinality(Streams) \in Nat
<1>1. IsFiniteSet(Slots)
  BY FS_Interval, RtspAssumption DEF Slots
<1>2. IsFiniteSet(Streams)
  BY <1>1, FS_Subset DEF Streams
<1>3. QED
  BY <1>2, FS_CardinalityType

LEMMA PlainPlayInv ==
  ASSUME PlayInv, Streams' = Streams, UNCHANGED <<g_s32DoPlay, polite>>
  PROVE  PlayInv'
BY DEF PlayInv

\* The slot of a new stream is paused.
LEMMA SetupPlayInv ==
  ASSUME PlayInv, StreamInv, HandleInv, RestInv, NEW c \in Clients, NEW id \in SessionIds,
         SetupUnicast(c, id)
  PROVE  PlayInv'
<1> SUFFICES ASSUME polite' PROVE PlayInv'
  BY DEF PlayInv
<1>1. polite /\ rtp_session[c] = <<>> /\ UNCHANGED g_s32DoPlay
  BY DEF SetupUnicast
<1>2. PICK r \in Rtps : AddRtpSession(c, r) /\ schedule_add(c, r)
  BY DEF SetupUnicast
<1>3. PICK i \in Slots \cup {-1} :
        /\ i = -1 => sched' = sched
        /\ i # -1 => /\ ~sched[i].valid
                     /\ sched' = [sched EXCEPT ![i] = [valid |-> TRUE, rtp_session |-> r]]
  BY <1>1, <1>2, ScheduleAdd DEF HandleInv
<1>4. r = allocated + 1 /\ pause' = [pause EXCEPT ![r] = TRUE]
  BY <1>2 DEF AddRtpSession
<1>5. pause'[r] /\ \A q \in Rtps \ {r} : pause'[q] = pause[q]
  BY <1>4 DEF RestInv, FlagTypes
<1>6. ASSUME NEW j \in Slots
      PROVE  Started(j)' <=> Started(j)
  <2>1. CASE j = i
    <3>1. i # -1
      BY <2>1, RtspAssumption DEF Slots
    <3>2. ~sched[j].valid
      BY <1>3, <2>1, <3>1
    <3>3. sched'[j].rtp_session = r
      BY <1>3, <2>1, <3>1 DEF RestInv, RtpTypes
    <3>4. QED
      BY <1>5, <3>2, <3>3 DEF Started
  <2>2. CASE j # i
    <3>1. sched'[j] = sched[j]
      BY <1>3, <2>2 DEF RestInv, RtpTypes
    <3>2. CASE ~sched[j].valid
      BY <3>1, <3>2 DEF Started
    <3>3. CASE sched[j].valid
      <4>1. PICK d \in Clients : sched[j].rtp_session \in RtpsOf(d)
        BY <1>1, <3>3 DEF StreamInv, SlotsAreNamed
      <4>2. sched[j].rtp_session \in Rtps \ {r}
        BY <1>4, <4>1, RtpsOfType DEF HandleInv
      <4>3. QED
        BY <1>5, <3>1, <4>2 DEF Started
    <3>4. QED
      BY <3>2, <3>3
  <2>3. QED
    BY <2>1, <2>2
<1>7. Streams' = Streams
  BY <1>6 DEF Streams, Slots
<1>8. QED
  BY <1>1, <1>7 DEF PlayInv

\* PLAY counts one stream and starts one more.
LEMMA PlayPlayInv ==
  ASSUME PlayInv, StreamInv, HandleInv, RestInv, NEW c \in Clients, NEW id \in RequestIds,
         Play(c, id)
  PROVE  PlayInv'
<1> SUFFICES ASSUME polite' PROVE PlayInv'
  BY DEF PlayInv
<1>1. polite /\ UNCHANGED sched
  BY DEF Play
<1>2. PICK r \in Rtps : /\ RtpsOf(c) = {r}
                        /\ sched_id[r] \in Slots /\ pause[r]
                        /\ pause' = [pause EXCEPT ![r] = FALSE]
                        /\ g_s32DoPlay' = g_s32DoPlay + 1
  BY <1>1, PolitePlay
<1> DEFINE i == sched_id[r]
<1>3. sched[i].valid /\ sched[i].rtp_session = r
  BY <1>1, <1>2 DEF StreamInv, OneStreamEach, Seated
<1>4. ~pause'[r] /\ \A q \in Rtps \ {r} : pause'[q] = pause[q]
  BY <1>2 DEF RestInv, FlagTypes
<1>5. i \notin Streams
  BY <1>2, <1>3 DEF Streams, Started
<1>6. ASSUME NEW j \in Slots
      PROVE  Started(j)' <=> Started(j) \/ j = i
  <2>1. CASE j = i
    BY <1>1, <1>3, <1>4, <2>1 DEF Started
  <2>2. CASE j # i /\ sched[j].valid
    <3>1. PICK d \in Clients : /\ sched[j].rtp_session \in RtpsOf(d)
                               /\ sched_id[sched[j].rtp_session] = j
      BY <1>1, <2>2 DEF StreamInv, SlotsAreNamed
    <3>2. sched[j].rtp_session \in Rtps \ {r}
      BY <2>2, <3>1, RtpsOfType
    <3>3. QED
      BY <1>1, <1>4, <2>2, <3>2 DEF Started
  <2>3. CASE j # i /\ ~sched[j].valid
    BY <1>1, <2>3 DEF Started
  <2>4. QED
    BY <2>1, <2>2, <2>3
<1>7. Streams' = Streams \cup {i}
  BY <1>2, <1>6 DEF Streams, Slots
<1>8. Cardinality(Streams \cup {i}) = Cardinality(Streams) + 1
  BY <1>5, StreamsFinite, FS_AddElement
<1>9. g_s32DoPlay <= Cardinality(Streams)
  BY <1>1 DEF PlayInv
<1>10. g_s32DoPlay' <= Cardinality(Streams) + 1
  BY <1>2, <1>9, StreamsFinite DEF RestInv, PoolTypes
<1>11. QED
  BY <1>7, <1>8, <1>10 DEF PlayInv

\* A release stops at most one stream, and counts at least one down for it.
LEMMA ReleasePlayInv ==
  ASSUME PlayInv, StreamInv, HandleInv, RestInv, NEW c \in Clients, ReleaseSession(c),
         NEW k \in Nat, RtpsOf(c) # {} => k >= 1, CountDown(k), UNCHANGED polite
  PROVE  PlayInv'
<1> SUFFICES ASSUME polite PROVE g_s32DoPlay' <= Cardinality(Streams')
  BY DEF PlayInv
<1>1. g_s32DoPlay' = g_s32DoPlay - k /\ g_s32DoPlay \in Int
  BY DEF CountDown, RestInv, PoolTypes
<1>2. ASSUME NEW j \in Slots
      PROVE  Started(j)' <=> Started(j) /\ j \notin SlotsNamedBy(c)
  BY Released DEF Started
<1>3. Streams' = Streams \ SlotsNamedBy(c)
  BY <1>2 DEF Streams, Slots
<1>4. g_s32DoPlay <= Cardinality(Streams)
  BY DEF PlayInv
<1>5. CASE RtpsOf(c) = {}
  <2>1. Streams' = Streams
    BY <1>3, <1>5 DEF SlotsNamedBy
  <2>2. QED
    BY <1>1, <1>4, <2>1, StreamsFinite
<1>6. CASE RtpsOf(c) # {}
  <2>1. PICK r \in RtpsOf(c) : RtpsOf(c) = {r}
    BY <1>6 DEF StreamInv, OneStreamEach
  <2>2. Streams' = Streams \ {sched_id[r]}
    BY <1>3, <2>1 DEF SlotsNamedBy
  <2>3. Cardinality(Streams \ {sched_id[r]}) >= Cardinality(Streams) - 1
    BY StreamsFinite, FS_RemoveElement
  <2>4. Cardinality(Streams \ {sched_id[r]}) \in Nat
    BY StreamsFinite, FS_RemoveElement, FS_CardinalityType
  <2>5. g_s32DoPlay' <= Cardinality(Streams) - 1
    BY <1>1, <1>4, <1>6, StreamsFinite
  <2>6. QED
    BY <1>1, <2>2, <2>3, <2>4, <2>5, StreamsFinite
<1>7. QED
  BY <1>5, <1>6

LEMMA NextPlayInv == PlayInv /\ StreamInv /\ HandleInv /\ RestInv /\ [Next]_vars => PlayInv'
<1> SUFFICES ASSUME PlayInv, StreamInv, HandleInv, RestInv, [Next]_vars PROVE PlayInv'
  OBVIOUS
<1>1. ASSUME UNCHANGED <<sched, pause, g_s32DoPlay, polite>>
      PROVE  PlayInv'
  <2>1. Streams' = Streams
    BY <1>1 DEF Streams, Started
  <2>2. QED
    BY <1>1, <2>1, PlainPlayInv
<1>2. CASE UNCHANGED vars
  BY <1>1, <1>2 DEF vars, rtpVars, tableVars
<1>3. ASSUME NEW c \in Clients,
             \/ Accept(c) \/ AcceptIgnored(c) \/ AcceptNoMemory(c) \/ AcceptFaults(c)
             \/ ReleaseFaults(c) \/ Options(c)
             \/ \E id \in RequestIds : PlayFaults(c, id)
      PROVE  PlayInv'
  <2>1. UNCHANGED <<sched, pause, g_s32DoPlay, polite>>
    BY <1>3 DEF Accept, AcceptIgnored, AcceptNoMemory, AcceptFaults, ReleaseFaults, Options,
                PlayFaults, rtpVars, tableVars
  <2>2. QED
    BY <1>1, <2>1
<1>4. ASSUME NEW c \in Clients,
             \/ SetupNoTransport(c) \/ SetupUnsupported(c) \/ SetupNoPort(c)
             \/ \E id \in SessionIds : SetupMulticast(c, id)
             \/ \E id \in RequestIds : PlayRefused(c, id)
      PROVE  PlayInv'
  BY <1>4 DEF SetupNoTransport, SetupUnsupported, SetupNoPort, SetupMulticast, PlayRefused, PlayInv
<1>5. ASSUME NEW c \in Clients, NEW id \in SessionIds, SetupUnicast(c, id)
      PROVE  PlayInv'
  BY <1>5, SetupPlayInv
<1>6. ASSUME NEW c \in Clients, NEW id \in RequestIds, Play(c, id)
      PROVE  PlayInv'
  BY <1>6, PlayPlayInv
<1>7. ASSUME NEW c \in Clients, NEW id \in RequestIds, Teardown(c, id)
      PROVE  PlayInv'
  <2>1. Len(rtp_session[c]) \in Nat /\ (RtpsOf(c) # {} => Len(rtp_session[c]) >= 1)
    BY LenProperties DEF HandleInv, RtpsOf
  <2>2. QED
    BY <1>7, <2>1, ReleasePlayInv DEF Teardown
<1>8. ASSUME NEW c \in Clients, Disconnect(c)
      PROVE  PlayInv'
  <2>1. UNCHANGED polite
    BY <1>8 DEF Disconnect
  <2>2. CASE ReleaseSession(c) /\ CountDown(1)
    BY <2>1, <2>2, ReleasePlayInv
  <2>3. CASE UNCHANGED <<rtpVars, sched, g_s32DoPlay>>
    BY <1>1, <2>1, <2>3 DEF rtpVars
  <2>4. QED
    BY <1>8, <2>2, <2>3 DEF Disconnect
<1>9. QED
  BY <1>2, <1>3, <1>4, <1>5, <1>6, <1>7, <1>8 DEF Next

\* While clients are polite the play counter is at most the number of streams
\* that PLAY has started and that have not ended, with a handle or without,
\* for every number of them.
THEOREM PlaysNotOvercounted == Spec => []DoPlayNeverOvercounts
<1>1. PlayInv => DoPlayNeverOvercounts
  BY DEF PlayInv, DoPlayNeverOvercounts, Streams
<1>2. Init => PlayInv
  BY StreamsFinite DEF Init, PlayInv
<1>3. QED
  BY <1>1, <1>2, SpecInvariants, NextPlayInv, PTL DEF Spec

-----------------------------------------------------------------------------
(* The table of streams *)

LEMMA HoldsType ==
  ASSUME RestInv, NEW i \in Slots
  PROVE  /\ Holds[i] \in Rtps \cup {0}
         /\ Holds[i] # 0 => sched[i].valid /\ Holds[i] = sched[i].rtp_session
  BY DEF RestInv, RtpTypes, Holds

\* A stream that a slot holds names that slot, and a connection has it.
LEMMA HeldIsNamed ==
  ASSUME polite, StreamInv, HandleInv, RestInv, NEW i \in Slots, Holds[i] # 0
  PROVE  /\ sched_id[Holds[i]] = i
         /\ \E c \in Clients : Holds[i] \in RtpsOf(c)
  BY HoldsType DEF StreamInv, SlotsAreNamed

LEMMA InitTable == Init => Table!Init
<1> SUFFICES ASSUME Init PROVE Table!Init
  OBVIOUS
<1>1. Holds = [i \in Slots |-> 0]
  BY DEF Init, Holds
<1>2. \A r \in Rtps : r # 0
  BY RtspAssumption DEF Rtps
<1>3. Playing = {}
  BY <1>1, <1>2 DEF Playing
<1>4. QED
  BY <1>1, <1>3 DEF Table!Init

LEMMA PlainKeepsTable ==
  ASSUME UNCHANGED <<sched, pause>>
  PROVE  UNCHANGED <<Holds, Playing>>
  BY DEF Holds, Playing

\* A polite SETUP adds its stream to a slot that was free, or finds none.
LEMMA SetupIsAdd ==
  ASSUME polite', StreamInv, HandleInv, RestInv, NEW c \in Clients, NEW id \in SessionIds,
         SetupUnicast(c, id)
  PROVE  IF FreeSlots = {} THEN UNCHANGED <<Holds, Playing>>
         ELSE \E r \in RtpsOf(c)' : Table!Add(r)
<1>1. polite /\ rtp_session[c] = <<>>
  BY DEF SetupUnicast
<1>2. PICK r \in Rtps : AddRtpSession(c, r) /\ schedule_add(c, r)
  BY DEF SetupUnicast
<1>3. PICK i \in Slots \cup {-1} :
        /\ i = -1 => sched' = sched /\ FreeSlots = {}
        /\ i # -1 => /\ ~sched[i].valid
                     /\ sched' = [sched EXCEPT ![i] = [valid |-> TRUE, rtp_session |-> r]]
  BY <1>1, <1>2, ScheduleAdd DEF HandleInv
<1>4. r = allocated + 1 /\ pause' = [pause EXCEPT ![r] = TRUE]
  BY <1>2 DEF AddRtpSession
<1>5. pause'[r] /\ \A q \in Rtps \ {r} : pause'[q] = pause[q]
  BY <1>4 DEF RestInv, FlagTypes
<1>6. r # 0 /\ \A j \in Slots : Holds[j] # r
  <2>1. r # 0
    BY RtspAssumption DEF Rtps
  <2>2. \A d \in Clients : r \notin RtpsOf(d)
    BY <1>4 DEF HandleInv
  <2>3. QED
    BY <1>1, <2>1, <2>2, HeldIsNamed
<1>7. \A j \in Slots : Holds'[j] = IF j = i THEN r ELSE Holds[j]
  <2>1. ASSUME NEW j \in Slots, j = i PROVE Holds'[j] = r
    <3>1. i # -1
      BY <2>1, RtspAssumption DEF Slots
    <3>2. sched'[j] = [valid |-> TRUE, rtp_session |-> r]
      BY <1>3, <2>1, <3>1 DEF RestInv, RtpTypes
    <3>3. QED
      BY <3>2 DEF Holds
  <2>2. ASSUME NEW j \in Slots, j # i PROVE Holds'[j] = Holds[j]
    <3>1. sched'[j] = sched[j]
      BY <1>3, <2>2 DEF RestInv, RtpTypes
    <3>2. QED
      BY <3>1 DEF Holds
  <2>3. QED
    BY <2>1, <2>2
<1>8. Playing' = Playing
  <2>1. ASSUME NEW q \in Rtps PROVE q \in Playing' <=> q \in Playing
    <3>1. CASE q = r
      BY <1>5, <1>6, <3>1 DEF Playing
    <3>2. CASE q # r
      <4>1. i \in Slots => Holds[i] = 0
        <5>1. i \in Slots => i # -1
          BY RtspAssumption DEF Slots
        <5>2. QED
          BY <1>3, <5>1 DEF Holds
      <4>2. q # 0
        BY RtspAssumption DEF Rtps
      <4>3. (\E j \in Slots : Holds'[j] = q) <=> (\E j \in Slots : Holds[j] = q)
        BY <1>7, <3>2, <4>1, <4>2
      <4>4. QED
        BY <1>5, <3>2, <4>3 DEF Playing
    <3>3. QED
      BY <3>1, <3>2
  <2>2. QED
    BY <2>1 DEF Playing
<1>9. CASE i = -1
  <2>1. FreeSlots = {}
    BY <1>3, <1>9
  <2>2. QED
    BY <1>3, <1>8, <1>9, <2>1 DEF Holds
<1>10. CASE i # -1
  <2>1. i \in Slots /\ Holds[i] = 0
    BY <1>3, <1>10 DEF Holds
  <2>2. Holds' = [Holds EXCEPT ![i] = r]
    BY <1>7, <2>1 DEF Holds
  <2>3. Table!Add(r)
    BY <1>6, <1>8, <2>1, <2>2 DEF Table!Add, Table!InTable
  <2>4. FreeSlots # {}
    BY <1>3, <1>10 DEF FreeSlots
  <2>5. r \in RtpsOf(c)'
    BY <1>2, AddedRtps
  <2>6. QED
    BY <2>3, <2>4, <2>5
<1>11. QED
  BY <1>9, <1>10

\* A polite PLAY starts the stream of its own connection.
LEMMA PlayIsStart ==
  ASSUME polite', StreamInv, HandleInv, RestInv, NEW c \in Clients, NEW id \in RequestIds,
         Play(c, id)
  PROVE  \E r \in RtpsOf(c) : Table!Start(r)
<1>1. polite /\ UNCHANGED sched
  BY DEF Play
<1>2. PICK r \in Rtps : /\ RtpsOf(c) = {r}
                        /\ sched_id[r] \in Slots
                        /\ pause' = [pause EXCEPT ![r] = FALSE]
  BY <1>1, PolitePlay
<1>3. Holds[sched_id[r]] = r
  BY <1>1, <1>2 DEF StreamInv, OneStreamEach, Seated, Holds
<1>4. ~pause'[r] /\ \A q \in Rtps \ {r} : pause'[q] = pause[q]
  BY <1>2 DEF RestInv, FlagTypes
<1>5. Holds' = Holds
  BY <1>1 DEF Holds
<1>6. Playing' = Playing \cup {r}
  BY <1>2, <1>3, <1>4, <1>5 DEF Playing
<1>7. Table!Start(r)
  BY <1>2, <1>3, <1>5, <1>6 DEF Table!Start, Table!InTable
<1>8. QED
  BY <1>2, <1>7

\* The end of a polite session removes its stream, when it has one.
LEMMA ReleaseIsRemove ==
  ASSUME polite, StreamInv, HandleInv, RestInv, NEW c \in Clients, ReleaseSession(c)
  PROVE  IF RtpsOf(c) = {} THEN UNCHANGED <<Holds, Playing>>
         ELSE \E r \in RtpsOf(c) : Table!Remove(r)
<1>1. \A j \in Slots : Holds'[j] = IF j \in SlotsNamedBy(c) THEN 0 ELSE Holds[j]
  BY Released DEF Holds
<1>2. UNCHANGED pause
  BY Released
<1>3. CASE RtpsOf(c) = {}
  <2>1. SlotsNamedBy(c) = {}
    BY <1>3 DEF SlotsNamedBy
  <2>2. Holds' = Holds
    BY <1>1, <2>1 DEF Holds
  <2>3. QED
    BY <1>2, <1>3, <2>2 DEF Playing
<1>4. CASE RtpsOf(c) # {}
  <2>1. PICK r \in RtpsOf(c) : RtpsOf(c) = {r}
    BY <1>4 DEF StreamInv, OneStreamEach
  <2>2. r \in Rtps /\ r # 0
    BY <2>1, RtpsOfType, RtspAssumption DEF Rtps
  <2>3. SlotsNamedBy(c) = {sched_id[r]}
    BY <2>1 DEF SlotsNamedBy
  <2>4. sched_id[r] \in Slots
    BY <2>3 DEF ReleaseSession, ReleasedRtps, SlotsNamedBy
  <2>5. Holds[sched_id[r]] = r
    BY <2>4 DEF StreamInv, OneStreamEach, Seated, Holds
  <2>6. \A j \in Slots : Holds[j] = r => j = sched_id[r]
    BY <2>2, HeldIsNamed
  <2>7. \A j \in Slots : Holds'[j] = IF Holds[j] = r THEN 0 ELSE Holds[j]
    BY <1>1, <2>3, <2>5, <2>6
  <2>8. Holds' = [j \in Slots |-> IF Holds[j] = r THEN 0 ELSE Holds[j]]
    BY <2>7 DEF Holds
  <2>9. Playing' = Playing \ {r}
    <3>1. \A q \in Rtps : (\E j \in Slots : Holds'[j] = q)
                             <=> q # r /\ (\E j \in Slots : Holds[j] = q)
      <4>1. \A q \in Rtps : q # 0
        BY RtspAssumption DEF Rtps
      <4>2. QED
        BY <2>2, <2>7, <4>1
    <3>2. QED
      BY <1>2, <3>1 DEF Playing
  <2>10. Table!Remove(r)
    BY <2>4, <2>5, <2>8, <2>9 DEF Table!Remove, Table!InTable
  <2>11. QED
    BY <1>4, <2>1, <2>10
<1>5. QED
  BY <1>3, <1>4

\* A step that is the end of c is the end of its session, or finds none.
LEMMA EndIsRemove ==
  ASSUME polite', StreamInv, HandleInv, RestInv, NEW c \in Clients, Ends(c)
  PROVE  IF RtpsOf(c) = {} THEN UNCHANGED <<Holds, Playing>>
         ELSE \E r \in RtpsOf(c) : Table!Remove(r)
<1>1. CASE \E id \in RequestIds : Teardown(c, id)
  BY <1>1, ReleaseIsRemove DEF Teardown
<1>2. CASE Disconnect(c)
  <2>1. polite
    BY <1>2 DEF Disconnect
  <2>2. CASE ReleaseSession(c)
    BY <2>1, <2>2, ReleaseIsRemove
  <2>3. CASE ~session_list[c] /\ UNCHANGED <<rtpVars, sched>>
    <3>1. RtpsOf(c) = {}
      BY <2>3 DEF HandleInv
    <3>2. QED
      BY <2>3, <3>1, PlainKeepsTable DEF rtpVars
  <2>4. QED
    BY <1>2, <2>2, <2>3 DEF Disconnect
<1>3. QED
  BY <1>1, <1>2 DEF Ends

\* The steps that are no request for the table, and the polite ones.
LEMMA RestKeepsTable ==
  ASSUME polite', [Next]_vars, \A c \in Clients : ~(SetsUp(c) \/ Plays(c) \/ Ends(c))
  PROVE  UNCHANGED <<Holds, Playing>>
<1>1. CASE UNCHANGED vars
  BY <1>1, PlainKeepsTable DEF vars, rtpVars, tableVars
<1>2. ASSUME NEW c \in Clients,
             \/ Accept(c) \/ AcceptIgnored(c) \/ AcceptNoMemory(c) \/ AcceptFaults(c)
             \/ ReleaseFaults(c) \/ Options(c)
             \/ \E id \in RequestIds : PlayFaults(c, id)
      PROVE  UNCHANGED <<Holds, Playing>>
  <2>1. UNCHANGED <<sched, pause>>
    BY <1>2 DEF Accept, AcceptIgnored, AcceptNoMemory, AcceptFaults, ReleaseFaults, Options,
                PlayFaults, rtpVars, tableVars
  <2>2. QED
    BY <2>1, PlainKeepsTable
<1>3. ASSUME NEW c \in Clients,
             \/ SetupNoTransport(c) \/ SetupUnsupported(c) \/ SetupNoPort(c)
             \/ \E id \in SessionIds : SetupMulticast(c, id)
             \/ \E id \in RequestIds : PlayRefused(c, id)
      PROVE  FALSE
  BY <1>3 DEF SetupNoTransport, SetupUnsupported, SetupNoPort, SetupMulticast, PlayRefused
<1>4. QED
  BY <1>1, <1>2, <1>3 DEF Next, SetsUp, Plays, Ends

\* What PoliteUsesTable says of a step.
OwnTableStep ==
    polite' =>
        /\ \A c \in Clients :
              /\ SetsUp(c) => IF FreeSlots = {} THEN UNCHANGED Table!vars
                              ELSE \E r \in RtpsOf(c)' : Table!Add(r)
              /\ Plays(c) => \E r \in RtpsOf(c) : Table!Start(r)
              /\ Ends(c) => IF RtpsOf(c) = {} THEN UNCHANGED Table!vars
                            ELSE \E r \in RtpsOf(c) : Table!Remove(r)
        /\ (\A c \in Clients : ~(SetsUp(c) \/ Plays(c) \/ Ends(c)))
              => UNCHANGED Table!vars

LEMMA NextTable ==
  StreamInv /\ HandleInv /\ RestInv /\ [Next]_vars => [OwnTableStep]_vars
<1> SUFFICES ASSUME StreamInv, HandleInv, RestInv, [Next]_vars, polite'
             PROVE  OwnTableStep
  BY DEF OwnTableStep
<1>1. (UNCHANGED Table!vars) = UNCHANGED <<Holds, Playing>>
  BY DEF Table!vars
<1>2. ASSUME NEW c \in Clients, SetsUp(c)
      PROVE  IF FreeSlots = {} THEN UNCHANGED Table!vars
             ELSE \E r \in RtpsOf(c)' : Table!Add(r)
  BY <1>1, <1>2, SetupIsAdd DEF SetsUp
<1>3. ASSUME NEW c \in Clients, Plays(c)
      PROVE  \E r \in RtpsOf(c) : Table!Start(r)
  BY <1>3, PlayIsStart DEF Plays
<1>4. ASSUME NEW c \in Clients, Ends(c)
      PROVE  IF RtpsOf(c) = {} THEN UNCHANGED Table!vars
             ELSE \E r \in RtpsOf(c) : Table!Remove(r)
  BY <1>1, <1>4, EndIsRemove
<1>5. ASSUME \A c \in Clients : ~(SetsUp(c) \/ Plays(c) \/ Ends(c))
      PROVE  UNCHANGED Table!vars
  BY <1>1, <1>5, RestKeepsTable
<1>6. QED
  BY <1>2, <1>3, <1>4, <1>5 DEF OwnTableStep

\* While clients are polite, the step that serves a SETUP, a PLAY or the end of
\* a client is the table's step for the stream of that client, and every other
\* step leaves the table alone, for every number of clients, slots and streams.
THEOREM PoliteServerUsesTable == Spec => PoliteUsesTable
<1>1. Spec => Table!Init /\ [][OwnTableStep]_vars
  BY SpecInvariants, InitTable, NextTable, PTL DEF Spec
<1>2. QED
  BY <1>1 DEF PoliteUsesTable, OwnTableStep
=============================================================================
