---------------------------- MODULE StreamTable ----------------------------
(***************************************************************************)
(* What the schedule table of src/rtsp/rtsputils.c promises the requests   *)
(* of the main thread: a table of streams in which SETUP, PLAY and the end *)
(* of a stream are one step each and concern the stream they are for and   *)
(* no other.  The module knows nothing of the order of the stores, of the  *)
(* stale sessions that a freed slot keeps, or of slot numbers that go by   *)
(* way of a connection; SendSchedule implements it, and RtspServer does    *)
(* while its clients are polite.                                           *)
(***************************************************************************)
CONSTANTS Streams,    \* the streams that can be set up
          Slots,      \* the places of the table
          NoStream    \* what a free place holds

VARIABLES holds,      \* the stream in each place
          playing     \* the streams that are to be sent

vars == <<holds, playing>>

InTable(s) == \E k \in Slots : holds[k] = s

Init == /\ holds = [k \in Slots |-> NoStream]
        /\ playing = {}

\* A new stream takes a free place; nothing is sent to it yet.
Add(s) == /\ ~InTable(s)
          /\ \E k \in Slots : /\ holds[k] = NoStream
                              /\ holds' = [holds EXCEPT ![k] = s]
          /\ UNCHANGED playing

Start(s) == /\ InTable(s)
            /\ playing' = playing \cup {s}
            /\ UNCHANGED holds

\* The stream leaves the table and is sent to no longer.
Remove(s) == /\ InTable(s)
             /\ holds' = [k \in Slots |-> IF holds[k] = s THEN NoStream ELSE holds[k]]
             /\ playing' = playing \ {s}

Next == \E s \in Streams : Add(s) \/ Start(s) \/ Remove(s)

Spec == Init /\ [][Next]_vars
=============================================================================
