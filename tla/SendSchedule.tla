---------------------------- MODULE SendSchedule ----------------------------
(***************************************************************************)
(* The schedule table of src/rtsp/rtsputils.c between its two threads: the *)
(* main thread, which adds, starts and removes the streams of clients, and *)
(* schedule_do, which walks the table once for every frame of the ring and *)
(* sends it to the streams that play.  Nothing guards the table.           *)
(*                                                                         *)
(* A step is one access to shared memory, in the order of the statements.  *)
(* A session here is an RTP session and its handle; sessions are numbered  *)
(* in the order of the SETUPs and, as in the code, never freed, while the  *)
(* handle is.  Each session is the only one of its connection; SETUPs that *)
(* find no handle or no slot belong to RtspServer and are left out.        *)
(***************************************************************************)
EXTENDS Integers

CONSTANTS MAX_CONNECTION,   \* slots of the table (10 in the code)
          MaxSessions       \* bound: the number of SETUPs

ASSUME ScheduleAssumption == /\ MAX_CONNECTION \in Nat \ {0}
                             /\ MaxSessions \in Nat

VARIABLES
    valid, rtp_session, play_action,   \* sched[i]
    pause, hndRtp, sched_id,           \* of each session
    setups,                            \* the sessions made so far
    mpc, mses, mslot,                  \* main: where it is, its session and slot
    spc, i,                            \* schedule_do: where it is, its slot
    target,                            \* the session whose handle RtpSend got
    due, served                        \* ghosts: the streams that play since the
                                       \* frame was taken, those that got it

slots == <<valid, rtp_session, play_action>>
sessions == <<pause, hndRtp, sched_id, setups>>
main == <<mpc, mses, mslot>>
sender == <<spc, i, target>>
pass == <<due, served>>
vars == <<slots, sessions, main, sender, pass>>

Slots == 0 .. MAX_CONNECTION - 1
Sessions == 1 .. MaxSessions
Null == 0
None == -1

\* ScheduleInit
Init == /\ valid = [k \in Slots |-> FALSE]
        /\ rtp_session = [k \in Slots |-> Null]
        /\ play_action = [k \in Slots |-> FALSE]
        /\ pause = [s \in Sessions |-> TRUE]
        /\ hndRtp = [s \in Sessions |-> "null"]
        /\ sched_id = [s \in Sessions |-> None]
        /\ setups = 0
        /\ mpc = "idle" /\ mses = Null /\ mslot = 0
        /\ spc = "idle" /\ i = 0 /\ target = Null
        /\ due = {} /\ served = {}

\* The streams that are to be sent.
Playing == {s \in Sessions : sched_id[s] # None /\ ~pause[s]}

-----------------------------------------------------------------------------
(* The main thread *)

\* RTSP_setup: RtpCreate, and schedule_add up to valid=1 in the first slot
\* that is not valid, which only this thread changes
AddValid == /\ mpc = "idle" /\ spc # "crashed" /\ setups < MaxSessions
            /\ setups' = setups + 1
            /\ mses' = setups'
            /\ hndRtp' = [hndRtp EXCEPT ![mses'] = "open"]
            /\ \E k \in Slots : /\ ~valid[k]
                                /\ \A j \in 0 .. k - 1 : valid[j]
                                /\ mslot' = k
                                /\ valid' = [valid EXCEPT ![k] = TRUE]
            /\ mpc' = "link"
            /\ UNCHANGED <<rtp_session, play_action, pause, sched_id, sender, pass>>

AddSession == /\ mpc = "link"
              /\ rtp_session' = [rtp_session EXCEPT ![mslot] = mses]
              /\ mpc' = "action"
              /\ UNCHANGED <<valid, play_action, sessions, mses, mslot, sender, pass>>

\* Faulty variant of AddAction: the caller drops the slot that schedule_add
\* returned, and the session keeps the 0 of calloc.
AddAction_SlotDropped ==
    /\ mpc = "action"
    /\ play_action' = [play_action EXCEPT ![mslot] = TRUE]
    /\ sched_id' = [sched_id EXCEPT ![mses] = 0]
    /\ mpc' = "idle"
    /\ UNCHANGED <<valid, rtp_session, pause, hndRtp, setups,
                   mses, mslot, sender, pass>>

AddAction == /\ mpc = "action"
             /\ play_action' = [play_action EXCEPT ![mslot] = TRUE]
             /\ sched_id' = [sched_id EXCEPT ![mses] = mslot]
             /\ mpc' = "idle"
             /\ UNCHANGED <<valid, rtp_session, pause, hndRtp, setups,
                            mses, mslot, sender, pass>>

\* RTSP_play: schedule_start
Start(s) == /\ mpc = "idle" /\ spc # "crashed"
            /\ sched_id[s] # None /\ pause[s]
            /\ pause' = [pause EXCEPT ![rtp_session[sched_id[s]]] = FALSE]
            /\ UNCHANGED <<slots, hndRtp, sched_id, setups, main, sender, pass>>

\* RTSP_teardown or the end of the connection: RtpDelete closes the socket
\* and frees the handle, whose pointer stays in the session
Delete(s) == /\ mpc = "idle" /\ spc # "crashed"
             /\ sched_id[s] # None
             /\ hndRtp' = [hndRtp EXCEPT ![s] = "freed"]
             /\ mses' = s
             /\ mslot' = sched_id[s]
             /\ mpc' = "remove"
             /\ due' = due \ {s}
             /\ UNCHANGED <<slots, pause, sched_id, setups, sender, served>>

\* Faulty variant of Remove: the slot forgets its session.
Remove_ClearsSession ==
    /\ mpc = "remove"
    /\ valid' = [valid EXCEPT ![mslot] = FALSE]
    /\ rtp_session' = [rtp_session EXCEPT ![mslot] = Null]
    /\ sched_id' = [sched_id EXCEPT ![mses] = None]
    /\ mpc' = "idle"
    /\ UNCHANGED <<play_action, pause, hndRtp, setups, mses, mslot, sender, pass>>

\* schedule_remove; no connection names the session any more
Remove == /\ mpc = "remove"
          /\ valid' = [valid EXCEPT ![mslot] = FALSE]
          /\ sched_id' = [sched_id EXCEPT ![mses] = None]
          /\ mpc' = "idle"
          /\ UNCHANGED <<rtp_session, play_action, pause, hndRtp, setups,
                         mses, mslot, sender, pass>>

\* A call of the main thread that has begun goes on.
Continue == AddSession \/ AddAction \/ Remove

Main == AddValid \/ Continue \/ (\E s \in Sessions : Start(s) \/ Delete(s))

-----------------------------------------------------------------------------
(* schedule_do *)

\* ringget has returned a frame
TakeFrame == /\ spc = "idle"
             /\ i' = 0
             /\ spc' = "valid"
             /\ due' = {s \in Playing : hndRtp[s] = "open"}
             /\ served' = {}
             /\ UNCHANGED <<slots, sessions, main, target>>

\* Faulty variant of NextSlot: the loop ends a slot early.
NextSlot_Short ==
    /\ target' = Null
    /\ IF i + 2 < MAX_CONNECTION
       THEN i' = i + 1 /\ spc' = "valid"
       ELSE i' = 0 /\ spc' = "idle"

\* the next turn of the for loop
NextSlot == /\ target' = Null
            /\ IF i + 1 < MAX_CONNECTION
               THEN i' = i + 1 /\ spc' = "valid"
               ELSE i' = 0 /\ spc' = "idle"

\* Faulty variant of CheckValid: a free slot ends the loop.
CheckValid_Breaks ==
    /\ spc = "valid"
    /\ IF valid[i]
       THEN spc' = "pause" /\ UNCHANGED <<i, target>>
       ELSE target' = Null /\ i' = 0 /\ spc' = "idle"
    /\ UNCHANGED <<slots, sessions, main, pass>>

CheckValid == /\ spc = "valid"
              /\ IF valid[i]
                 THEN spc' = "pause" /\ UNCHANGED <<i, target>>
                 ELSE NextSlot
              /\ UNCHANGED <<slots, sessions, main, pass>>

\* Faulty variant of CheckPause: a paused session is sent to as well.
CheckPause_Ignored ==
    /\ spc = "pause"
    /\ spc' = IF rtp_session[i] = Null THEN "crashed" ELSE "handle"
    /\ UNCHANGED <<i, target, slots, sessions, main, pass>>

\* A slot that has no session yet is a null pointer.
CheckPause ==
    /\ spc = "pause"
    /\ \/ /\ rtp_session[i] = Null
          /\ spc' = "crashed"
          /\ UNCHANGED <<i, target>>
       \/ /\ rtp_session[i] # Null
          /\ pause[rtp_session[i]]
          /\ NextSlot
       \/ /\ rtp_session[i] # Null
          /\ ~pause[rtp_session[i]]
          /\ spc' = "handle"
          /\ UNCHANGED <<i, target>>
    /\ UNCHANGED <<slots, sessions, main, pass>>

\* hndRtp is only compared with NULL, which a freed handle is not.
CheckHandle == /\ spc = "handle"
               /\ IF hndRtp[rtp_session[i]] # "null"
                  THEN spc' = "call" /\ UNCHANGED <<i, target>>
                  ELSE NextSlot
               /\ UNCHANGED <<slots, sessions, main, pass>>

\* The call loads play_action and, from the slot once more, the handle.
CallAction == /\ spc = "call"
              /\ target' = rtp_session[i]
              /\ served' = served \cup {target'}
              /\ spc' = "send"
              /\ UNCHANGED <<i, slots, sessions, main, due>>

\* RtpSend has sent the packets of the frame.
Send == /\ spc = "send"
        /\ NextSlot
        /\ UNCHANGED <<slots, sessions, main, pass>>

Sender == \/ TakeFrame \/ CheckValid \/ CheckPause
          \/ CheckHandle \/ CallAction \/ Send

-----------------------------------------------------------------------------
Next == Main \/ Sender

\* The kernel keeps scheduling both threads, and the encoder keeps making
\* frames; clients need not ask for anything.
Spec == Init /\ [][Next]_vars /\ WF_vars(Sender) /\ WF_vars(Continue)

-----------------------------------------------------------------------------
TypeOK == /\ valid \in [Slots -> BOOLEAN]
          /\ rtp_session \in [Slots -> Sessions \cup {Null}]
          /\ play_action \in [Slots -> BOOLEAN]
          /\ pause \in [Sessions -> BOOLEAN]
          /\ hndRtp \in [Sessions -> {"null", "open", "freed"}]
          /\ sched_id \in [Sessions -> Slots \cup {None}]
          /\ setups \in 0 .. MaxSessions
          /\ mpc \in {"idle", "link", "action", "remove"}
          /\ mses \in Sessions \cup {Null}
          /\ mslot \in Slots
          /\ spc \in {"idle", "valid", "pause", "handle", "call", "send", "crashed"}
          /\ i \in Slots
          /\ target \in Sessions \cup {Null}
          /\ due \subseteq Sessions
          /\ served \subseteq Sessions \cup {Null}

\* schedule_add makes a slot valid two stores before it sets play_action,
\* yet schedule_do never calls a null play_action: the session it meets in
\* such a slot is paused until a PLAY that comes after the last store.
CallsSetAction == spc = "call" => play_action[i]

\* schedule_do uses the session of a slot three times, each time read anew;
\* a slot once linked is never without a session, so that only the first of
\* the three can meet a null pointer, and only while the main thread is
\* between the first two stores of the schedule_add that first used the slot.
NullOnlyWhileLinking ==
    /\ spc \in {"handle", "call"} => rtp_session[i] # Null
    /\ \A k \in Slots : (valid[k] /\ rtp_session[k] = Null) =>
                            mpc = "link" /\ mslot = k

\* The stream in each slot, as the requests mean it: the new one from the
\* store of valid on, although the slot still names the one before, and none
\* once the slot is not valid, although it keeps its session.
Holds == [k \in Slots |-> IF ~valid[k] THEN Null
                          ELSE IF mpc = "link" /\ mslot = k THEN mses
                          ELSE rtp_session[k]]

Table == INSTANCE StreamTable WITH Streams <- Sessions, NoStream <- Null,
                                   holds <- Holds, playing <- Playing

\* The stores of schedule_add, schedule_start and schedule_remove implement a
\* table whose calls are one step each and concern the session they are made
\* for: the store of valid adds the session of the SETUP, never in the place
\* of another, schedule_start for s starts s, although it writes through the
\* slot, the store that frees the slot removes the session being ended, and
\* no other store or load of either thread touches the table.
ImplementsTable ==
    /\ Table!Init
    /\ [][/\ AddValid => Table!Add(mses')
          /\ \A s \in Sessions : Start(s) => Table!Start(s)
          /\ Remove => Table!Remove(mses)
          /\ ~(AddValid \/ Remove \/ \E s \in Sessions : Start(s))
                => UNCHANGED Table!vars]_vars

\* Whatever the main thread does to the table meanwhile, a frame goes to every
\* stream that played when it was taken and was not deleted since, and to no
\* stream twice, although slots are freed and used again within a pass and a
\* freed slot is read with the session it had.
PassServesEachOnce ==
    /\ spc = "idle" => due \subseteq served
    /\ spc = "call" => rtp_session[i] \notin served

\* A stream that a client has started is sent to for as long as it is in the
\* table, whatever the other slots hold and however they change.
StartedIsServed ==
    \A s \in Sessions :
        (sched_id[s] # None /\ ~pause[s]) ~>
            (target = s \/ sched_id[s] = None \/ spc = "crashed")

\* rtputils.c:196 says that RtpDelete has only to close the socket and free
\* the handle: no handle would then be in use by schedule_do when it goes.
SendsOnlyOpenHandles == spc = "send" => hndRtp[target] = "open"
=============================================================================
