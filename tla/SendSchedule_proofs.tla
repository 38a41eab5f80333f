------------------------- MODULE SendSchedule_proofs -------------------------
(***************************************************************************)
(* Proofs about the schedule table, for any number of slots and of SETUPs: *)
(* what the order of the stores of schedule_add and of the loads of        *)
(* schedule_do is worth without a lock.                                    *)
(***************************************************************************)
EXTENDS SendSchedule, TLAPS

\* The session that schedule_add links is new: it is in no slot yet, and
\* nobody can have started it.
FreshInv ==
    /\ \A k \in Slots : rtp_session[k] <= setups
    /\ \A s \in Sessions : s > setups => pause[s]
    /\ mpc \in {"link", "action"} => mses # Null /\ mses <= setups /\ pause[mses]

\* A slot that has a session has its action, but for the one that is being
\* linked, whose session is paused unless the slot was used before.
ActionInv ==
    /\ \A k \in Slots : rtp_session[k] # Null =>
          play_action[k] \/ (mpc = "action" /\ mslot = k)
    /\ \A k \in Slots : rtp_session[k] # Null =>
          play_action[k] \/ pause[rtp_session[k]]
    /\ spc \in {"handle", "call"} => play_action[i]

-----------------------------------------------------------------------------
LEMMA InitTypeOK == Init => TypeOK
  BY ScheduleAssumption DEF Init, TypeOK, Slots, Sessions, Null, None

LEMMA NextSlotType ==
    TypeOK /\ NextSlot => i' \in Slots /\ spc' \in {"idle", "valid"} /\ target' = Null
  BY ScheduleAssumption DEF TypeOK, NextSlot, Slots

LEMMA NextTypeOK == TypeOK /\ [Next]_vars => TypeOK'
<1> SUFFICES ASSUME TypeOK, [Next]_vars
             PROVE  TypeOK'
  OBVIOUS
<1> USE ScheduleAssumption DEF TypeOK, slots, sessions, main, sender, pass
<1>1. CASE AddValid
  BY <1>1 DEF AddValid, Sessions
<1>2. CASE AddSession
  BY <1>2 DEF AddSession
<1>3. CASE AddAction
  BY <1>3 DEF AddAction
<1>4. ASSUME NEW s \in Sessions, Start(s)
      PROVE  TypeOK'
  BY <1>4 DEF Start
<1>5. ASSUME NEW s \in Sessions, Delete(s)
      PROVE  TypeOK'
  BY <1>5 DEF Delete
<1>6. CASE Remove
  BY <1>6 DEF Remove
<1>7. CASE TakeFrame
  BY <1>7 DEF TakeFrame, Slots, Playing
<1>8. CASE CheckValid
  BY <1>8, NextSlotType DEF CheckValid
<1>9. CASE CheckPause
  BY <1>9, NextSlotType DEF CheckPause
<1>10. CASE CheckHandle
  BY <1>10, NextSlotType DEF CheckHandle
<1>11. CASE CallAction
  BY <1>11 DEF CallAction
<1>12. CASE Send
  BY <1>12, NextSlotType DEF Send
<1>13. CASE UNCHANGED vars
  BY <1>13 DEF vars
<1>14. QED
  BY <1>1, <1>2, <1>3, <1>4, <1>5, <1>6, <1>7, <1>8, <1>9, <1>10, <1>11, <1>12, <1>13
     DEF Next, Main, Continue, Sender

\* Slots, sessions and the places of both threads keep their types; in
\* particular schedule_do never leaves the table.
THEOREM TypeCorrect == Spec => []TypeOK
  BY InitTypeOK, NextTypeOK, PTL DEF Spec

-----------------------------------------------------------------------------
LEMMA InitFreshInv == Init => FreshInv
  BY ScheduleAssumption DEF Init, FreshInv, Slots, Sessions, Null

LEMMA NextFreshInv == TypeOK /\ FreshInv /\ [Next]_vars => FreshInv'
<1> SUFFICES ASSUME TypeOK, FreshInv, [Next]_vars
             PROVE  FreshInv'
  OBVIOUS
<1> USE ScheduleAssumption DEF TypeOK, FreshInv, Sessions, Null
<1>1. CASE AddValid
  BY <1>1 DEF AddValid
<1>2. CASE AddSession
  BY <1>2 DEF AddSession, sessions
<1>3. CASE AddAction
  BY <1>3 DEF AddAction
\* The session started is in the table, and so is not a new one.
<1>4. ASSUME NEW s \in Sessions, Start(s)
      PROVE  FreshInv'
  <2>1. sched_id[s] \in Slots /\ rtp_session[sched_id[s]] <= setups
    BY <1>4 DEF Start
  <2>2. QED
    BY <1>4, <2>1 DEF Start, slots, main
<1>5. ASSUME NEW s \in Sessions, Delete(s)
      PROVE  FreshInv'
  BY <1>5 DEF Delete, slots
<1>6. CASE Remove
  BY <1>6 DEF Remove
<1>7. CASE Sender \/ UNCHANGED vars
  BY <1>7 DEF Sender, TakeFrame, CheckValid, CheckPause, CheckHandle, CallAction, Send, vars,
          slots, sessions, main
<1>8. QED
  BY <1>1, <1>2, <1>3, <1>4, <1>5, <1>6, <1>7 DEF Next, Main, Continue

-----------------------------------------------------------------------------
LEMMA InitActionInv == Init => ActionInv
  BY DEF Init, ActionInv

LEMMA NextActionInv == TypeOK /\ FreshInv /\ ActionInv /\ [Next]_vars => ActionInv'
<1> SUFFICES ASSUME TypeOK, FreshInv, ActionInv, [Next]_vars
             PROVE  ActionInv'
  OBVIOUS
<1> USE ScheduleAssumption DEF TypeOK, ActionInv, Sessions, Null
<1>1. CASE AddValid
  BY <1>1 DEF AddValid, sender
\* The new session is paused, and only its slot may lack the action.
<1>2. CASE AddSession
  BY <1>2 DEF AddSession, FreshInv, sessions, sender
<1>3. CASE AddAction
  BY <1>3 DEF AddAction, sender
\* The main thread is in no schedule_add: every slot with a session has its
\* action.
<1>4. ASSUME NEW s \in Sessions, Start(s)
      PROVE  ActionInv'
  BY <1>4 DEF Start, slots, main, sender
<1>5. ASSUME NEW s \in Sessions, Delete(s)
      PROVE  ActionInv'
  BY <1>5 DEF Delete, slots, sender
<1>6. CASE Remove
  BY <1>6 DEF Remove, sender
\* A session that is not paused has been started.
<1>7. CASE CheckPause
  BY <1>7 DEF CheckPause, NextSlot, slots, sessions, main
<1>8. CASE TakeFrame \/ CheckValid \/ CheckHandle \/ CallAction \/ Send
  BY <1>8 DEF TakeFrame, CheckValid, CheckHandle, CallAction, Send, NextSlot,
          slots, sessions, main
<1>9. CASE UNCHANGED vars
  BY <1>9 DEF vars, slots, sessions, main, sender
<1>10. QED
  BY <1>1, <1>2, <1>3, <1>4, <1>5, <1>6, <1>7, <1>8, <1>9
     DEF Next, Main, Continue, Sender

\* schedule_do never calls a play_action that is not set.
THEOREM ActionIsSet == Spec => []CallsSetAction
<1>1. ActionInv => CallsSetAction
  BY DEF ActionInv, CallsSetAction
<1>2. QED
  BY <1>1, InitTypeOK, NextTypeOK, InitFreshInv, NextFreshInv, InitActionInv,
     NextActionInv, PTL DEF Spec

-----------------------------------------------------------------------------
LEMMA InitNullInv == Init => NullOnlyWhileLinking
  BY DEF Init, NullOnlyWhileLinking

LEMMA NextNullInv ==
    TypeOK /\ FreshInv /\ NullOnlyWhileLinking /\ [Next]_vars => NullOnlyWhileLinking'
<1> SUFFICES ASSUME TypeOK, FreshInv, NullOnlyWhileLinking, [Next]_vars
             PROVE  NullOnlyWhileLinking'
  OBVIOUS
<1> USE DEF TypeOK, NullOnlyWhileLinking
\* A slot becomes valid while none other is being linked.
<1>1. CASE AddValid
  BY <1>1 DEF AddValid, sender
<1>2. CASE AddSession
  BY <1>2 DEF AddSession, FreshInv, sender
<1>3. CASE AddAction
  BY <1>3 DEF AddAction, sender
<1>4. ASSUME NEW s \in Sessions, Start(s)
      PROVE  NullOnlyWhileLinking'
  BY <1>4 DEF Start, slots, main, sender
<1>5. ASSUME NEW s \in Sessions, Delete(s)
      PROVE  NullOnlyWhileLinking'
  BY <1>5 DEF Delete, slots, sender
\* The slot keeps its session when it is freed.
<1>6. CASE Remove
  BY <1>6 DEF Remove, sender
<1>7. CASE CheckPause
  BY <1>7 DEF CheckPause, NextSlot, slots, main
<1>8. CASE TakeFrame \/ CheckValid \/ CheckHandle \/ CallAction \/ Send
  BY <1>8 DEF TakeFrame, CheckValid, CheckHandle, CallAction, Send, NextSlot, slots, main
<1>9. CASE UNCHANGED vars
  BY <1>9 DEF vars, slots, main, sender
<1>10. QED
  BY <1>1, <1>2, <1>3, <1>4, <1>5, <1>6, <1>7, <1>8, <1>9
     DEF Next, Main, Continue, Sender

\* schedule_do meets a slot without a session at the first test only, and only
\* while schedule_add is between its first two stores.
THEOREM NullIsNarrow == Spec => []NullOnlyWhileLinking
  BY InitTypeOK, NextTypeOK, InitFreshInv, NextFreshInv, InitNullInv, NextNullInv,
     PTL DEF Spec

-----------------------------------------------------------------------------
(* The refinement of StreamTable *)

Linking == mpc \in {"link", "action"}

\* Slots and streams name each other: a stream that names a slot is the session
\* of that slot, which is valid, and a valid slot has a session that names it,
\* but for the slot that is being linked, which nobody names yet.
TableInv ==
    /\ \A s \in Sessions : sched_id[s] # None =>
          valid[sched_id[s]] /\ rtp_session[sched_id[s]] = s /\ s <= setups
    /\ \A k \in Slots : valid[k] =>
          \/ Linking /\ mslot = k
          \/ rtp_session[k] # Null /\ sched_id[rtp_session[k]] = k
    /\ Linking => /\ mses # Null /\ sched_id[mses] = None /\ valid[mslot]
                  /\ \A s \in Sessions : sched_id[s] # mslot
    /\ mpc = "action" => rtp_session[mslot] = mses
    /\ mpc = "remove" => mses # Null /\ sched_id[mses] = mslot

LEMMA InitTableInv == Init => TableInv
  BY DEF Init, TableInv, Linking

LEMMA NextTableInv == TypeOK /\ FreshInv /\ TableInv /\ [Next]_vars => TableInv'
<1> SUFFICES ASSUME TypeOK, FreshInv, TableInv, [Next]_vars
             PROVE  TableInv'
  OBVIOUS
<1> USE ScheduleAssumption DEF TypeOK, TableInv, Linking, Sessions, Null, None, Slots
\* The slot was free, so that no stream names it, and the session is new.
<1>1. CASE AddValid
  <2>1. /\ mses' = setups + 1 /\ mses' \in Sessions /\ setups' = setups + 1
        /\ mpc = "idle" /\ mpc' = "link" /\ setups \in Nat
        /\ UNCHANGED <<rtp_session, sched_id>>
    BY <1>1 DEF AddValid
  <2>2. PICK k \in Slots : ~valid[k] /\ mslot' = k /\ valid' = [valid EXCEPT ![k] = TRUE]
    BY <1>1 DEF AddValid
  <2>3. sched_id[mses'] = None /\ \A s \in Sessions : sched_id[s] # k
    BY <2>1, <2>2
  <2>4. QED
    BY <2>1, <2>2, <2>3
<1>2. CASE AddSession
  BY <1>2 DEF AddSession, sessions
<1>3. CASE AddAction
  BY <1>3 DEF AddAction, FreshInv
<1>4. ASSUME NEW s \in Sessions, Start(s)
      PROVE  TableInv'
  BY <1>4 DEF Start, slots, main
<1>5. ASSUME NEW s \in Sessions, Delete(s)
      PROVE  TableInv'
  BY <1>5 DEF Delete, slots
<1>6. CASE Remove
  BY <1>6 DEF Remove
<1>7. CASE Sender \/ UNCHANGED vars
  BY <1>7 DEF Sender, TakeFrame, CheckValid, CheckPause, CheckHandle, CallAction, Send, vars,
          slots, sessions, main
<1>8. QED
  BY <1>1, <1>2, <1>3, <1>4, <1>5, <1>6, <1>7 DEF Next, Main, Continue

LEMMA SpecTableInv == Spec => [](TypeOK /\ FreshInv /\ TableInv)
  BY InitTypeOK, NextTypeOK, InitFreshInv, NextFreshInv, InitTableInv, NextTableInv,
     PTL DEF Spec

\* A stream that names a slot is the one that the slot holds.
LEMMA HoldsNamed ==
    ASSUME TypeOK, TableInv, NEW s \in Sessions, sched_id[s] # None
    PROVE  sched_id[s] \in Slots /\ Holds[sched_id[s]] = s
  BY DEF TypeOK, TableInv, Linking, Holds

\* A slot that holds a stream other than the one being linked is named by it.
LEMMA HeldNames ==
    ASSUME TypeOK, TableInv, NEW k \in Slots, Holds[k] # Null
    PROVE  /\ Holds[k] \in Sessions
           /\ sched_id[Holds[k]] = k \/ (Linking /\ mslot = k /\ Holds[k] = mses)
  BY DEF TypeOK, TableInv, Linking, Holds

LEMMA InitTable == Init => Table!Init
  BY DEF Init, Table!Init, Holds, Playing

\* The new stream is in the table from the store of valid on.
LEMMA AddIsAdd ==
    ASSUME TypeOK, FreshInv, TableInv, AddValid
    PROVE  mses' \in Sessions /\ Table!Add(mses')
<1> USE ScheduleAssumption DEF TypeOK, Null
<1>1. /\ mses' = setups + 1 /\ mses' \in Sessions
      /\ mpc = "idle" /\ mpc' = "link"
      /\ UNCHANGED <<rtp_session, pause, sched_id>>
  BY DEF AddValid, Sessions
<1>2. PICK k \in Slots : ~valid[k] /\ mslot' = k /\ valid' = [valid EXCEPT ![k] = TRUE]
  BY DEF AddValid
<1>3. ~Table!InTable(mses')
  <2>1. sched_id[mses'] = None
    BY <1>1 DEF TableInv, Sessions
  <2>2. \A j \in Slots : Holds[j] = mses' => sched_id[mses'] = j
    BY <1>1, HeldNames DEF Linking, Sessions
  <2>3. \A j \in Slots : j # None
    BY DEF Slots, None
  <2>4. QED
    BY <2>1, <2>2, <2>3 DEF Table!InTable
<1>4. Holds[k] = Null /\ Holds' = [Holds EXCEPT ![k] = mses']
  BY <1>1, <1>2 DEF Holds
<1>5. Playing' = Playing
  BY <1>1 DEF Playing
<1>6. QED
  BY <1>1, <1>3, <1>4, <1>5 DEF Table!Add

\* The slot of the client holds its own session, which is the one unpaused.
LEMMA StartIsStart ==
    ASSUME TypeOK, TableInv, NEW s \in Sessions, Start(s)
    PROVE  Table!Start(s)
<1>1. Table!InTable(s)
  BY HoldsNamed DEF Start, Table!InTable
<1>2. pause' = [pause EXCEPT ![s] = FALSE] /\ UNCHANGED <<sched_id, slots, main>>
  BY DEF Start, TableInv
<1>3. Playing' = Playing \cup {s}
  BY <1>2 DEF Playing, TypeOK, Start
<1>4. UNCHANGED Holds
  BY <1>2 DEF Holds, slots, main
<1>5. QED
  BY <1>1, <1>3, <1>4 DEF Table!Start

\* The slot that is freed is the one that holds the stream, and the only one.
LEMMA RemoveIsRemove ==
    ASSUME TypeOK, TableInv, Remove
    PROVE  mses \in Sessions /\ Table!Remove(mses)
<1> USE DEF TypeOK, Null
<1>1. /\ mses \in Sessions /\ sched_id[mses] = mslot /\ mslot \in Slots
      /\ mpc = "remove" /\ mpc' = "idle"
      /\ valid' = [valid EXCEPT ![mslot] = FALSE]
      /\ sched_id' = [sched_id EXCEPT ![mses] = None]
      /\ UNCHANGED <<rtp_session, pause>>
  BY DEF Remove, TableInv
<1>2. mslot # None
  BY <1>1, ScheduleAssumption DEF Slots, None
<1>3. Holds[mslot] = mses
  BY <1>1, <1>2, HoldsNamed
<1>4. \A k \in Slots : Holds[k] = mses => k = mslot
  BY <1>1, HeldNames DEF Linking, Sessions
<1>5. Holds' = [k \in Slots |-> IF Holds[k] = mses THEN Null ELSE Holds[k]]
  <2>1. ASSUME NEW k \in Slots
        PROVE  Holds'[k] = IF Holds[k] = mses THEN Null ELSE Holds[k]
    BY <1>1, <1>3, <1>4 DEF Holds
  <2>2. QED
    BY <2>1 DEF Holds
<1>6. Playing' = Playing \ {mses}
  BY <1>1 DEF Playing
<1>7. QED
  BY <1>1, <1>3, <1>5, <1>6 DEF Table!Remove, Table!InTable

\* Every other step leaves the table as it is: the store of the session gives
\* the slot what it holds already, and the slot number goes to a session that
\* is paused.
LEMMA RestKeepsTable ==
    ASSUME TypeOK, FreshInv, TableInv,
           AddSession \/ AddAction \/ (\E s \in Sessions : Delete(s)) \/ Sender
             \/ UNCHANGED vars
    PROVE  UNCHANGED <<Holds, Playing>>
<1> USE DEF TypeOK, Null
<1>1. CASE AddSession
  BY <1>1 DEF AddSession, Holds, Playing, sessions, Linking
<1>2. CASE AddAction
  <2>1. Playing' = Playing
    BY <1>2 DEF AddAction, Playing, FreshInv, TableInv, Linking
  <2>2. QED
    BY <1>2, <2>1 DEF AddAction, Holds
<1>3. CASE \E s \in Sessions : Delete(s)
  BY <1>3 DEF Delete, Holds, Playing, slots
<1>4. CASE Sender \/ UNCHANGED vars
  BY <1>4 DEF Sender, TakeFrame, CheckValid, CheckPause, CheckHandle, CallAction, Send, vars,
          slots, sessions, main, Holds, Playing
<1>5. QED
  BY <1>1, <1>2, <1>3, <1>4

\* What ImplementsTable says of a step.
OwnTableStep ==
    /\ AddValid => Table!Add(mses')
    /\ \A s \in Sessions : Start(s) => Table!Start(s)
    /\ Remove => Table!Remove(mses)
    /\ ~(AddValid \/ Remove \/ \E s \in Sessions : Start(s))
          => UNCHANGED Table!vars

LEMMA NextTable ==
    TypeOK /\ FreshInv /\ TableInv /\ [Next]_vars => OwnTableStep
<1> SUFFICES ASSUME TypeOK, FreshInv, TableInv, [Next]_vars
             PROVE  OwnTableStep
  OBVIOUS
<1>1. AddValid => Table!Add(mses')
  BY AddIsAdd
<1>2. ASSUME NEW s \in Sessions, Start(s)
      PROVE  Table!Start(s)
  BY <1>2, StartIsStart
<1>3. Remove => Table!Remove(mses)
  BY RemoveIsRemove
<1>4. ASSUME ~AddValid, ~Remove, ~\E s \in Sessions : Start(s)
      PROVE  UNCHANGED Table!vars
  <2>1. AddSession \/ AddAction \/ (\E s \in Sessions : Delete(s)) \/ Sender
           \/ UNCHANGED vars
    BY <1>4 DEF Next, Main, Continue
  <2>2. QED
    BY <2>1, RestKeepsTable DEF Table!vars
<1>5. QED
  BY <1>1, <1>2, <1>3, <1>4 DEF OwnTableStep

\* The schedule table, store by store, implements a table whose calls are one
\* step each: each call is the table's step for the session it is made for,
\* and every other step leaves the table alone.
THEOREM ScheduleImplementsTable == Spec => ImplementsTable
<1>1. Spec => Table!Init /\ [][OwnTableStep]_vars
  BY SpecTableInv, InitTable, NextTable, PTL DEF Spec
<1>2. QED
  BY <1>1 DEF ImplementsTable, OwnTableStep

\* In particular the schedule behaves as StreamTable specifies.
LEMMA ScheduleIsTable == Spec => Table!Spec
<1>1. TypeOK /\ FreshInv /\ TableInv /\ [Next]_vars => [Table!Next]_Table!vars
  <2> SUFFICES ASSUME TypeOK, FreshInv, TableInv, [Next]_vars
               PROVE  Table!Next \/ UNCHANGED Table!vars
    OBVIOUS
  <2>1. OwnTableStep
    BY NextTable
  <2>2. AddValid => mses' \in Sessions
    BY AddIsAdd
  <2>3. Remove => mses \in Sessions
    BY RemoveIsRemove
  <2>4. QED
    BY <2>1, <2>2, <2>3 DEF OwnTableStep, Table!Next
<1>2. QED
  BY <1>1, SpecTableInv, InitTable, PTL DEF Spec, Table!Spec

-----------------------------------------------------------------------------
(* What the table promises follows from its own specification *)

\* No stream has two slots, and only streams in the table are to be sent.
TableSound ==
    /\ \A j, k \in Slots : Holds[j] = Holds[k] /\ Holds[j] # Null => j = k
    /\ \A s \in Playing : Table!InTable(s)

LEMMA TableIsSound == Table!Spec => []TableSound
<1>1. Table!Init => TableSound
  BY DEF Table!Init, TableSound
<1>2. TableSound /\ [Table!Next]_Table!vars => TableSound'
  <2> SUFFICES ASSUME TableSound, [Table!Next]_Table!vars PROVE TableSound'
    OBVIOUS
  <2> USE DEF TableSound, Table!InTable
  <2>0. DOMAIN Holds = Slots
    BY DEF Holds
  <2>1. ASSUME NEW s \in Sessions, Table!Add(s) PROVE TableSound'
      <3>1. PICK k \in Slots : Holds[k] = Null /\ Holds' = [Holds EXCEPT ![k] = s]
      BY <2>1 DEF Table!Add
    <3>2. \A j \in Slots : Holds'[j] = IF j = k THEN s ELSE Holds[j]
      BY <2>0, <3>1
    <3>3. Playing' = Playing /\ \A j \in Slots : Holds[j] # s
      BY <2>1 DEF Table!Add
    <3>4. \A t \in Playing : \E j \in Slots : Holds'[j] = t
      <4> SUFFICES ASSUME NEW t \in Playing PROVE \E j \in Slots : Holds'[j] = t
        OBVIOUS
      <4>1. PICK j \in Slots : Holds[j] = t
        OBVIOUS
      <4>2. t # Null
        BY ScheduleAssumption DEF Playing, Sessions, Null
      <4>3. QED
        BY <3>1, <3>2, <4>1, <4>2
    <3>5. \A j, l \in Slots : Holds'[j] = Holds'[l] /\ Holds'[j] # Null => j = l
      BY <3>2, <3>3
    <3>6. QED
      BY <3>3, <3>4, <3>5
  <2>2. ASSUME NEW s \in Sessions, Table!Start(s) PROVE TableSound'
    BY <2>2 DEF Table!Start
  <2>3. ASSUME NEW s \in Sessions, Table!Remove(s) PROVE TableSound'
    BY <2>3 DEF Table!Remove
  <2>4. CASE UNCHANGED Table!vars
    BY <2>4 DEF Table!vars
  <2>5. QED
    BY <2>1, <2>2, <2>3, <2>4 DEF Table!Next
<1>3. QED
  BY <1>1, <1>2, PTL DEF Table!Spec

\* No two slots hold one stream, and PLAY never unpauses a stream that is not
\* in the table: at no point of any request of the main thread.
THEOREM TableStaysSound == Spec => []TableSound
  BY ScheduleIsTable, TableIsSound, PTL

-----------------------------------------------------------------------------
(* A pass of schedule_do over the table *)

\* A session is in one slot at most, and the new one in none until it is
\* linked; the handle of the session that leaves is freed.
OneSlotEach ==
    /\ \A j, k \in Slots : rtp_session[j] = rtp_session[k] /\ rtp_session[j] # Null => j = k
    /\ mpc = "link" => \A k \in Slots : rtp_session[k] # mses
    /\ mpc = "remove" => hndRtp[mses] = "freed"

\* The streams that are due still play.
DueInv == \A s \in due : sched_id[s] # None /\ ~pause[s] /\ hndRtp[s] = "open"

\* One that has not got the frame has its slot before it.
AheadInv ==
    \A s \in due \ served :
        /\ spc # "idle"
        /\ spc \in {"valid", "pause", "handle", "call"} => sched_id[s] >= i
        /\ spc = "send" => sched_id[s] > i

\* One that has got it is in no slot that the pass will come to.
BehindInv ==
    /\ Null \notin served /\ \A s \in served : s <= setups
    /\ mpc = "link" => mses \notin served
    /\ spc \notin {"idle", "crashed"} =>
          \A k \in Slots : rtp_session[k] \in served => k < i \/ (k = i /\ spc = "send")

PassInv == DueInv /\ AheadInv /\ BehindInv

LEMMA InitPassInv == Init => OneSlotEach /\ PassInv
  BY DEF Init, OneSlotEach, PassInv, DueInv, AheadInv, BehindInv

LEMMA NextOneSlotEach ==
    TypeOK /\ FreshInv /\ OneSlotEach /\ [Next]_vars => OneSlotEach'
<1> SUFFICES ASSUME TypeOK, FreshInv, OneSlotEach, [Next]_vars
             PROVE  OneSlotEach'
  OBVIOUS
<1> USE DEF TypeOK, OneSlotEach, Null
\* Its number is above those of all before it.
<1>1. CASE AddValid
  <2>1. mses' = setups + 1 /\ mpc' = "link" /\ UNCHANGED rtp_session
    BY <1>1 DEF AddValid
  <2>2. \A k \in Slots : rtp_session[k] <= setups /\ rtp_session[k] \in Int
    BY DEF FreshInv, Sessions
  <2>3. QED
    BY <2>1, <2>2
<1>2. CASE AddSession
  BY <1>2 DEF AddSession
<1>3. CASE AddAction
  BY <1>3 DEF AddAction
<1>4. ASSUME NEW s \in Sessions, Start(s)
      PROVE  OneSlotEach'
  BY <1>4 DEF Start, slots, main
<1>5. ASSUME NEW s \in Sessions, Delete(s)
      PROVE  OneSlotEach'
  BY <1>5 DEF Delete, slots
<1>6. CASE Remove
  BY <1>6 DEF Remove
<1>7. CASE Sender \/ UNCHANGED vars
  BY <1>7 DEF Sender, TakeFrame, CheckValid, CheckPause, CheckHandle, CallAction, Send, vars,
          slots, sessions, main
<1>8. QED
  BY <1>1, <1>2, <1>3, <1>4, <1>5, <1>6, <1>7 DEF Next, Main, Continue

\* What the main thread does leaves the streams that are due in their slots.
LEMMA MainPassInv ==
    ASSUME TypeOK, FreshInv, TableInv, OneSlotEach, PassInv, Main
    PROVE  PassInv'
<1> USE ScheduleAssumption DEF TypeOK, PassInv, DueInv, AheadInv, BehindInv, Null
<1>1. CASE AddValid
  <2>1. /\ mses' = setups + 1 /\ setups' = setups + 1
        /\ \A s \in Sessions : sched_id[s] # None => hndRtp'[s] = hndRtp[s]
        /\ UNCHANGED <<rtp_session, pause, sched_id, sender, pass>>
    <3>1. mses' = setups + 1 /\ hndRtp' = [hndRtp EXCEPT ![mses'] = "open"]
      BY <1>1 DEF AddValid
    <3>2. \A s \in Sessions : sched_id[s] # None => s # mses'
      BY <3>1 DEF TableInv, Sessions
    <3>3. QED
      BY <1>1, <3>1, <3>2 DEF AddValid
  <2>2. setups \in Int /\ \A s \in served : s \in Int
    BY DEF Sessions
  <2>3. QED
    BY <2>1, <2>2 DEF sender, pass
<1>2. CASE AddSession
  BY <1>2 DEF AddSession, sessions, sender, pass
<1>3. CASE AddAction
  BY <1>3 DEF AddAction, sender, pass, TableInv, Linking
<1>4. ASSUME NEW s \in Sessions, Start(s)
      PROVE  PassInv'
  BY <1>4 DEF Start, slots, main, sender, pass
<1>5. ASSUME NEW s \in Sessions, Delete(s)
      PROVE  PassInv'
  BY <1>5 DEF Delete, slots, sender
<1>6. CASE Remove
  BY <1>6 DEF Remove, sender, pass, OneSlotEach
<1>7. QED
  BY <1>1, <1>2, <1>3, <1>4, <1>5, <1>6 DEF Main, Continue

\* The next turn skips no stream that is due.
LEMMA NextSlotPassInv ==
    ASSUME TypeOK, PassInv, NextSlot, spc \notin {"idle", "crashed"},
           \A s \in due \ served : sched_id[s] > i,
           \A k \in Slots : rtp_session[k] \in served => k <= i,
           UNCHANGED <<slots, sessions, main, pass>>
    PROVE  PassInv'
<1> USE ScheduleAssumption DEF TypeOK, Slots
<1>1. DueInv' /\ (Null \notin served /\ \A s \in served : s <= setups)' /\ (mpc = "link" => mses \notin served)'
  BY DEF PassInv, DueInv, BehindInv, sessions, main, pass
<1>2. \A s \in due \ served : sched_id[s] \in Slots /\ sched_id[s] >= i + 1
  BY DEF PassInv, DueInv
<1>3. AheadInv'
  BY <1>2 DEF AheadInv, NextSlot, sessions, pass
<1>4. BehindInv'
  BY <1>1 DEF BehindInv, NextSlot, slots, pass
<1>5. QED
  BY <1>1, <1>3, <1>4 DEF PassInv

\* The slot of a stream that is due passes every test of schedule_do.
LEMMA SenderPassInv ==
    ASSUME TypeOK, FreshInv, TableInv, NullOnlyWhileLinking, OneSlotEach, PassInv, Sender
    PROVE  PassInv'
<1> USE ScheduleAssumption DEF TypeOK
<1>1. CASE TakeFrame
  BY <1>1 DEF TakeFrame, Playing, PassInv, DueInv, AheadInv, BehindInv, Slots, sessions, main,
          slots, None
<1>2. \A s \in due : /\ sched_id[s] \in Slots /\ valid[sched_id[s]]
                     /\ rtp_session[sched_id[s]] = s /\ ~pause[s] /\ hndRtp[s] = "open"
  BY DEF PassInv, DueInv, TableInv
<1>3. /\ \A s \in due \ served : spc \in {"valid", "pause", "handle", "call"} =>
                                   sched_id[s] >= i
      /\ \A s \in due \ served : spc = "send" => sched_id[s] > i
      /\ spc \notin {"idle", "crashed"} =>
            \A k \in Slots : rtp_session[k] \in served => k <= i
  BY DEF PassInv, AheadInv, BehindInv, Slots
<1>4. CASE CheckValid
  <2>1. CASE valid[i]
    BY <1>4, <2>1 DEF CheckValid, PassInv, DueInv, AheadInv, BehindInv, slots, sessions, main, pass
  <2>2. CASE ~valid[i]
    <3>1. \A s \in due \ served : sched_id[s] > i
      BY <1>2, <1>3, <1>4, <2>2 DEF CheckValid, Slots
    <3>2. QED
      BY <1>3, <1>4, <2>2, <3>1, NextSlotPassInv DEF CheckValid
  <2>3. QED
    BY <2>1, <2>2
<1>5. CASE CheckPause
  <2>1. CASE NextSlot /\ rtp_session[i] # Null /\ pause[rtp_session[i]]
    <3>1. \A s \in due \ served : sched_id[s] > i
      BY <1>2, <1>3, <1>5, <2>1 DEF CheckPause, Slots
    <3>2. QED
      BY <1>3, <1>5, <2>1, <3>1, NextSlotPassInv DEF CheckPause
  <2>2. CASE spc' \in {"crashed", "handle"} /\ UNCHANGED i
    BY <1>5, <2>2 DEF CheckPause, PassInv, DueInv, AheadInv, BehindInv, slots, sessions, main, pass
  <2>3. QED
    BY <1>5, <2>1, <2>2 DEF CheckPause
<1>6. CASE CheckHandle
  <2>1. CASE hndRtp[rtp_session[i]] # "null"
    BY <1>6, <2>1 DEF CheckHandle, PassInv, DueInv, AheadInv, BehindInv, slots, sessions, main, pass
  <2>2. CASE hndRtp[rtp_session[i]] = "null"
    <3>1. \A s \in due \ served : sched_id[s] > i
      BY <1>2, <1>3, <1>6, <2>2 DEF CheckHandle, Slots
    <3>2. QED
      BY <1>3, <1>6, <2>2, <3>1, NextSlotPassInv DEF CheckHandle
  <2>3. QED
    BY <2>1, <2>2
\* What is sent to is the session of the slot, and of no other.
<1>7. CASE CallAction
  <2>1. /\ spc = "call" /\ spc' = "send" /\ served' = served \cup {rtp_session[i]}
        /\ UNCHANGED <<i, due>> /\ UNCHANGED <<slots, sessions, main>>
    BY <1>7 DEF CallAction
  <2>2. rtp_session[i] # Null
    BY <2>1 DEF NullOnlyWhileLinking
  <2>3. DueInv'
    BY <2>1 DEF PassInv, DueInv, sessions
  <2>4. AheadInv'
    BY <1>2, <1>3, <2>1 DEF AheadInv, sessions, Slots
  <2>5. BehindInv'
    <3>1. rtp_session[i] <= setups /\ (mpc = "link" => mses # rtp_session[i])
      BY <2>1 DEF FreshInv, OneSlotEach
    <3>2. QED
      BY <2>1, <2>2, <3>1 DEF PassInv, BehindInv, OneSlotEach, slots, sessions, main
  <2>6. QED
    BY <2>3, <2>4, <2>5 DEF PassInv
<1>8. CASE Send
  BY <1>3, <1>8, NextSlotPassInv DEF Send
<1>9. QED
  BY <1>1, <1>4, <1>5, <1>6, <1>7, <1>8 DEF Sender

LEMMA NextPassInv ==
    TypeOK /\ FreshInv /\ TableInv /\ NullOnlyWhileLinking /\ OneSlotEach /\ PassInv /\ [Next]_vars
      => PassInv'
<1> SUFFICES ASSUME TypeOK, FreshInv, TableInv, NullOnlyWhileLinking, OneSlotEach, PassInv,
                    [Next]_vars
             PROVE  PassInv'
  OBVIOUS
<1>1. CASE UNCHANGED vars
  BY <1>1 DEF vars, slots, sessions, main, sender, pass, PassInv, DueInv, AheadInv, BehindInv
<1>2. QED
  BY <1>1, MainPassInv, SenderPassInv DEF Next

\* In a pass over the table no stream that plays is left out and none gets the
\* frame twice, however the main thread changes the table meanwhile, for every
\* number of slots.
THEOREM PassServes == Spec => []PassServesEachOnce
<1>1. TypeOK /\ PassInv => PassServesEachOnce
  BY ScheduleAssumption
     DEF TypeOK, PassInv, AheadInv, BehindInv, PassServesEachOnce, Slots
<1>2. QED
  BY <1>1, InitTypeOK, NextTypeOK, InitFreshInv, NextFreshInv, InitTableInv, NextTableInv,
     InitNullInv, NextNullInv, InitPassInv, NextOneSlotEach, NextPassInv, PTL DEF Spec
=============================================================================
