--------------------------- MODULE MCSendSchedule ---------------------------
(* Three slots and four sessions: a slot is used, freed and used again while *)
(* those before and behind it play.                                          *)
EXTENDS SendSchedule
MCSlots == 3
MCSessions == 4
=============================================================================
