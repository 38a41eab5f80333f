---------------------------- MODULE MCRtpSender ----------------------------
(* Packets of at most two bytes and frames of up to seven: none or one byte, *)
(* a packet and a byte more or less, and up to three fragments, the last one *)
(* full or not.  Four sequence numbers and up to nine packets: the number    *)
(* wraps, and a burst of loss may be as long as its range.                  *)
EXTENDS RtpSender
MCLength == 2
MCSeqMod == 4
MCSizes == 0 .. 7
MCFrames == 3
=============================================================================
