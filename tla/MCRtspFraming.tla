---------------------------- MODULE MCRtspFraming ---------------------------
(* Three requests of every kind, of 5 to 15 cells; the buffer has 17, so    *)
(* that it holds one to three of them.                                     *)
EXTENDS RtspFraming
MCBufferSize == 17
MCOutSize == 2
MCRequests == 3
=============================================================================
