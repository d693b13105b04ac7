---------------------------- MODULE MCVoiceSession ----------------------------
(***************************************************************************)
(* Two tool calls, so that one may supersede the other, and up to three    *)
(* sessions.  Where the third is opened, at most one call has been made.   *)
(***************************************************************************)
EXTENDS VoiceSession

MCCalls == 1..2

Bounded == Unused # {} \/ \E c \in Calls : tool[c].st = "idle"
=============================================================================
