------------------------------ MODULE MCIngest ------------------------------
(***************************************************************************)
(* An instance of Ingest for TLC: two creators of at most two videos and a *)
(* limit of one.  The first video of each has captions; the audio of the   *)
(* second is more than OpenAI takes, so that nothing makes up for a block. *)
(***************************************************************************)
EXTENDS Ingest

MCCaptioned == {v \in Video : v[2] = 1}
MCLarge == Video \ MCCaptioned
=============================================================================
