---------------------------- MODULE MCExtraction ----------------------------
(***************************************************************************)
(* An instance of Extraction for TLC: the daily job beside a run by hand,  *)
(* a document with one window that may hold a call, and an older one with  *)
(* two windows that hold claims.                                           *)
(***************************************************************************)
EXTENDS Extraction

MCDocuments  == 1..2
MCCandidates == <<2, 1>>

MCAnswers == << {[call |-> "none", claims |-> "accepted"]},
                {[call |-> "rejected", claims |-> "none"],
                 [call |-> "accepted", claims |-> "accepted"]} >>
=============================================================================
