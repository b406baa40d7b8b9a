----------------------------- MODULE MCChatOps -----------------------------
(***************************************************************************)
(* Instances of ChatOps for TLC.                                           *)
(***************************************************************************)
EXTENDS ChatOps, TLC
=============================================================================
