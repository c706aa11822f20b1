---------------------------- MODULE MCAudioQueue ----------------------------
(***************************************************************************)
(* Two audio queues that may have to share the one OpenAL source.          *)
(***************************************************************************)
EXTENDS AudioQueue

CONSTANTS short, long

\* The queue `short` has at most one buffer at a time.
Lengths == [r \in Refs |-> IF r = short THEN 1 ELSE 2]
=============================================================================
