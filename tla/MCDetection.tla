---------------------------- MODULE MCDetection ----------------------------
(***************************************************************************)
(* An instance of Detection for TLC: two groups that use the detectors at  *)
(* the same time, constructed by PE 0 after them.                          *)
(***************************************************************************)
EXTENDS Detection, TLC

First == [pe |-> 0, id |-> 1]
Second == [pe |-> 0, id |-> 2]
MCCol == {First, Second}
MCRounds == First :> 3 @@ Second :> 2
=============================================================================
