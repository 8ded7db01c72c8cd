---------------------------- MODULE MCPosSession ----------------------------
(***************************************************************************)
(* Instances of PosSession for TLC.                                        *)
(***************************************************************************)
EXTENDS PosSession

MCReadings == {0, 1, 3}
MCBootReadings == {1}
=============================================================================
