---------------------------- MODULE MCChangeFeed ----------------------------
(* Instances of ChangeFeed.                                                *)
EXTENDS ChangeFeed
=============================================================================
