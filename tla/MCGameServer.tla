---------------------------- MODULE MCGameServer ----------------------------
(* Small instances of GameServer for TLC.                                   *)
EXTENDS GameServer
=============================================================================
