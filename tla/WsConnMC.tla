------------------------------ MODULE WsConnMC ------------------------------
(* Instances of WsConn for TLC.                                             *)
EXTENDS WsConn

CONSTANT g1
=============================================================================
