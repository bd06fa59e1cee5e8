------------------------------ MODULE HandlerMC ------------------------------
(* Instances of Handler for TLC: two handlers of one type that share a slab  *)
(* and a third one for every event.                                          *)
EXTENDS Handler

CONSTANTS h1, h2, h3, t1, t2, c1, c2

TwoSlabs == [h \in Handlers |-> IF h = h3 THEN Iface ELSE t1]
TwoTypes == [h \in Handlers |-> IF h = h3 THEN {t1, t2} ELSE {t1}]
=============================================================================
