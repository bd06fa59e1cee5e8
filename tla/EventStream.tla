----------------------------- MODULE EventStream -----------------------------
(***************************************************************************)
(* What Gateway.Connect promises the reader of its channel: one stream of   *)
(* events per session.  A session starts with its READY, which is event 1;  *)
(* after it every event is offered once and in order, however often the     *)
(* connection underneath is lost and resumed.  An event the library cannot  *)
(* decode is offered as an error, possibly again after a resume.            *)
(***************************************************************************)
EXTENDS Naturals

CONSTANTS Sessions, None, MaxSeq

VARIABLES session, position, offered

vars == <<session, position, offered>>

Kinds == {"ready", "event", "unknown"}
Event == [kind: Kinds, sid: Sessions, seq: 1..MaxSeq]

(* The events that may come next.                                           *)
Fits(e) ==
    CASE e.kind = "ready" -> e.seq = 1 /\ e.sid # session
      [] e.kind = "event" -> e.sid = session /\ e.seq = position + 1
      [] OTHER            -> e.sid = session /\ e.seq <= position + 1

Init == session = None /\ position = 0 /\ offered = None

Offer ==
    /\ offered = None
    /\ \E e \in Event : Fits(e) /\ offered' = e
    /\ UNCHANGED <<session, position>>

Take ==
    /\ offered # None
    /\ session' = offered.sid
    /\ position' = IF offered.kind = "ready" \/ offered.seq > position
                   THEN offered.seq ELSE position
    /\ offered' = None

Next == Offer \/ Take

Spec == Init /\ [][Next]_vars
=============================================================================
