----------------------------- MODULE UDPManager -----------------------------
(***************************************************************************)
(* voice/udp: a Manager that lets many goroutines use one UDP connection    *)
(* and one of them replace it.  connLock is a channel with room for one     *)
(* token, which says that somebody is at the connection but not who: the    *)
(* connection is paused while it is full, and whoever empties it ends the   *)
(* pause, rightly or not.  The actions below are what the Manager's methods *)
(* do; who calls them, and when, is up to VoiceSession.                     *)
(***************************************************************************)
EXTENDS Naturals, FiniteSets

CONSTANTS
    Callers,   \* goroutines
    MaxSocks   \* names for sockets, enough for those in use

ASSUME UDPAssumption == MaxSocks \in Nat

VARIABLES
    full,     \* connLock holds its token
    conn,     \* Manager.conn, 0 for nil
    prevConn, \* Manager.prevConn
    stopped,  \* stopConn is closed
    open,     \* the sockets, named by numbers, that are open
    found     \* caller |-> its acquireConn has found a connection

udp == <<full, conn, prevConn, stopped, open, found>>

NewManager ==
    /\ full = FALSE /\ conn = 0 /\ prevConn = 0 /\ stopped = FALSE
    /\ open = {} /\ found = [c \in Callers |-> FALSE]

Fresh == CHOOSE n \in 1..MaxSocks : n \notin open \cup {conn, prevConn}

(* Pause: the token goes in.                                                *)
Pause ==
    /\ ~full /\ full' = TRUE /\ prevConn' = conn
    /\ UNCHANGED <<conn, stopped, open, found>>

(* Continue: the replaced connection is closed and the token taken out, or, *)
(* when it is not there, FALSE is returned.                                 *)
Continues == full
Continue_KeepsPrevious ==
    /\ prevConn' = 0 /\ full' = FALSE
    /\ UNCHANGED <<conn, stopped, open, found>>
Continue ==
    /\ open' = open \ {prevConn} /\ prevConn' = 0
    /\ full' = FALSE
    /\ UNCHANGED <<conn, stopped, found>>

(* Close: users are told from now on; the connection itself stays.          *)
Close == stopped' = TRUE /\ UNCHANGED <<full, conn, prevConn, open, found>>

(* Dial: refused when nobody has paused the manager, with the token left    *)
(* in place.                                                                *)
DialRefused ==
    /\ ~full /\ full' = TRUE
    /\ UNCHANGED <<conn, prevConn, stopped, open, found>>
(* The dialer fails: the token is taken out.                                *)
DialFailed ==
    /\ full /\ full' = FALSE
    /\ UNCHANGED <<conn, prevConn, stopped, open, found>>
DialDone ==
    /\ full
    /\ conn' = Fresh /\ open' = open \cup {Fresh}
    /\ stopped' = FALSE
    /\ UNCHANGED <<full, prevConn, found>>

(* acquireConn: the token goes in and the connection is looked at; Release  *)
(* of VoiceSession takes the token out, or whichever is there by then.      *)
AcquireConn(c) ==
    /\ ~full /\ full' = TRUE
    /\ found' = [found EXCEPT ![c] = ~stopped /\ conn # 0]
    /\ UNCHANGED <<conn, prevConn, stopped, open>>
=============================================================================
