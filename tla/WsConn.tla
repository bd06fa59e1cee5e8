------------------------------- MODULE WsConn -------------------------------
(***************************************************************************)
(* A websocket of utils/ws: the Websocket wrapper around Conn, which hands  *)
(* out one connMutex per connection.  The Owner (the gateway loop) dials,   *)
(* receives, beats and closes; other goroutines send whenever they like;    *)
(* every connection has a reader goroutine that feeds a channel of          *)
(* capacity one.  Websocket.mutex and Conn.mut are always taken together    *)
(* by Dial and Close, and only for copying a pointer by Send, and are one   *)
(* lock here.                                                               *)
(***************************************************************************)
EXTENDS Integers

CONSTANTS
    Senders,   \* goroutines that call Gateway.Send
    Owner,     \* the goroutine of Gateway.spin
    Free,      \* nobody
    MaxConns,  \* bound: connections dialed
    Faults     \* "lost": connections break; "stalled": the peer stops reading

ASSUME ConstantsAssumption ==
    /\ Owner \notin Senders /\ Free \notin Senders \cup {Owner}
    /\ MaxConns \in Nat
    /\ Faults \subseteq {"lost", "stalled"}

Conns == 1..MaxConns
NoConn == 0
Writers == Senders \cup {Owner}

VARIABLES
    mut,      \* who holds Conn.mut
    current,  \* Conn.conn
    set,      \* connMutex.Conn is not nil
    wrmut,    \* who holds connMutex.wrmut, a channel of capacity one
    ended,    \* the context of the reader is cancelled
    sock,     \* the socket: "none", "open", "stalled", "lost" or "closed"
    reader,   \* where the read loop is
    buf,      \* ops in the event channel, 0 or 1
    pc,       \* where each goroutine is
    conn,     \* the connMutex a Send has copied
    failed    \* a Send that wrote to this connection returned an error

vars == <<mut, current, set, wrmut, ended, sock, reader, buf, pc, conn, failed>>

Init ==
    /\ mut = Free /\ current = NoConn
    /\ set = [i \in Conns |-> FALSE]
    /\ wrmut = [i \in Conns |-> Free]
    /\ ended = [i \in Conns |-> FALSE]
    /\ sock = [i \in Conns |-> "none"]
    /\ reader = [i \in Conns |-> "none"]
    /\ buf = [i \in Conns |-> 0]
    /\ pc = [g \in Writers |-> IF g = Owner THEN "down" ELSE "idle"]
    /\ conn = [g \in Writers |-> NoConn]
    /\ failed = [i \in Conns |-> FALSE]

(* A nil dereference ends the process.                                      *)
Running == \A g \in Writers : pc[g] # "panicked"
At(g, label) == Running /\ pc[g] = label
Goto(g, label) == pc' = [pc EXCEPT ![g] = label]

-----------------------------------------------------------------------------
(* Conn.Send, by anybody: from (idle, or the owner's up) and back to it.    *)

Home(g) == IF g = Owner THEN "up" ELSE "idle"

(* c.mut.Lock(); conn := c.conn; c.mut.Unlock()                             *)
Send(g) ==
    /\ At(g, Home(g))
    /\ mut = Free
    /\ conn' = [conn EXCEPT ![g] = current]
    /\ Goto(g, "check")
    /\ UNCHANGED <<mut, current, set, wrmut, ended, sock, reader, buf, failed>>

(* if conn == nil || conn.Conn == nil, read without a lock                  *)
CheckOpen(g) ==
    /\ At(g, "check")
    /\ IF conn[g] = NoConn THEN Goto(g, Home(g))
       ELSE Goto(g, IF set[conn[g]] THEN "acquire" ELSE Home(g))
    /\ UNCHANGED <<mut, current, set, wrmut, ended, sock, reader, buf, conn, failed>>

Acquire_Unlocked(g) ==
    /\ At(g, "acquire")
    /\ Goto(g, "write")
    /\ UNCHANGED <<mut, current, set, wrmut, ended, sock, reader, buf, conn, failed>>

(* case conn.wrmut <- struct{}{}                                            *)
Acquire(g) ==
    /\ At(g, "acquire")
    /\ wrmut[conn[g]] = Free
    /\ wrmut' = [wrmut EXCEPT ![conn[g]] = g]
    /\ Goto(g, "write")
    /\ UNCHANGED <<mut, current, set, ended, sock, reader, buf, conn, failed>>

(* case <-ctx.Done()                                                        *)
GiveUp(g) ==
    /\ At(g, "acquire")
    /\ Goto(g, Home(g))
    /\ UNCHANGED <<mut, current, set, wrmut, ended, sock, reader, buf, conn, failed>>

(* conn.WriteMessage, through a pointer that Close may have set to nil      *)
BeginWrite(g) ==
    /\ At(g, "write")
    /\ Goto(g, IF set[conn[g]] THEN "writing" ELSE "panicked")
    /\ UNCHANGED <<mut, current, set, wrmut, ended, sock, reader, buf, conn, failed>>

(* The write comes back, unless the peer has stopped reading, and the mutex *)
(* is released.                                                             *)
EndWrite(g) ==
    LET i == conn[g] IN
    /\ At(g, "writing")
    /\ sock[i] # "stalled"
    /\ wrmut' = [wrmut EXCEPT ![i] = Free]
    /\ failed' = [failed EXCEPT ![i] = @ \/ sock[i] # "open"]
    /\ Goto(g, Home(g))
    /\ UNCHANGED <<mut, current, set, ended, sock, reader, buf, conn>>

-----------------------------------------------------------------------------
(* Conn.Dial and Conn.Close, by the owner.                                  *)

DialNext ==
    /\ Running /\ pc[Owner] \in {"down", "up"} /\ mut = Free
    /\ current < MaxConns
    /\ current' = current + 1
    /\ reader' = [reader EXCEPT ![current + 1] = "read"]
    /\ Goto(Owner, "up")
    /\ UNCHANGED <<mut, wrmut, buf, conn, failed>>

Dial_LeavesOld ==
    /\ DialNext
    /\ set' = [i \in Conns |-> i = current + 1]
    /\ sock' = [sock EXCEPT ![current + 1] = "open"]
    /\ UNCHANGED ended

(* An old connection is closed first, if it is not; then the new one gets   *)
(* its reader.                                                              *)
Dial ==
    /\ DialNext
    /\ set' = [i \in Conns |-> i = current + 1]
    /\ ended' = [i \in Conns |-> ended[i] \/ i = current]
    /\ sock' = [i \in Conns |-> IF i = current + 1 THEN "open"
                                ELSE IF i = current THEN "closed" ELSE sock[i]]

(* The loop takes an op from the channel.                                   *)
Receive ==
    /\ At(Owner, "up")
    /\ buf[current] = 1
    /\ buf' = [buf EXCEPT ![current] = 0]
    /\ UNCHANGED <<mut, current, set, wrmut, ended, sock, reader, pc, conn, failed>>

(* Close takes the lock; a graceful one wants to write a close frame.       *)
Close(gracefully) ==
    /\ At(Owner, "up") /\ mut = Free
    /\ mut' = Owner
    /\ Goto(Owner, IF gracefully THEN "graceful" ELSE "shut")
    /\ UNCHANGED <<current, set, wrmut, ended, sock, reader, buf, conn, failed>>

LockFrame_Retries ==
    /\ At(Owner, "graceful")
    /\ \/ /\ wrmut[current] = Free
          /\ wrmut' = [wrmut EXCEPT ![current] = Owner]
          /\ Goto(Owner, "frame")
       \/ /\ wrmut[current] # Free
          /\ UNCHANGED <<pc, wrmut>>
    /\ UNCHANGED <<mut, current, set, ended, sock, reader, buf, conn, failed>>

(* case c.wrmut <- struct{}{}, or the deadline                              *)
LockFrame ==
    /\ At(Owner, "graceful")
    /\ \/ /\ wrmut[current] = Free
          /\ wrmut' = [wrmut EXCEPT ![current] = Owner]
          /\ Goto(Owner, "frame")
       \/ /\ Goto(Owner, "shut")
          /\ UNCHANGED wrmut
    /\ UNCHANGED <<mut, current, set, ended, sock, reader, buf, conn, failed>>

(* The close frame has a write deadline.                                    *)
EndFrame ==
    /\ At(Owner, "frame")
    /\ wrmut' = [wrmut EXCEPT ![current] = Free]
    /\ Goto(Owner, "shut")
    /\ UNCHANGED <<mut, current, set, ended, sock, reader, buf, conn, failed>>

(* c.Conn.Close(); c.Conn = nil; c.cancel(), with or without the mutex of   *)
(* the writers; the loop forgets the channel.                               *)
Shut ==
    /\ At(Owner, "shut")
    /\ mut' = Free
    /\ set' = [set EXCEPT ![current] = FALSE]
    /\ ended' = [ended EXCEPT ![current] = TRUE]
    /\ sock' = [sock EXCEPT ![current] = "closed"]
    /\ Goto(Owner, "down")
    /\ UNCHANGED <<current, wrmut, reader, buf, conn, failed>>

-----------------------------------------------------------------------------
(* readLoop of connection i.                                                *)

(* A message arrives, or NextReader fails.                                  *)
Read(i) ==
    /\ Running /\ reader[i] = "read"
    /\ reader' = [reader EXCEPT ![i] = IF sock[i] = "open" THEN "send" ELSE "close"]
    /\ sock[i] # "stalled"
    /\ UNCHANGED <<mut, current, set, wrmut, ended, sock, buf, pc, conn, failed>>

(* Codec.send: the channel or the context                                   *)
Deliver(i) ==
    /\ Running /\ reader[i] = "send"
    /\ \/ /\ buf[i] = 0
          /\ buf' = [buf EXCEPT ![i] = 1]
          /\ reader' = [reader EXCEPT ![i] = "read"]
       \/ /\ ended[i]
          /\ reader' = [reader EXCEPT ![i] = "close"]
          /\ UNCHANGED buf
    /\ UNCHANGED <<mut, current, set, wrmut, ended, sock, pc, conn, failed>>

(* The CloseEvent, whether anybody listens or not; close(opCh)              *)
DeliverClose(i) ==
    /\ Running /\ reader[i] = "close"
    /\ buf[i] = 0
    /\ buf' = [buf EXCEPT ![i] = 1]
    /\ reader' = [reader EXCEPT ![i] = "done"]
    /\ UNCHANGED <<mut, current, set, wrmut, ended, sock, pc, conn, failed>>

-----------------------------------------------------------------------------
(* The network (external).                                                  *)
Break(i) ==
    /\ Running /\ sock[i] = "open"
    /\ \E s \in Faults : sock' = [sock EXCEPT ![i] = s]
    /\ UNCHANGED <<mut, current, set, wrmut, ended, reader, buf, pc, conn, failed>>

Sending(g) == CheckOpen(g) \/ Acquire(g) \/ BeginWrite(g) \/ EndWrite(g)
Closing == LockFrame \/ EndFrame \/ Shut
readLoop(i) == Read(i) \/ Deliver(i) \/ DeliverClose(i)

(* All connections are used up, or the process has panicked.                *)
Stopped ==
    /\ (pc[Owner] = "down" /\ current = MaxConns) \/ ~Running
    /\ UNCHANGED vars

Next ==
    \/ \E g \in Writers : Send(g) \/ Sending(g) \/ GiveUp(g)
    \/ Dial \/ Receive \/ (\E gracefully \in BOOLEAN : Close(gracefully)) \/ Closing
    \/ \E i \in Conns : readLoop(i) \/ Break(i)
    \/ Stopped

Spec == Init /\ [][Next]_vars

(* Every goroutine that can move does; the loop reads its channel.  When to *)
(* send, dial and close is up to the callers.                               *)
FairSpec ==
    /\ Spec
    /\ WF_vars(Receive) /\ WF_vars(Closing)
    /\ \A g \in Writers : WF_vars(Sending(g)) /\ SF_vars(Acquire(g))
    /\ \A i \in Conns : WF_vars(readLoop(i))

-----------------------------------------------------------------------------
(* Every variable keeps its type; the channel keeps its capacity.           *)
TypeOK ==
    /\ mut \in {Free, Owner} /\ current \in 0..MaxConns
    /\ set \in [Conns -> BOOLEAN]
    /\ wrmut \in [Conns -> Writers \cup {Free}]
    /\ ended \in [Conns -> BOOLEAN]
    /\ sock \in [Conns -> {"none", "open", "stalled", "lost", "closed"}]
    /\ reader \in [Conns -> {"none", "read", "send", "close", "done"}]
    /\ buf \in [Conns -> 0..1]
    /\ pc \in [Writers -> {"idle", "check", "acquire", "write", "writing", "panicked",
                           "down", "up", "graceful", "frame", "shut"}]
    /\ conn \in [Writers -> 0..MaxConns]
    /\ failed \in [Conns -> BOOLEAN]

(* g is inside a write call of connection i.                                *)
Writing(g, i) ==
    \/ pc[g] = "writing" /\ conn[g] = i
    \/ g = Owner /\ pc[g] = "frame" /\ current = i

(* A websocket supports one concurrent writer: two senders, or a sender and *)
(* the close frame, never write at the same time.                           *)
OneWriter ==
    \A i \in Conns : \A g, h \in Writers : Writing(g, i) /\ Writing(h, i) => g = h

(* At most one socket is in use: the old one is closed before a new one is  *)
(* dialed, and a Send with an old pointer finds it closed.                  *)
OneSocket == \A i \in Conns : sock[i] \in {"open", "stalled", "lost"} => i = current

(* Why there is one writer: whoever is about to write, writes, or sends the *)
(* close frame holds the write mutex of that very connection.               *)
WritersHold ==
    \A g \in Writers :
        /\ pc[g] \in {"acquire", "write", "writing"} => conn[g] \in Conns
        /\ pc[g] \in {"write", "writing"} => wrmut[conn[g]] = g
        /\ pc[g] = "frame" => g = Owner /\ wrmut[current] = Owner
        /\ pc[g] \in {"down", "up", "graceful", "frame", "shut"} => g = Owner
        /\ g = Owner /\ pc[g] # "down" => current \in Conns

(* Close returns, also while a Send is stuck or holds the write mutex.      *)
InClose == pc[Owner] \in {"graceful", "frame", "shut"}
CloseReturns == InClose ~> (~InClose \/ ~Running)

(* Sending is thread-safe: nobody writes through a nil pointer.             *)
NoNilWrite == Running

(* The reader of a connection that was closed ends, and closes its channel. *)
ReaderEnds == \A i \in Conns : sock[i] = "closed" ~> (reader[i] = "done" \/ ~Running)

(* A Send has a deadline: it returns even if the peer does not read.        *)
SendReturns ==
    \A g \in Writers : pc[g] = "writing" ~> (pc[g] # "writing" \/ ~Running)

(* A Send that fails closes the websocket.                                  *)
SendErrorCloses == \A i \in Conns : failed[i] => sock[i] = "closed"
=============================================================================
