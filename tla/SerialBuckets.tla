---------------------------- MODULE SerialBuckets ----------------------------
(***************************************************************************)
(* What the buckets of a rate.Limiter promise to the callers that share it: *)
(* the requests of one bucket are made one at a time, and a caller that     *)
(* waits for its turn gets it.                                              *)
(***************************************************************************)
CONSTANTS Callers, Buckets

VARIABLES
    phase,   \* "out", "waiting" for its turn or "inside" a bucket
    bucket   \* the bucket of the caller's current request

vars == <<phase, bucket>>

Init ==
    /\ phase = [c \in Callers |-> "out"]
    /\ bucket \in [Callers -> Buckets]

Occupied(b) == \E c \in Callers : phase[c] = "inside" /\ bucket[c] = b

Ask(c) ==
    /\ phase[c] = "out"
    /\ phase' = [phase EXCEPT ![c] = "waiting"]
    /\ \E b \in Buckets : bucket' = [bucket EXCEPT ![c] = b]

Enter(c) ==
    /\ phase[c] = "waiting"
    /\ ~Occupied(bucket[c])
    /\ phase' = [phase EXCEPT ![c] = "inside"]
    /\ UNCHANGED bucket

(* The request is over, or about to be retried.                             *)
Leave(c) ==
    /\ phase[c] = "inside"
    /\ \E p \in {"out", "waiting"} : phase' = [phase EXCEPT ![c] = p]
    /\ UNCHANGED bucket

Next == \E c \in Callers : Ask(c) \/ Enter(c) \/ Leave(c)

Spec == Init /\ [][Next]_vars

FairSpec ==
    /\ Spec
    /\ \A c \in Callers : SF_vars(Enter(c)) /\ WF_vars(Leave(c))
=============================================================================
