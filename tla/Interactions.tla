---------------------------- MODULE Interactions ----------------------------
(***************************************************************************)
(* The answer to one interaction, from a handler through the Deferrable     *)
(* middlewares around it to Discord.  A Deferrable runs what is below it in *)
(* a goroutine and waits for its response or for a time-out, after which    *)
(* it answers with a deferral and posts the response as a follow-up.        *)
(*                                                                          *)
(* Layer 1 is the outermost; the handler is below the last.                 *)
(***************************************************************************)
EXTENDS Integers, Sequences, FiniteSets

CONSTANTS Depth   \* number of Deferrable middlewares around the handler
ASSUME DepthAssumption == Depth \in Nat
Layers == 1..Depth

(* What a handler may return: nothing, a response without data (only a      *)
(* component's handler can), an empty message, or a message.                *)
Responses == {"nil", "nodata", "empty", "message"}

VARIABLES
    flagged,   \* layer |-> opts.Flags > 0
    returned,  \* layer |-> what it returned, or "" (Depth + 1: the handler)
    respCh,    \* layer |-> what its goroutine sent, or ""
    expired,   \* layer |-> its timeout context is done
    following, \* layer |-> its second goroutine: "no", "wait", "post", "end"
    respond,   \* the initial response on its way: "no", "wait", "post", "end"
    initial,   \* Discord: the initial response it has, or ""
    followups, \* Discord: the follow-ups it has taken
    overtaken  \* history: a follow-up reached Discord before the deferral
interactionVars ==
    <<flagged, returned, respCh, expired, following, respond, initial, followups, overtaken>>

InteractionsInit ==
    /\ flagged \in [Layers -> BOOLEAN]
    /\ returned = [i \in 1..(Depth + 1) |-> ""]
    /\ respCh = [i \in Layers |-> ""]
    /\ expired = [i \in Layers |-> FALSE]
    /\ following = [i \in Layers |-> "no"]
    /\ respond = "no"
    /\ initial = "" /\ followups = <<>> /\ overtaken = FALSE

HandlerReturns ==
    /\ returned[Depth + 1] = ""
    /\ \E resp \in Responses : returned' = [returned EXCEPT ![Depth + 1] = resp]
    /\ UNCHANGED <<flagged, respCh, expired, following, respond, initial, followups, overtaken>>

(* Deferrable's goroutine, once what is below has returned: flags are set   *)
(* on any response, and one without data gets some.                         *)
DeferrableGo(i) ==
    /\ returned[i + 1] # "" /\ respCh[i] = ""
    /\ respCh' = [respCh EXCEPT ![i] =
           IF returned[i + 1] = "nodata" /\ flagged[i] THEN "empty" ELSE returned[i + 1]]
    /\ UNCHANGED <<flagged, returned, expired, following, respond, initial, followups, overtaken>>

(* The time is over, or the handler called Defer on the ticket of the       *)
(* innermost layer.                                                         *)
Expire(i) ==
    /\ ~expired[i] /\ returned[i] = ""
    /\ expired' = [expired EXCEPT ![i] = TRUE]
    /\ UNCHANGED <<flagged, returned, respCh, following, respond, initial, followups, overtaken>>

LayerReturns(i, resp) ==
    /\ returned' = [returned EXCEPT ![i] = resp]
    /\ UNCHANGED <<flagged, respCh, respond, initial, followups, overtaken>>

(* The select: both cases may be ready.  A response taken off the channel   *)
(* is gone; cancel is deferred.                                             *)
DeferrableResponse(i) ==
    /\ returned[i] = "" /\ respCh[i] # ""
    /\ LayerReturns(i, respCh[i])
    /\ expired' = [expired EXCEPT ![i] = TRUE]
    /\ UNCHANGED following

DeferrableDefers_AndForgets(i) ==
    /\ returned[i] = "" /\ expired[i]
    /\ LayerReturns(i, "deferral")
    /\ following' = [following EXCEPT ![i] = IF respCh[i] = "" THEN "wait" ELSE "no"]
    /\ UNCHANGED expired

DeferrableDefers(i) ==
    /\ returned[i] = "" /\ expired[i]
    /\ LayerReturns(i, "deferral")
    /\ following' = [following EXCEPT ![i] = "wait"]
    /\ UNCHANGED expired

(* The goroutine left behind: nothing is posted for a nil response or one   *)
(* without data, and FollowUpInteraction refuses an empty message, which    *)
(* the data of an inner deferral is.                                        *)
FollowUp(i) ==
    /\ following[i] = "wait" /\ respCh[i] # ""
    /\ following' = [following EXCEPT ![i] = IF respCh[i] = "message" THEN "post" ELSE "end"]
    /\ UNCHANGED <<flagged, returned, respCh, expired, respond, initial, followups, overtaken>>

(* Session.AddInteractionHandler: RespondInteraction sends what the router  *)
(* returns.  It refuses an empty message if it is to be a new one (of type  *)
(* MessageInteractionWithSource), not an empty update or deferral.          *)
SendInitial ==
    /\ respond = "no" /\ returned[1] # ""
    /\ respond' \in CASE returned[1] = "nil" -> {"end"}
                      [] returned[1] = "empty" -> {"end", "post"}
                      [] OTHER -> {"post"}
    /\ UNCHANGED <<flagged, returned, respCh, expired, following, initial, followups, overtaken>>

-----------------------------------------------------------------------------
(* Discord.  A follow-up is refused as long as there is no initial          *)
(* response, and a second initial response always.                          *)

RespondArrives ==
    /\ respond = "post"
    /\ respond' = "end"
    /\ initial' = returned[1]
    /\ UNCHANGED <<flagged, returned, respCh, expired, following, followups, overtaken>>

FollowUpArrives(i) ==
    /\ following[i] = "post"
    /\ following' = [following EXCEPT ![i] = "end"]
    /\ IF initial = "" THEN overtaken' = TRUE /\ UNCHANGED followups
       ELSE followups' = Append(followups, respCh[i]) /\ UNCHANGED overtaken
    /\ UNCHANGED <<flagged, returned, respCh, expired, respond, initial>>

InteractionsNext ==
    \/ HandlerReturns \/ SendInitial \/ RespondArrives
    \/ \E i \in Layers :
           \/ DeferrableGo(i) \/ Expire(i) \/ DeferrableResponse(i) \/ DeferrableDefers(i)
           \/ FollowUp(i) \/ FollowUpArrives(i)
InteractionsSpec == InteractionsInit /\ [][InteractionsNext]_interactionVars

-----------------------------------------------------------------------------
Shown == (IF initial = "message" THEN 1 ELSE 0) + Len(followups)

(* Nothing is left to do.                                                   *)
Settled ==
    /\ returned[Depth + 1] # "" /\ respond = "end"
    /\ \A i \in Layers : returned[i] # "" /\ respCh[i] # "" /\ following[i] \in {"no", "end"}

(* The message a handler returns is shown once, as the initial response or  *)
(* as a follow-up to the deferral, whichever of the handler and the         *)
(* time-outs of the layers is faster; a follow-up that overtakes the        *)
(* deferral is the one way to lose it.                                      *)
AnsweredOnce ==
    /\ Shown <= 1
    /\ Settled /\ returned[Depth + 1] = "message" /\ ~overtaken => Shown = 1

(* A follow-up never reaches Discord before the deferral it follows.        *)
NeverOvertakes == ~overtaken
=============================================================================
