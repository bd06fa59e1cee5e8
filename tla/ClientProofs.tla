---------------------------- MODULE ClientProofs ----------------------------
(***************************************************************************)
(* Theorems about the parts of ClientMC other than sessions: why the        *)
(* message a handler returns is shown once, whatever middlewares defer, why *)
(* permissions and colors are what Discord's rules give, why the calls that *)
(* ask for pages bring all of a list that changes meanwhile, why the bot    *)
(* framework calls each handler after its middlewares and runs the command  *)
(* a message means, and why the command router finds the handler that was   *)
(* registered for an interaction.                                           *)
(***************************************************************************)
EXTENDS BotContext, CommandRouter, Interactions, MemberPermissions, Pages, FiniteSetTheorems,
        SequenceTheorems, WellFoundedInduction, TLAPS

-----------------------------------------------------------------------------
(* Interactions: the inductive invariant.                                   *)

Values == {""} \cup Responses \cup {"deferral"}
AnswerTypes ==
    /\ flagged \in [Layers -> BOOLEAN] /\ expired \in [Layers -> BOOLEAN]
    /\ returned \in [1..(Depth + 1) -> Values]
    /\ respCh \in [Layers -> Values]
    /\ following \in [Layers -> {"no", "wait", "post", "end"}]
    /\ respond \in {"no", "post", "end"} /\ initial \in Values
    /\ followups \in {<<>>, <<"message">>} /\ overtaken \in BOOLEAN

(* A message that has come up to a layer has passed all those below it.     *)
Upward ==
    \A i \in Layers :
        /\ returned[i] = "message" => respCh[i] = "message"
        /\ \A j \in Layers : i < j /\ respCh[i] = "message" => returned[j] = "message"

(* A layer that has deferred by itself has left a goroutine behind.         *)
LeftAt(i) ==
    /\ following[i] # "no" => returned[i] = "deferral"
    /\ returned[i] = "deferral" /\ respCh[i] # "deferral" => following[i] # "no"
    /\ following[i] = "post" => respCh[i] = "message"
    /\ following[i] = "end" => respCh[i] # ""
LeftBehind == \A i \in Layers : LeftAt(i)

(* As long as the handler returns nothing but a message, what comes up is   *)
(* the message, or some layer below has deferred and waits for it or has    *)
(* it.                                                                      *)
Keeps(k) == returned[k] = "deferral" /\ respCh[k] \in {"", "message"}
KeptBelow(i) == \E k \in Layers : k >= i /\ Keeps(k)
MayAnswer == returned[Depth + 1] \in {"", "message"}
Carried ==
    MayAnswer =>
        /\ \A i \in 1..(Depth + 1) : returned[i] \in {"", "message"} \/ KeptBelow(i)
        /\ \A i \in Layers : respCh[i] \in {"", "message"} \/ KeptBelow(i + 1)

(* The follow-ups Discord has are those that the goroutines have posted.    *)
Followed(k) == following[k] = "end" /\ respCh[k] = "message"
Posted ==
    /\ followups # <<>> => \E k \in Layers : Followed(k)
    /\ \A k \in Layers : Followed(k) => overtaken \/ followups # <<>>

Responded ==
    /\ initial # "" => initial = returned[1] /\ respond = "end"
    /\ respond # "no" => returned[1] # ""
    /\ respond = "end" => initial = returned[1] \/ returned[1] \in {"nil", "empty"}

AnswerInv == AnswerTypes /\ Upward /\ LeftBehind /\ Carried /\ Posted /\ Responded

(* Two layers that have deferred cannot both have the message.              *)
LEMMA OneKeeper ==
  ASSUME AnswerInv, NEW i \in Layers, NEW j \in Layers,
         respCh[i] = "message", returned[i] = "deferral",
         respCh[j] = "message", returned[j] = "deferral"
  PROVE  i = j
  BY DepthAssumption DEF AnswerInv, Upward, Layers

LEMMA LayersIn == Layers \subseteq Int /\ Layers \subseteq 1..(Depth + 1)
  BY DepthAssumption DEF Layers

LEMMA LayersEnd ==
  /\ 1 \in 1..(Depth + 1) /\ Depth + 1 \in 1..(Depth + 1)
  /\ \A i \in Layers : i # Depth + 1 /\ i >= i /\ \A k \in Layers : k >= i + 1 => k >= i
  BY DepthAssumption DEF Layers

LEMMA AnswerInit == InteractionsInit => AnswerInv
  <1> SUFFICES ASSUME InteractionsInit PROVE AnswerInv
    OBVIOUS
  <1>1. AnswerTypes
    BY DepthAssumption DEF InteractionsInit, AnswerTypes, Values
  <1>2. /\ \A i \in 1..(Depth + 1) : returned[i] = ""
        /\ \A i \in Layers : returned[i] = "" /\ respCh[i] = "" /\ following[i] = "no"
    BY LayersIn DEF InteractionsInit
  <1>3. Upward /\ LeftBehind /\ Carried
    BY <1>2 DEF Upward, LeftBehind, LeftAt, Carried
  <1>4. Posted /\ Responded
    BY <1>2 DEF InteractionsInit, Posted, Followed, Responded
  <1> QED BY <1>1, <1>3, <1>4 DEF AnswerInv

(* The handler returns.                                                     *)
LEMMA AnswerHandler ==
  ASSUME AnswerInv, HandlerReturns
  PROVE  AnswerInv'
  <1>1. PICK resp \in Responses : returned' = [returned EXCEPT ![Depth + 1] = resp]
    BY DEF HandlerReturns
  <1>2. /\ returned[Depth + 1] = ""
        /\ UNCHANGED <<flagged, respCh, expired, following, respond, initial, followups, overtaken>>
    BY DEF HandlerReturns
  <1>3. \A i \in Layers : returned'[i] = returned[i] /\ i \in 1..(Depth + 1)
    BY <1>1, DepthAssumption DEF AnswerInv, AnswerTypes, Layers
  <1>4. returned'[Depth + 1] = resp /\ resp # "deferral" /\ resp # ""
    <2>1. Depth + 1 \in 1..(Depth + 1)
      BY DepthAssumption
    <2> QED BY <1>1, <2>1 DEF AnswerInv, AnswerTypes, Responses
  <1>5. AnswerTypes'
    BY <1>1, <1>2 DEF AnswerInv, AnswerTypes, Values
  <1>6. Upward' /\ LeftBehind'
    BY <1>2, <1>3 DEF AnswerInv, Upward, LeftBehind, LeftAt
  <1>7. Carried'
    <2> SUFFICES ASSUME resp = "message"
                 PROVE  Carried'
      BY <1>4 DEF Carried, MayAnswer, Responses
    <2>1. \A k \in Layers : Keeps(k)' <=> Keeps(k)
      BY <1>2, <1>3 DEF Keeps
    <2>2. \A i \in 1..(Depth + 1) : i \in Layers \/ i = Depth + 1
      BY DepthAssumption DEF Layers
    <2>3. \A i : KeptBelow(i)' <=> KeptBelow(i)
      BY <2>1 DEF KeptBelow
    <2> QED BY <1>2, <1>3, <1>4, <2>2, <2>3 DEF AnswerInv, Carried, MayAnswer
  <1>8. Posted'
    BY <1>2 DEF AnswerInv, Posted, Followed
  <1>9. Responded'
    <2>1. 1 \in Layers \/ 1 = Depth + 1
      BY DepthAssumption DEF Layers
    <2> QED BY <1>2, <1>3, <1>4, <2>1 DEF AnswerInv, Responded
  <1> QED BY <1>5, <1>6, <1>7, <1>8, <1>9 DEF AnswerInv

(* What is below layer i has returned.                                      *)
LEMMA AnswerGo ==
  ASSUME AnswerInv, NEW i \in Layers, DeferrableGo(i)
  PROVE  AnswerInv'
  <1> DEFINE v == respCh'[i]
  <1>1. /\ returned[i + 1] # "" /\ respCh[i] = ""
        /\ respCh' = [respCh EXCEPT ![i] = v]
        /\ v = IF returned[i + 1] = "nodata" /\ flagged[i] THEN "empty" ELSE returned[i + 1]
        /\ UNCHANGED <<flagged, returned, expired, following, respond, initial, followups, overtaken>>
    BY DEF DeferrableGo, AnswerInv, AnswerTypes
  <1>2. i + 1 \in 1..(Depth + 1) /\ (i + 1 \in Layers \/ i + 1 = Depth + 1)
    BY DepthAssumption DEF Layers
  <1>3. /\ v \in Values /\ v # "" /\ (v = "message" <=> returned[i + 1] = "message")
        /\ (v = "deferral" <=> returned[i + 1] = "deferral")
    BY <1>1, <1>2 DEF AnswerInv, AnswerTypes, Values, Responses
  <1>4. \A j \in Layers : j # i => respCh'[j] = respCh[j]
    BY <1>1 DEF AnswerInv, AnswerTypes
  <1> HIDE DEF v
  <1>5. respCh'[i] = v
    BY <1>1 DEF AnswerInv, AnswerTypes
  <1>6. AnswerTypes'
    BY <1>1, <1>3 DEF AnswerInv, AnswerTypes
  <1>7. Upward'
    <2>1. returned[i] # "message"
      BY <1>1 DEF AnswerInv, Upward
    <2>2. ASSUME NEW j \in Layers, i < j, v = "message"
          PROVE  returned[j] = "message"
      <3>1. returned[i + 1] = "message" /\ i + 1 \in Layers /\ (j = i + 1 \/ i + 1 < j)
        BY <1>2, <1>3, <2>2, DepthAssumption DEF Layers
      <3>2. respCh[i + 1] = "message"
        BY <3>1 DEF AnswerInv, Upward
      <3> QED BY <3>1, <3>2 DEF AnswerInv, Upward
    <2>3. ASSUME NEW j \in Layers
          PROVE  /\ returned[j] = "message" => respCh'[j] = "message"
                 /\ \A k \in Layers : j < k /\ respCh'[j] = "message" => returned[k] = "message"
      <3>1. CASE j = i
        BY <1>5, <2>1, <2>2, <3>1
      <3>2. CASE j # i
        BY <1>4, <3>2 DEF AnswerInv, Upward
      <3> QED BY <3>1, <3>2
    <2> QED BY <1>1, <2>3 DEF Upward
  <1>8. LeftBehind'
    <2> SUFFICES ASSUME NEW j \in Layers PROVE LeftAt(j)'
      BY DEF LeftBehind
    <2>1. LeftAt(j)
      BY DEF AnswerInv, LeftBehind
    <2>2. returned'[j] = returned[j] /\ following'[j] = following[j]
      BY <1>1
    <2>3. CASE j = i
      BY <1>1, <1>3, <1>5, <2>1, <2>2, <2>3 DEF LeftAt
    <2>4. CASE j # i
      BY <1>4, <2>1, <2>2, <2>4 DEF LeftAt
    <2> QED BY <2>3, <2>4
  <1>9. Carried'
    <2> SUFFICES ASSUME MayAnswer
                 PROVE  /\ \A j \in 1..(Depth + 1) :
                               returned[j] \in {"", "message"} \/ KeptBelow(j)'
                        /\ \A j \in Layers :
                               respCh'[j] \in {"", "message"} \/ KeptBelow(j + 1)'
      BY <1>1 DEF Carried, MayAnswer
    <2>1. v = "message" \/ KeptBelow(i + 1)
      BY <1>1, <1>2, <1>3 DEF AnswerInv, Carried
    <2>2. \A k \in Layers : k # i /\ Keeps(k) => Keeps(k)'
      BY <1>1, <1>4 DEF Keeps
    <2>3. i \in Int /\ \A k \in Layers : k \in Int
      BY DepthAssumption DEF Layers
    <2>4. ASSUME NEW j \in Int, KeptBelow(j)
          PROVE  KeptBelow(j)'
      <3>1. PICK k \in Layers : k >= j /\ Keeps(k)
        BY <2>4 DEF KeptBelow
      <3>2. CASE k # i
        BY <2>2, <3>1, <3>2 DEF KeptBelow
      <3>3. CASE k = i /\ v = "message"
        <4>1. Keeps(i)'
          BY <1>1, <1>5, <3>1, <3>3 DEF Keeps
        <4> QED BY <3>1, <3>3, <4>1 DEF KeptBelow
      <3>4. CASE k = i /\ KeptBelow(i + 1)
        <4>1. PICK l \in Layers : l >= i + 1 /\ Keeps(l)
          BY <3>4 DEF KeptBelow
        <4>2. l # i /\ l >= j
          BY <2>3, <3>1, <3>4, <4>1
        <4> QED BY <2>2, <4>1, <4>2 DEF KeptBelow
      <3> QED BY <2>1, <3>2, <3>3, <3>4
    <2>5. ASSUME NEW j \in Layers
          PROVE  respCh'[j] \in {"", "message"} \/ KeptBelow(j + 1)'
      <3>1. j + 1 \in Int
        BY <2>3
      <3>2. CASE j = i
        BY <1>5, <2>1, <2>4, <3>1, <3>2
      <3>3. CASE j # i
        BY <1>4, <2>4, <3>1, <3>3 DEF AnswerInv, Carried
      <3> QED BY <3>2, <3>3
    <2>6. \A j \in 1..(Depth + 1) : j \in Int
      BY DepthAssumption
    <2> QED BY <2>4, <2>5, <2>6 DEF AnswerInv, Carried
  <1>10. Posted'
    <2>1. following[i] # "end"
      BY <1>1 DEF AnswerInv, LeftBehind, LeftAt
    <2>2. \A k \in Layers : Followed(k)' <=> Followed(k)
      BY <1>1, <1>4, <2>1 DEF Followed
    <2> QED BY <1>1, <2>2 DEF AnswerInv, Posted
  <1>11. Responded'
    BY <1>1 DEF AnswerInv, Responded
  <1> QED BY <1>6, <1>7, <1>8, <1>9, <1>10, <1>11 DEF AnswerInv

(* Layer i returns, the response or a deferral.                             *)
LEMMA AnswerReturns ==
  ASSUME AnswerInv, NEW i \in Layers, NEW resp \in Values, returned[i] = "", resp # "",
         returned' = [returned EXCEPT ![i] = resp],
         \/ resp = respCh[i] /\ following' = following
         \/ resp = "deferral" /\ following' = [following EXCEPT ![i] = "wait"],
         UNCHANGED <<flagged, respCh, respond, initial, followups, overtaken>>,
         expired' \in [Layers -> BOOLEAN]
  PROVE  AnswerInv'
  <1>1. /\ returned'[i] = resp
        /\ \A j \in 1..(Depth + 1) : j # i => returned'[j] = returned[j]
        /\ \A j \in Layers : j # i => returned'[j] = returned[j]
    BY LayersIn DEF AnswerInv, AnswerTypes
  <1>2. /\ following[i] = "no"
        /\ \/ following'[i] = "no" /\ resp = respCh[i]
           \/ following'[i] = "wait" /\ resp = "deferral"
        /\ \A j \in Layers : j # i => following'[j] = following[j]
    BY DEF AnswerInv, AnswerTypes, LeftBehind, LeftAt
  <1>3. AnswerTypes'
    BY DEF AnswerInv, AnswerTypes
  <1>4. Upward'
    <2>1. resp = "message" => respCh[i] = "message"
      OBVIOUS
    <2> QED BY <1>1, <2>1 DEF AnswerInv, Upward
  <1>5. LeftBehind'
    <2>1. /\ following'[i] # "no" => resp = "deferral"
          /\ resp = "deferral" /\ respCh[i] # "deferral" => following'[i] # "no"
          /\ following'[i] \in {"no", "wait"}
      BY <1>2
    <2>2. \A j \in Layers : j # i =>
              returned'[j] = returned[j] /\ following'[j] = following[j] /\ respCh'[j] = respCh[j]
      BY <1>1, <1>2
    <2> SUFFICES ASSUME NEW j \in Layers PROVE LeftAt(j)'
      BY DEF LeftBehind
    <2>3. LeftAt(j)
      BY DEF AnswerInv, LeftBehind
    <2>4. CASE j = i
      BY <1>1, <2>1, <2>4 DEF LeftAt
    <2>5. CASE j # i
      BY <2>2, <2>3, <2>5 DEF LeftAt
    <2> QED BY <2>4, <2>5
  <1>6. Carried'
    <2>1. MayAnswer' = MayAnswer
      <3>1. Depth + 1 \in 1..(Depth + 1) /\ i # Depth + 1
        BY LayersEnd, Zenon
      <3> QED BY <1>1, <3>1 DEF MayAnswer
    <2>2. \A k \in Layers : Keeps(k) => k # i /\ Keeps(k)'
      BY <1>1 DEF Keeps
    <2>3. \A j : KeptBelow(j) => KeptBelow(j)'
      BY <2>2 DEF KeptBelow
    <2>4. ASSUME MayAnswer
          PROVE  resp = "message" \/ KeptBelow(i)'
      <3>1. CASE respCh[i] \in {"", "message"} /\ resp # "message"
        <4>1. Keeps(i)'
          BY <1>1, <3>1 DEF Keeps
        <4>2. i >= i
          BY LayersEnd, Zenon
        <4> QED BY <4>1, <4>2 DEF KeptBelow
      <3>2. CASE respCh[i] \notin {"", "message"}
        <4>1. KeptBelow(i + 1)
          BY <2>4, <3>2 DEF AnswerInv, Carried
        <4>2. PICK k \in Layers : k >= i + 1 /\ Keeps(k)
          BY <4>1 DEF KeptBelow
        <4>3. k >= i
          BY <4>2, LayersEnd, Zenon
        <4> QED BY <2>2, <4>2, <4>3 DEF KeptBelow
      <3> QED BY <3>1, <3>2
    <2> QED BY <1>1, <2>1, <2>3, <2>4 DEF AnswerInv, Carried
  <1>7. Posted'
    <2>1. \A k \in Layers : Followed(k)' <=> Followed(k)
      BY <1>2 DEF Followed
    <2> QED BY <2>1 DEF AnswerInv, Posted
  <1>8. Responded'
    <2>1. 1 \in 1..(Depth + 1)
      BY LayersEnd, Zenon
    <2> QED BY <1>1, <2>1 DEF AnswerInv, Responded
  <1> QED BY <1>3, <1>4, <1>5, <1>6, <1>7, <1>8 DEF AnswerInv

(* Time alone changes nothing.                                              *)
LEMMA AnswerExpire ==
  ASSUME AnswerInv, expired' \in [Layers -> BOOLEAN],
         UNCHANGED <<flagged, returned, respCh, following, respond, initial, followups, overtaken>>
  PROVE  AnswerInv'
  <1>1. AnswerTypes'
    BY DEF AnswerInv, AnswerTypes
  <1>2. Upward' /\ Responded'
    BY DEF AnswerInv, Upward, Responded
  <1>3. LeftBehind' /\ Posted'
    BY DEF AnswerInv, LeftBehind, LeftAt, Posted, Followed
  <1>4. Carried'
    BY DEF AnswerInv, Carried, MayAnswer, KeptBelow, Keeps
  <1> QED BY <1>1, <1>2, <1>3, <1>4 DEF AnswerInv

LEMMA AnswerLayer ==
  ASSUME AnswerInv, NEW i \in Layers,
         Expire(i) \/ DeferrableResponse(i) \/ DeferrableDefers(i)
  PROVE  AnswerInv'
  <1>1. CASE Expire(i)
    <2>1. expired' \in [Layers -> BOOLEAN]
      BY <1>1 DEF Expire, AnswerInv, AnswerTypes
    <2> QED BY <1>1, <2>1, AnswerExpire DEF Expire
  <1>2. CASE DeferrableResponse(i)
    <2>1. respCh[i] \in Values /\ respCh[i] # "" /\ returned[i] = ""
      BY <1>2 DEF DeferrableResponse, AnswerInv, AnswerTypes
    <2>2. expired' \in [Layers -> BOOLEAN]
      BY <1>2 DEF DeferrableResponse, AnswerInv, AnswerTypes
    <2> QED BY <1>2, <2>1, <2>2, AnswerReturns DEF DeferrableResponse, LayerReturns
  <1>3. CASE DeferrableDefers(i)
    <2>1. "deferral" \in Values /\ returned[i] = ""
      BY <1>3 DEF DeferrableDefers, Values
    <2>2. expired' \in [Layers -> BOOLEAN]
      BY <1>3 DEF DeferrableDefers, AnswerInv, AnswerTypes
    <2> QED BY <1>3, <2>1, <2>2, AnswerReturns DEF DeferrableDefers, LayerReturns
  <1> QED BY <1>1, <1>2, <1>3

LEMMA AnswerFollowUp ==
  ASSUME AnswerInv, NEW i \in Layers, FollowUp(i) \/ FollowUpArrives(i)
  PROVE  AnswerInv'
  <1>1. /\ UNCHANGED <<flagged, returned, respCh, expired, respond, initial>>
        /\ following[i] \in {"wait", "post"} /\ respCh[i] # ""
        /\ following' = [following EXCEPT ![i] = following'[i]]
        /\ following'[i] \in {"post", "end"}
        /\ following'[i] = "post" => respCh[i] = "message"
    BY DEF FollowUp, FollowUpArrives, AnswerInv, AnswerTypes, LeftBehind, LeftAt
  <1>2. \A j \in Layers : j # i => following'[j] = following[j]
    BY <1>1 DEF AnswerInv, AnswerTypes
  <1>3. Upward' /\ Carried' /\ Responded'
    BY <1>1 DEF AnswerInv, Upward, Carried, MayAnswer, KeptBelow, Keeps, Responded
  <1>4. LeftBehind'
    BY <1>1, <1>2 DEF AnswerInv, LeftBehind, LeftAt
  <1>5. following' \in [Layers -> {"no", "wait", "post", "end"}]
    BY <1>1 DEF AnswerInv, AnswerTypes
  <1>6. CASE FollowUp(i)
    <2>1. followups' = followups /\ overtaken' = overtaken
      BY <1>6 DEF FollowUp
    <2>2. ~Followed(i) /\ ~Followed(i)'
      BY <1>1, <1>6 DEF Followed, FollowUp, AnswerInv, AnswerTypes
    <2>3. \A k \in Layers : Followed(k)' <=> Followed(k)
      BY <1>1, <1>2, <2>2 DEF Followed
    <2>4. Posted'
      BY <2>1, <2>3 DEF AnswerInv, Posted
    <2>5. AnswerTypes'
      BY <1>1, <1>5, <2>1 DEF AnswerInv, AnswerTypes
    <2> QED BY <1>3, <1>4, <2>4, <2>5 DEF AnswerInv
  <1>7. CASE FollowUpArrives(i)
    <2>1. /\ following[i] = "post" /\ following'[i] = "end" /\ respCh[i] = "message"
          /\ returned[i] = "deferral"
          /\ \/ overtaken' = TRUE /\ followups' = followups
             \/ followups' = Append(followups, respCh[i]) /\ overtaken' = overtaken
      BY <1>7 DEF FollowUpArrives, AnswerInv, AnswerTypes, LeftBehind, LeftAt
    <2>2. Followed(i)' /\ ~Followed(i)
      BY <1>1, <2>1 DEF Followed
    <2>3. \A k \in Layers : k # i => (Followed(k)' <=> Followed(k))
      BY <1>1, <1>2 DEF Followed
    <2>4. followups = <<>>
      <3> SUFFICES ASSUME followups # <<>> PROVE FALSE
        OBVIOUS
      <3>1. PICK k \in Layers : Followed(k)
        BY DEF AnswerInv, Posted
      <3>2. respCh[k] = "message" /\ returned[k] = "deferral"
        BY <3>1 DEF Followed, AnswerInv, LeftBehind, LeftAt
      <3> QED BY <2>1, <2>2, <3>1, <3>2, OneKeeper
    <2>5. \/ followups' = <<>> /\ overtaken' = TRUE
          \/ followups' = <<"message">> /\ overtaken' = overtaken
      <3>1. Append(<<>>, "message") = <<"message">>
        OBVIOUS
      <3> QED BY <2>1, <2>4, <3>1, Zenon
    <2>6. \A k \in Layers : Followed(k) => overtaken
      BY <2>4 DEF AnswerInv, Posted
    <2>7. followups' # <<>> => followups' = <<"message">>
      BY <2>5
    <2>8. <<"message">> # <<>>
      OBVIOUS
    <2>9. Posted'
      BY <2>2, <2>5, <2>8 DEF Posted
    <2>10. AnswerTypes'
      BY <1>1, <1>5, <2>5 DEF AnswerInv, AnswerTypes
    <2> QED BY <1>3, <1>4, <2>9, <2>10 DEF AnswerInv
  <1> QED BY <1>6, <1>7

LEMMA AnswerRespond ==
  ASSUME AnswerInv, SendInitial \/ RespondArrives
  PROVE  AnswerInv'
  <1>1. UNCHANGED <<flagged, returned, respCh, expired, following, followups, overtaken>>
    BY DEF SendInitial, RespondArrives
  <1>2. returned[1] \in Values
    BY DepthAssumption DEF AnswerInv, AnswerTypes
  <1>3. AnswerTypes'
    BY <1>1, <1>2 DEF SendInitial, RespondArrives, AnswerInv, AnswerTypes
  <1>4. Upward' /\ LeftBehind' /\ Carried' /\ Posted'
    BY <1>1 DEF AnswerInv, Upward, LeftBehind, LeftAt, Carried, MayAnswer, KeptBelow, Keeps, Posted, Followed
  <1>5. Responded'
    BY <1>1 DEF SendInitial, RespondArrives, AnswerInv, Responded
  <1> QED BY <1>3, <1>4, <1>5 DEF AnswerInv

LEMMA AnswerStep ==
  ASSUME AnswerInv, [InteractionsNext]_interactionVars
  PROVE  AnswerInv'
  <1>1. CASE UNCHANGED interactionVars
    BY <1>1, AnswerExpire DEF interactionVars, AnswerInv, AnswerTypes
  <1> QED BY <1>1, AnswerHandler, AnswerGo, AnswerLayer, AnswerFollowUp, AnswerRespond
          DEF InteractionsNext

LEMMA AnsweredBy == AnswerInv => AnsweredOnce
  <1> SUFFICES ASSUME AnswerInv PROVE AnsweredOnce
    OBVIOUS
  <1>1. initial = "message" => \A k \in Layers : ~Followed(k)
    <2> SUFFICES ASSUME initial = "message", NEW k \in Layers, Followed(k)
                 PROVE  FALSE
      OBVIOUS
    <2>1. returned[1] = "message" /\ returned[k] = "deferral"
      BY DEF AnswerInv, Responded, LeftBehind, LeftAt, Followed
    <2>2. 1 \in Layers /\ (k = 1 \/ 1 < k)
      BY DepthAssumption DEF Layers
    <2> QED BY <2>1, <2>2 DEF AnswerInv, Upward
  <1>2. initial = "message" => followups = <<>>
    BY <1>1 DEF AnswerInv, Posted
  <1>3. Len(followups) = IF followups = <<>> THEN 0 ELSE 1
    BY DEF AnswerInv, AnswerTypes
  <1>4. Shown <= 1
    BY <1>2, <1>3 DEF Shown
  <1>5. ASSUME Settled, returned[Depth + 1] = "message", ~overtaken
        PROVE  Shown = 1
    <2>1. 1 \in 1..(Depth + 1) /\ returned[1] # ""
      <3>1. 1 \in Layers \/ 1 = Depth + 1
        BY DepthAssumption DEF Layers
      <3> QED BY <1>5, <3>1, LayersEnd DEF Settled
    <2>2. CASE returned[1] = "message"
      <3>1. initial = "message"
        BY <1>5, <2>2 DEF Settled, AnswerInv, Responded
      <3> QED BY <1>2, <1>3, <3>1 DEF Shown
    <2>3. CASE KeptBelow(1)
      <3>1. PICK k \in Layers : Keeps(k)
        BY <2>3 DEF KeptBelow
      <3>2. respCh[k] = "message" /\ following[k] = "end"
        BY <1>5, <3>1 DEF Keeps, Settled, AnswerInv, LeftBehind, LeftAt
      <3>3. followups # <<>>
        BY <1>5, <3>2 DEF Followed, AnswerInv, Posted
      <3> QED BY <1>2, <1>3, <3>3 DEF Shown
    <2> QED BY <1>5, <2>1, <2>2, <2>3 DEF AnswerInv, Carried, MayAnswer
  <1> QED BY <1>4, <1>5 DEF AnsweredOnce

(* Through any number of middlewares, the message a handler returns is      *)
(* shown once, as the response or as a follow-up of the innermost layer     *)
(* that deferred, unless the follow-up overtakes the deferral.              *)
THEOREM MessagesAnsweredOnce == InteractionsSpec => []AnsweredOnce
  <1>1. InteractionsInit => AnswerInv
    BY AnswerInit
  <1>2. AnswerInv /\ [InteractionsNext]_interactionVars => AnswerInv'
    BY AnswerStep
  <1>3. AnswerInv => AnsweredOnce
    BY AnsweredBy
  <1> QED BY <1>1, <1>2, <1>3, PTL DEF InteractionsSpec
-----------------------------------------------------------------------------
(* Induction over the naturals, and the loops that are recursive functions. *)

LEMMA Least ==
  ASSUME NEW T, T \subseteq Nat, T # {}
  PROVE  \E x \in T : \A y \in T : x <= y
  <1>1. \E x \in T : \A y \in T : ~(<<y, x>> \in OpToRel(<, Nat))
    BY NatLessThanWellFounded, WFMin
  <1>2. \A x, y \in Nat : ~(<<y, x>> \in OpToRel(<, Nat)) => x <= y
    <2>1. \A x, y \in Nat : y < x => <<y, x>> \in OpToRel(<, Nat)
      BY DEF OpToRel
    <2>2. \A x, y \in Nat : y < x \/ x <= y
      OBVIOUS
    <2> QED BY <2>1, <2>2, Zenon
  <1> QED BY <1>1, <1>2, Zenon

LEMMA UpFromZero ==
  ASSUME NEW G, 0 \in G, \A n \in Nat : n \in G => n + 1 \in G
  PROVE  Nat \subseteq G
  <1> SUFFICES ASSUME Nat \ G # {}
               PROVE  FALSE
    OBVIOUS
  <1>1. PICK x \in Nat \ G : \A y \in Nat \ G : x <= y
    BY Least
  <1>2. x # 0 /\ x - 1 \in Nat /\ x - 1 \in G
    BY <1>1
  <1>3. (x - 1) + 1 \in G
    BY <1>2
  <1> QED BY <1>1, <1>3

(* What a loop has after each of its turns is a function.                   *)
Runs(f, X, N, b, turn) ==
    /\ f \in [0..N -> X]
    /\ \A n \in 0..N : f[n] = IF n = 0 THEN b ELSE turn[<<n, f[n - 1]>>]

LEMMA Loop ==
  ASSUME NEW X, NEW b \in X, NEW N \in Nat, NEW turn \in [(1..N) \X X -> X]
  PROVE  \E f : Runs(f, X, N, b, turn)
  <1> DEFINE After(m, f) ==
                 /\ f \in [0..N -> X]
                 /\ \A n \in 0..m : f[n] = IF n = 0 THEN b ELSE turn[<<n, f[n - 1]>>]
             G == {m \in Nat : m <= N => \E f : After(m, f)}
  <1>1. 0 \in G
    <2>1. After(0, [n \in 0..N |-> b])
      OBVIOUS
    <2> QED BY <2>1
  <1>2. ASSUME NEW m \in Nat, m \in G
        PROVE  m + 1 \in G
    <2> SUFFICES ASSUME m + 1 <= N
                 PROVE  \E f : After(m + 1, f)
      OBVIOUS
    <2>1. PICK f : After(m, f)
      BY <1>2
    <2> DEFINE h == [f EXCEPT ![m + 1] = turn[<<m + 1, f[m]>>]]
    <2>2. /\ m + 1 \in 0..N /\ m \in 0..N /\ m + 1 \in 1..N /\ (m + 1) - 1 = m /\ m + 1 # 0
          /\ \A n \in 0..(m + 1) : n = m + 1 \/ n \in 0..m
          /\ \A n \in 0..m : n = 0 \/ n - 1 \in 0..m
      OBVIOUS
    <2>3. turn[<<m + 1, f[m]>>] \in X
      BY <2>1, <2>2
    <2>4. h \in [0..N -> X] /\ h[m + 1] = turn[<<m + 1, f[m]>>] /\ \A n \in 0..m : h[n] = f[n]
      BY <2>1, <2>2, <2>3
    <2> HIDE DEF h
    <2>5. \A n \in 0..m : h[n] = IF n = 0 THEN b ELSE turn[<<n, h[n - 1]>>]
      BY <2>1, <2>2, <2>4
    <2>6. h[m + 1] = turn[<<m + 1, h[(m + 1) - 1]>>]
      <3>1. h[(m + 1) - 1] = f[m]
        BY <2>2, <2>4
      <3> QED BY <2>4, <3>1
    <2>7. After(m + 1, h)
      <3>1. \A n \in 0..(m + 1) : h[n] = IF n = 0 THEN b ELSE turn[<<n, h[n - 1]>>]
        BY <2>2, <2>5, <2>6, Zenon
      <3> QED BY <2>4, <3>1
    <2> QED BY <2>7
  <1> HIDE DEF G
  <1>3. N \in G
    BY <1>1, <1>2, UpFromZero
  <1> QED BY <1>3 DEF G, Runs

-----------------------------------------------------------------------------
(* MemberPermissions: the color of a member.                                *)

NoLook == [color |-> 0, position |-> -1]
Best(best, looks) ==
    best = [n \in 0..Len(looks) |-> IF n = 0 THEN NoLook ELSE Higher(best[n - 1], looks[n])]

(* After m roles the loop has the highest of them with a color, if any.     *)
Highest(look, looks, m) ==
    \/ look = NoLook /\ \A k \in 1..m : looks[k].color = 0
    \/ \E k \in 1..m : /\ look = looks[k] /\ look.color > 0
                       /\ \A l \in 1..m : looks[l].color > 0 => looks[l].position <= look.position

LEMMA HighestNext ==
  ASSUME NEW N \in Nat, NEW looks \in [1..N -> LooksOf], NEW m \in Nat, m + 1 <= N,
         NEW look, Highest(look, looks, m)
  PROVE  Highest(Higher(look, looks[m + 1]), looks, m + 1)
  <1> DEFINE r == looks[m + 1]
  <1>1. /\ \A k \in 1..N : looks[k].color \in Nat /\ looks[k].position \in Nat
        /\ m + 1 \in 1..N /\ m + 1 \in 1..(m + 1)
        /\ \A k \in 1..m : k \in 1..N /\ k \in 1..(m + 1)
        /\ \A k \in 1..(m + 1) : k = m + 1 \/ k \in 1..m
    BY PermissionsAssumption
  <1>2. CASE look = NoLook /\ \A k \in 1..m : looks[k].color = 0
    <2>1. NoLook.color = 0 /\ NoLook.position = -1
      BY DEF NoLook
    <2>2. CASE r.color = 0
      <3>1. Higher(look, r) = look
        BY <2>2 DEF Higher
      <3> QED BY <1>1, <1>2, <2>2, <3>1, Zenon DEF Highest
    <2>3. CASE r.color # 0
      <3>1. r.color > 0 /\ r.position > -1
        BY <1>1, <2>3
      <3>2. Higher(look, r) = r
        BY <1>2, <2>1, <3>1 DEF Higher
      <3>3. \A l \in 1..(m + 1) : looks[l].color > 0 => looks[l].position <= r.position
        <4>1. r.position <= r.position
          BY <1>1
        <4>2. ~(0 > 0)
          OBVIOUS
        <4> QED BY <1>1, <1>2, <4>1, <4>2, Zenon
      <3> QED BY <1>1, <3>1, <3>2, <3>3, Zenon DEF Highest
    <2> QED BY <2>2, <2>3
  <1>3. ASSUME NEW k \in 1..m, look = looks[k], look.color > 0,
               \A l \in 1..m : looks[l].color > 0 => looks[l].position <= look.position
        PROVE  Highest(Higher(look, r), looks, m + 1)
    <2>1. CASE r.color > 0 /\ r.position > look.position
      <3>1. ASSUME NEW l \in 1..(m + 1), looks[l].color > 0
            PROVE  looks[l].position <= r.position
        <4>1. CASE l = m + 1
          BY <1>1, <4>1
        <4>2. CASE l \in 1..m
          <5>1. looks[l].position <= look.position /\ looks[l].position \in Nat /\ look.position \in Nat
            BY <1>1, <1>3, <3>1, <4>2, Zenon
          <5>2. r.position \in Nat
            BY <1>1
          <5> QED BY <2>1, <5>1, <5>2
        <4> QED BY <1>1, <4>1, <4>2
      <3> QED BY <1>1, <2>1, <3>1 DEF Highest, Higher
    <2>2. CASE ~(r.color > 0 /\ r.position > look.position)
      <3>1. ASSUME NEW l \in 1..(m + 1), looks[l].color > 0
            PROVE  looks[l].position <= look.position
        <4>1. CASE l = m + 1
          <5>1. r.position \in Nat /\ look.position \in Nat /\ r.color > 0
            BY <1>1, <1>3, <3>1, <4>1, Zenon
          <5> QED BY <2>2, <4>1, <5>1
        <4>2. CASE l \in 1..m
          BY <1>3, <3>1, <4>2, Zenon
        <4> QED BY <1>1, <4>1, <4>2
      <3>2. Higher(look, r) = look
        BY <2>2 DEF Higher
      <3> QED BY <1>1, <1>3, <3>1, <3>2 DEF Highest
    <2> QED BY <2>1, <2>2
  <1> QED BY <1>2, <1>3 DEF Highest

LEMMA ColorIsHighest ==
  ASSUME NEW N \in Nat, NEW looks \in [1..N -> LooksOf]
  PROVE  Highest(MemberColor(looks), looks, N) /\ DOMAIN looks = 1..N
  <1> DEFINE X == [color : Nat, position : Int]
             turn == [p \in (1..N) \X X |-> Higher(p[2], looks[p[1]])]
  <1>1. NoLook \in X /\ \A k \in 1..N : looks[k] \in X
    BY PermissionsAssumption DEF NoLook
  <1>2. turn \in [(1..N) \X X -> X]
    BY <1>1 DEF Higher
  <1>3. Len(looks) = N
    BY LenProperties, SeqDef
  <1>4. PICK f : Runs(f, X, N, NoLook, turn)
    <2>1. NoLook \in X
      BY <1>1
    <2> HIDE DEF turn, X
    <2> QED BY <1>2, <2>1, Loop
  <1>5. \A n \in 0..N : f[n] = IF n = 0 THEN NoLook ELSE Higher(f[n - 1], looks[n])
    <2>1. \A n \in 1..N : n - 1 \in 0..N
      OBVIOUS
    <2>2. \A n \in 1..N : f[n - 1] \in X
      BY <1>4, <2>1 DEF Runs
    <2>3. \A n \in 1..N : turn[<<n, f[n - 1]>>] = Higher(f[n - 1], looks[n])
      BY <2>2
    <2>4. \A n \in 0..N : n = 0 \/ n \in 1..N
      OBVIOUS
    <2> HIDE DEF turn
    <2> QED BY <1>4, <2>3, <2>4 DEF Runs
  <1> HIDE DEF X, turn
  <1>6. Best(f, looks)
    BY <1>3, <1>4, <1>5 DEF Best, Runs
  <1>7. PICK h : Best(h, looks) /\ MemberColor(looks) = h[Len(looks)]
    BY <1>6, Zenon DEF Best, MemberColor, NoLook
  <1>8. h[0] = NoLook /\ \A m \in Nat : m + 1 <= N => h[m + 1] = Higher(h[m], looks[m + 1])
    <2>1. 0 \in 0..N /\ \A m \in Nat : m + 1 <= N => m + 1 \in 0..N /\ m + 1 # 0 /\ (m + 1) - 1 = m
      OBVIOUS
    <2> QED BY <1>3, <1>7, <2>1 DEF Best
  <1> DEFINE G == {m \in Nat : m <= N => Highest(h[m], looks, m)}
  <1>9. 0 \in G
    BY <1>8 DEF Highest
  <1>10. ASSUME NEW m \in Nat, m \in G
         PROVE  m + 1 \in G
    BY <1>8, <1>10, HighestNext
  <1> HIDE DEF G
  <1>11. N \in G
    BY <1>9, <1>10, UpFromZero
  <1> QED BY <1>3, <1>7, <1>11 DEF G
-----------------------------------------------------------------------------
(* CalcOverrides: what the overwrites say of one permission.                *)

Sole(overwrites) == \A i, j \in DOMAIN overwrites : overwrites[i].of = overwrites[j].of => i = j

LEMMA OverwritesSole ==
  ASSUME NEW ow \in OverwriteLists
  PROVE  /\ \E n \in Nat : DOMAIN ow = 1..n
         /\ Sole(ow)
         /\ \A k \in DOMAIN ow :
               "admin" \notin ow[k].allow /\ ow[k].allow \subseteq Bits /\ Disjoint(ow[k])
  <1>1. PICK n \in 0..MaxOverwrites : ow \in [1..n -> {o \in Overwrite : Disjoint(o)}]
    BY DEF OverwriteLists
  <1>2. \A o \in Overwrite : "admin" \notin o.allow /\ o.allow \subseteq Bits
    BY DEF Overwrite
  <1> QED BY <1>1, <1>2, PermissionsAssumption DEF OverwriteLists, Sole

(* The only one for somebody, which the loop finds, allows or denies.       *)
LEMMA OverSays ==
  ASSUME NEW ow \in OverwriteLists, NEW w, NEW perm, NEW b
  PROVE  b \in Over(perm, ow, For(ow, {w}))
           <=> Said(ow, {w}, "allow", b) \/ (b \in perm /\ ~Said(ow, {w}, "deny", b))
  <1>1. CASE For(ow, {w}) = {}
    BY <1>1 DEF Over, For, Said
  <1>2. ASSUME NEW k \in For(ow, {w})
        PROVE  b \in Over(perm, ow, For(ow, {w}))
                 <=> Said(ow, {w}, "allow", b) \/ (b \in perm /\ ~Said(ow, {w}, "deny", b))
    <2>1. k \in DOMAIN ow /\ ow[k].of = w /\ k \in Int /\ k <= k
      BY <1>2, OverwritesSole DEF For
    <2>2. \A l \in For(ow, {w}) : l = k
      BY <1>2, <2>1, OverwritesSole DEF For, Sole
    <2>3. (CHOOSE m \in For(ow, {w}) : \A l \in For(ow, {w}) : m <= l) = k
      BY <1>2, <2>1, <2>2, Zenon
    <2>4. Over(perm, ow, For(ow, {w})) = (perm \ ow[k].deny) \cup ow[k].allow
      BY <1>2, <2>3 DEF Over
    <2>5. \A how : Said(ow, {w}, how, b) <=> b \in ow[k][how]
      BY <2>1, <2>2 DEF Said, For
    <2> QED BY <2>4, <2>5
  <1> QED BY <1>1, <1>2

(* All of a member's roles are looked at together.                          *)
LEMMA AllSays ==
  ASSUME NEW ow, NEW who, NEW how, NEW b
  PROVE  b \in All(ow, For(ow, who), how) <=> Said(ow, who, how, b)
  BY DEF All, For, Said

Granted(granted, roles) == granted["everyone"] \cup UNION {granted[r] : r \in roles}

LEMMA GrantedIs ==
  ASSUME NEW granted \in [RoleIDs \cup {"everyone"} -> SUBSET Bits], NEW roles \in SUBSET RoleIDs
  PROVE  /\ \A b : b \in Granted(granted, roles) <=> \E r \in roles \cup {"everyone"} : b \in granted[r]
         /\ Granted(granted, roles) \subseteq Bits
  <1>1. \A r \in roles \cup {"everyone"} : granted[r] \subseteq Bits
    OBVIOUS
  <1> QED BY <1>1 DEF Granted

Due(p) == IF MayAll(p) THEN PermissionAll ELSE {b \in Bits : May(p, b)}

LEMMA OverridesAre ==
  ASSUME NEW owner \in BOOLEAN, NEW granted \in [RoleIDs \cup {"everyone"} -> SUBSET Bits],
         NEW roles \in SUBSET RoleIDs, NEW ow \in OverwriteLists,
         NEW p, p.owner = owner, p.granted = granted, p.roles = roles, p.overwrites = ow
  PROVE  CalcOverrides(owner, granted, roles, ow) = Due(p)
  <1> DEFINE base == Granted(granted, roles)
             general == Over(base, ow, For(ow, {"everyone"}))
             mine == For(ow, roles)
             forRoles == (general \ All(ow, mine, "deny")) \cup All(ow, mine, "allow")
             final == Over(forRoles, ow, For(ow, {"user"}))
             Says(who, how, b) == Said(ow, who, how, b)
  <1>1. CalcOverrides(owner, granted, roles, ow) =
          IF owner \/ "admin" \in base \/ "admin" \in final THEN PermissionAll ELSE final
    BY DEF CalcOverrides, Has, Granted
  <1>2. \A b : b \in general <=> Says({"everyone"}, "allow", b) \/ (b \in base /\ ~Says({"everyone"}, "deny", b))
    BY OverSays
  <1>3. \A b : b \in forRoles <=> Says(roles, "allow", b) \/ (b \in general /\ ~Says(roles, "deny", b))
    BY AllSays
  <1>4. \A b : b \in final <=> Says({"user"}, "allow", b) \/ (b \in forRoles /\ ~Says({"user"}, "deny", b))
    <2> HIDE DEF forRoles
    <2> QED BY OverSays
  <1>5. \A b : b \in base <=> \E r \in p.roles \cup {"everyone"} : b \in p.granted[r]
    BY GrantedIs
  <1> HIDE DEF base, general, mine, forRoles, final
  <1>6. ASSUME NEW b
        PROVE  b \in final <=> May(p, b)
    <2> DEFINE given == \E r \in p.roles \cup {"everyone"} : b \in p.granted[r]
    <2>1. b \in final <=>
            \/ Says({"user"}, "allow", b)
            \/ /\ ~Says({"user"}, "deny", b)
               /\ \/ Says(roles, "allow", b)
                  \/ /\ ~Says(roles, "deny", b)
                     /\ Says({"everyone"}, "allow", b) \/ (given /\ ~Says({"everyone"}, "deny", b))
      <3> HIDE DEF Says
      <3> QED BY <1>2, <1>3, <1>4, <1>5
    <2> HIDE DEF given
    <2>2. \A who, how : Said(p.overwrites, who, how, b) <=> Says(who, how, b)
      OBVIOUS
    <2> HIDE DEF Says
    <2>3. May(p, b) <=>
            \/ Says({"user"}, "allow", b)
            \/ /\ ~Says({"user"}, "deny", b)
               /\ \/ Says(roles, "allow", b)
                  \/ /\ ~Says(roles, "deny", b)
                     /\ Says({"everyone"}, "allow", b) \/ (given /\ ~Says({"everyone"}, "deny", b))
      <3>1. ~(Says({"everyone"}, "allow", b) /\ Says({"everyone"}, "deny", b))
        <4>1. \A k, l \in DOMAIN ow : ow[k].of \in {"everyone"} /\ ow[l].of \in {"everyone"} => k = l
          BY OverwritesSole DEF Sole
        <4> QED BY <4>1, OverwritesSole DEF Says, Said, Disjoint
      <3> QED BY <2>2, <3>1 DEF May, given
    <2> QED BY <2>1, <2>3
  <1>7. MayAll(p) <=> owner \/ "admin" \in base
    BY <1>5 DEF MayAll
  <1>8. "admin" \in final => "admin" \in base
    <2>1. \A who : ~Says(who, "allow", "admin")
      BY OverwritesSole DEF Said
    <2> QED BY <1>2, <1>3, <1>4, <2>1
  <1>9. final \subseteq Bits
    <2>1. \A who, b : Says(who, "allow", b) => b \in Bits
      BY OverwritesSole DEF Said
    <2>2. base \subseteq Bits
      BY GrantedIs DEF base
    <2> QED BY <1>2, <1>3, <1>4, <2>1, <2>2
  <1> QED BY <1>1, <1>6, <1>7, <1>8, <1>9 DEF Due
-----------------------------------------------------------------------------
(* State.Permissions: the inductive invariant.                              *)

PermissionTypes ==
    /\ stage \in {"start", "member", "guild", "more", "wait", "done"}
    /\ g \in BOOLEAN /\ gerr \in BOOLEAN /\ merr \in BOOLEAN /\ rerr \in BOOLEAN
    /\ fetching \in [Fetchers -> {"no", "ask", "g", "nil", "noerr", "err"}]

(* Unless the guild has been refused to somebody, whoever asks for it will  *)
(* bring it, and it is there once its error is gone.                        *)
GuildComes ==
    "guild" \notin refused =>
        /\ \A f \in {"guild1", "guild2"} :
               fetching[f] \notin {"nil", "err"} /\ (fetching[f] = "noerr" => g)
        /\ ~gerr => g

(* What is missing while Permissions waits is being asked for, or has been  *)
(* refused.                                                                 *)
Asked ==
    stage = "wait" =>
        /\ gerr => "guild" \in refused \/ fetching["guild2"] # "no"
        /\ merr => "member" \in refused \/ fetching["member"] = "ask"
        /\ rerr => "roles" \in refused \/ fetching["roles"] = "ask"

(* Nobody asks for these before.                                            *)
NotYet ==
    stage \in {"start", "member", "guild", "more"} =>
        \A f \in {"guild2", "member", "roles"} : fetching[f] = "no"

FetchInv == PermissionTypes /\ GuildComes /\ Asked /\ NotYet

LEMMA FetchStep ==
  ASSUME FetchInv, [PermissionsNext]_permissionVars
  PROVE  FetchInv'
  <1> USE DEF FetchInv, PermissionTypes, GuildComes, Asked, NotYet, Fetchers, Refusal
  <1>1. CASE ReturnColor \/ NoGuildChannel
    BY <1>1 DEF ReturnColor, NoGuildChannel
  <1>2. CASE StartFetching
    BY <1>2 DEF StartFetching
  <1>3. CASE CallerFetchesMember
    BY <1>3 DEF CallerFetchesMember
  <1>4. CASE CallerFetchesGuild
    BY <1>4 DEF CallerFetchesGuild
  <1>5. CASE FetchMore
    BY <1>5 DEF FetchMore
  <1>6. ASSUME NEW f \in {"guild1", "guild2"}, GuildAnswers(f)
        PROVE  FetchInv'
    BY <1>6 DEF GuildAnswers
  <1>7. ASSUME NEW f \in {"guild1", "guild2"}, WriteG(f)
        PROVE  FetchInv'
    BY <1>7 DEF WriteG
  <1>8. ASSUME NEW f \in {"guild1", "guild2"}, WriteGerr(f)
        PROVE  FetchInv'
    BY <1>8 DEF WriteGerr
  <1>9. CASE MemberAnswers
    BY <1>9 DEF MemberAnswers
  <1>10. CASE RolesAnswer
    BY <1>10 DEF RolesAnswer
  <1>11. CASE PermissionsFail
    BY <1>11 DEF PermissionsFail, Waited
  <1>12. CASE PermissionsReturn
    BY <1>12 DEF PermissionsReturn, Waited
  <1>13. CASE UNCHANGED permissionVars
    BY <1>13 DEF permissionVars
  <1> QED BY <1>1, <1>2, <1>3, <1>4, <1>5, <1>6, <1>7, <1>8, <1>9, <1>10, <1>11, <1>12, <1>13 DEF PermissionsNext

LEMMA ColorRight ==
  ASSUME NEW looks \in UNION {[1..n -> LooksOf] : n \in 0..MaxLooks}
  PROVE  LET colored == {r \in ToSet(looks) : r.color > 0} IN
         IF colored = {} THEN MemberColor(looks).color = 0
         ELSE \E r \in colored : /\ MemberColor(looks).color = r.color
                                 /\ \A x \in colored : x.position <= r.position
  <1>1. PICK n \in Nat : looks \in [1..n -> LooksOf]
    BY PermissionsAssumption
  <1> DEFINE colored == {r \in ToSet(looks) : r.color > 0}
  <1>2. Highest(MemberColor(looks), looks, n) /\ DOMAIN looks = 1..n
    BY <1>1, ColorIsHighest
  <1>3. /\ \A k \in 1..n : looks[k].color > 0 => looks[k] \in colored
        /\ \A x \in colored : x.color > 0 /\ \E k \in 1..n : x = looks[k]
    BY <1>2 DEF ToSet
  <1> HIDE DEF colored
  <1>4. CASE MemberColor(looks) = NoLook /\ \A k \in 1..n : looks[k].color = 0
    <2>1. colored = {}
      <3>1. ~(0 > 0)
        OBVIOUS
      <3> QED BY <1>3, <1>4, <3>1, Zenon
    <2>2. MemberColor(looks).color = 0
      BY <1>4 DEF NoLook
    <2> QED BY <2>1, <2>2 DEF colored
  <1>5. CASE ~(MemberColor(looks) = NoLook /\ \A k \in 1..n : looks[k].color = 0)
    <2>1. PICK k \in 1..n : /\ MemberColor(looks) = looks[k] /\ looks[k].color > 0
                            /\ \A l \in 1..n : looks[l].color > 0 => looks[l].position <= looks[k].position
      BY <1>2, <1>5 DEF Highest
    <2>2. looks[k] \in colored /\ \A x \in colored : x.position <= looks[k].position
      BY <1>3, <2>1, Zenon
    <2> QED BY <2>1, <2>2 DEF colored
  <1> QED BY <1>4, <1>5

(* Whatever the cabinet has, whatever is refused and however the goroutines *)
(* interleave: Permissions fails only for something that was refused, and   *)
(* gives the owner and administrators PermissionAll, and any other member   *)
(* what Discord's rules for roles and overwrites give it; a member's color  *)
(* is that of its highest role with one.                                    *)
THEOREM PermissionsAreRight == PermissionsSpec => []PermissionsRight
  <1>1. PermissionsInit => FetchInv /\ PermissionsRight
    <2> SUFFICES ASSUME PermissionsInit
                 PROVE  FetchInv /\ PermissionsRight
      OBVIOUS
    <2>1. FetchInv
      <3>1. PICK hasG, hasM, hasR \in BOOLEAN : g = hasG /\ gerr = ~hasG /\ merr = ~hasM /\ rerr = ~hasR
        BY DEF PermissionsInit
      <3>2. g \in BOOLEAN /\ gerr \in BOOLEAN /\ merr \in BOOLEAN /\ rerr \in BOOLEAN /\ (~gerr => g)
        BY <3>1
      <3>3. stage = "start" /\ refused = {} /\ fetching = [f \in Fetchers |-> "no"]
        BY DEF PermissionsInit
      <3> QED BY <3>2, <3>3 DEF FetchInv, PermissionTypes, GuildComes, Asked, NotYet, Fetchers
    <2>2. perms.at = "none"
      BY DEF PermissionsInit, NoPerms
    <2> QED BY <2>1, <2>2 DEF PermissionsRight
  <1>2. FetchInv /\ PermissionsRight /\ [PermissionsNext]_permissionVars => PermissionsRight'
    <2> SUFFICES ASSUME FetchInv, PermissionsRight, [PermissionsNext]_permissionVars
                 PROVE  PermissionsRight'
      OBVIOUS
    <2>1. CASE UNCHANGED perms /\ refused \subseteq refused'
      BY <2>1 DEF PermissionsRight
    <2>2. CASE PermissionsFail
      <3>1. perms' = [at |-> "error", of |-> IF gerr THEN "guild" ELSE IF merr THEN "member" ELSE "roles"]
            /\ refused' = refused
        BY <2>2 DEF PermissionsFail
      <3>2. perms'.of \in refused
        BY <2>2, <3>1 DEF PermissionsFail, Waited, FetchInv, Asked, Fetchers
      <3> QED BY <3>1, <3>2 DEF PermissionsRight
    <2>3. CASE PermissionsReturn
      <3>1. CASE perms' = [at |-> "nil dereference"] /\ ~g
        <4>1. "guild" \in refused /\ refused' = refused
          BY <2>3, <3>1 DEF PermissionsReturn, FetchInv, GuildComes
        <4> QED BY <3>1, <4>1 DEF PermissionsRight
      <3>2. ASSUME NEW owner \in BOOLEAN, NEW granted \in [RoleIDs \cup {"everyone"} -> SUBSET Bits],
                   NEW roles \in SUBSET RoleIDs, NEW overwrites \in OverwriteLists,
                   perms' = [at |-> "result", owner |-> owner, granted |-> granted,
                             roles |-> roles, overwrites |-> overwrites,
                             may |-> CalcOverrides(owner, granted, roles, overwrites)]
            PROVE  PermissionsRight'
        <4>1. PICK p : p = perms'
          OBVIOUS
        <4>2. /\ p.at = "result" /\ p.owner = owner /\ p.granted = granted /\ p.roles = roles
              /\ p.overwrites = overwrites /\ p.may = CalcOverrides(owner, granted, roles, overwrites)
          BY <3>2, <4>1
        <4>3. CalcOverrides(owner, granted, roles, overwrites) = Due(p)
          <5>1. p.owner = owner /\ p.granted = granted /\ p.roles = roles /\ p.overwrites = overwrites
            BY <4>2
          <5> HIDE <3>2
          <5> QED BY <5>1, OverridesAre
        <4>4. p.may = IF MayAll(p) THEN PermissionAll ELSE {b \in Bits : May(p, b)}
          BY <4>2, <4>3, Zenon DEF Due
        <4> QED BY <4>1, <4>2, <4>4 DEF PermissionsRight
      <3> QED BY <2>3, <3>1, <3>2 DEF PermissionsReturn
    <2>4. CASE ReturnColor
      <3>1. PICK looks \in UNION {[1..n -> LooksOf] : n \in 0..MaxLooks} :
                perms' = [at |-> "color", looks |-> looks, color |-> MemberColor(looks).color]
        BY <2>4 DEF ReturnColor
      <3>2. perms'.at = "color" /\ perms'.looks = looks /\ perms'.color = MemberColor(looks).color
        BY <3>1
      <3> QED BY <3>2, ColorRight DEF PermissionsRight
    <2>5. CASE NoGuildChannel
      <3>1. PICK of : refused' = refused \cup {of} /\ perms' = [at |-> "error", of |-> of]
        BY <2>5 DEF NoGuildChannel
      <3> QED BY <3>1 DEF PermissionsRight
    <2>6. ASSUME ~PermissionsFail, ~PermissionsReturn, ~ReturnColor, ~NoGuildChannel
          PROVE  UNCHANGED perms /\ refused \subseteq refused'
      BY <2>6 DEF PermissionsNext, permissionVars, StartFetching, CallerFetchesMember, CallerFetchesGuild,
         FetchMore, GuildAnswers, WriteG, WriteGerr, MemberAnswers, RolesAnswer, Refusal
    <2> QED BY <2>1, <2>2, <2>3, <2>4, <2>5, <2>6
  <1> QED BY <1>1, <1>2, FetchStep, PTL DEF PermissionsSpec
-----------------------------------------------------------------------------
(* Pages: finite sets of identifiers in order.                              *)

Earlier(S, i) == {j \in S : j < i}
Later(S, i) == {j \in S : j > i}

LEMMA PartsFinite ==
  ASSUME NEW S, IsFiniteSet(S), NEW T \in SUBSET S
  PROVE  IsFiniteSet(T) /\ Cardinality(T) \in Nat /\ Cardinality(T) <= Cardinality(S)
  BY FS_Subset, FS_CardinalityType

LEMMA Greatest ==
  ASSUME NEW S, S \subseteq Nat, IsFiniteSet(S), S # {}
  PROVE  \E i \in S : \A j \in S : j <= i
  <1> DEFINE T == {Cardinality(Later(S, i)) : i \in S}
  <1>1. \A i \in S : IsFiniteSet(Later(S, i)) /\ Cardinality(Later(S, i)) \in Nat
    BY PartsFinite DEF Later
  <1>2. PICK i \in S : \A j \in S : Cardinality(Later(S, i)) <= Cardinality(Later(S, j))
    <2>1. T \subseteq Nat /\ T # {}
      BY <1>1
    <2> HIDE DEF T
    <2>2. PICK x \in T : \A y \in T : x <= y
      BY <2>1, Least
    <2> QED BY <2>2 DEF T
  <1>3. ASSUME NEW j \in S, ~(j <= i)
        PROVE  FALSE
    <2>1. Later(S, j) \subseteq Later(S, i) \ {j} /\ j \in Later(S, i)
      <3>1. i \in Nat /\ j \in Nat /\ j > i
        BY <1>3
      <3>2. \A k \in S : k > j => k > i /\ k # j
        BY <3>1
      <3> QED BY <3>1, <3>2 DEF Later
    <2>2. IsFiniteSet(Later(S, i) \ {j}) /\ Cardinality(Later(S, i) \ {j}) = Cardinality(Later(S, i)) - 1
      BY <1>1, <2>1, FS_RemoveElement
    <2>3. Cardinality(Later(S, j)) <= Cardinality(Later(S, i)) - 1
      BY <2>1, <2>2, PartsFinite
    <2> QED BY <1>1, <1>2, <2>3
  <1> QED BY <1>3

(* e lists S in order.                                                      *)
Lists(e, S) ==
    /\ e \in [1..Cardinality(S) -> S]
    /\ \A m, n \in 1..Cardinality(S) : m < n => e[m] < e[n]
    /\ \A i \in S : \E n \in 1..Cardinality(S) : e[n] = i

LEMMA ListsMore ==
  ASSUME NEW S, S \subseteq Nat, IsFiniteSet(S), NEW i \in S, \A j \in S : j <= i,
         NEW d, Lists(d, S \ {i})
  PROVE  \E e : Lists(e, S)
  <1> DEFINE N == Cardinality(S)
             e == [n \in 1..N |-> IF n = N THEN i ELSE d[n]]
  <1>1. N \in Nat /\ N # 0 /\ Cardinality(S \ {i}) = N - 1
    BY FS_RemoveElement, FS_CardinalityType, FS_EmptySet
  <1> HIDE DEF N
  <1>2. /\ d \in [1..(N - 1) -> S \ {i}]
        /\ \A m, n \in 1..(N - 1) : m < n => d[m] < d[n]
        /\ \A j \in S \ {i} : \E n \in 1..(N - 1) : d[n] = j
    BY <1>1 DEF Lists
  <1>3. \A n \in 1..N : n = N \/ (n # N /\ n \in 1..(N - 1))
    BY <1>1
  <1>4. \A n \in 1..(N - 1) : n \in 1..N /\ n # N
    BY <1>1
  <1>5. N \in 1..N
    BY <1>1
  <1>6. e \in [1..N -> S]
    BY <1>2, <1>3
  <1>7. e[N] = i /\ \A n \in 1..(N - 1) : e[n] = d[n]
    BY <1>4, <1>5
  <1> HIDE DEF e
  <1>8. ASSUME NEW m \in 1..N, NEW n \in 1..N, m < n
        PROVE  e[m] < e[n]
    <2>1. m \in 1..(N - 1)
      BY <1>1, <1>8
    <2>2. e[m] \in S \ {i} /\ e[m] \in Nat /\ i \in Nat /\ e[m] <= i
      BY <1>2, <1>7, <2>1
    <2>3. CASE n = N
      BY <1>7, <2>2, <2>3
    <2>4. CASE n \in 1..(N - 1)
      BY <1>2, <1>7, <1>8, <2>1, <2>4
    <2> QED BY <1>3, <2>3, <2>4
  <1>9. \A j \in S : \E n \in 1..N : e[n] = j
    BY <1>2, <1>4, <1>5, <1>7
  <1> QED BY <1>6, <1>8, <1>9 DEF Lists, N

LEMMA ListsAll ==
  ASSUME NEW U, U \subseteq Nat, IsFiniteSet(U), NEW S \in SUBSET U
  PROVE  \E e : Lists(e, S)
  <1> DEFINE Unlisted == {T \in SUBSET U : ~\E e : Lists(e, T)}
  <1> SUFFICES ASSUME Unlisted # {}
               PROVE  FALSE
    OBVIOUS
  <1>1. \A T \in SUBSET U : IsFiniteSet(T) /\ Cardinality(T) \in Nat
    BY PartsFinite
  <1>2. PICK T \in Unlisted : \A V \in Unlisted : Cardinality(T) <= Cardinality(V)
    <2> DEFINE C == {Cardinality(V) : V \in Unlisted}
    <2>1. C \subseteq Nat /\ C # {}
      BY <1>1
    <2> HIDE DEF C
    <2>2. PICK x \in C : \A y \in C : x <= y
      BY <2>1, Least
    <2> QED BY <2>2 DEF C
  <1>3. T # {}
    <2>1. Cardinality({}) = 0
      BY FS_EmptySet
    <2>2. Lists([n \in 1..0 |-> 0], {})
      BY <2>1 DEF Lists
    <2> QED BY <2>2, <1>2
  <1>4. PICK i \in T : \A j \in T : j <= i
    BY <1>1, <1>2, <1>3, Greatest
  <1>5. Cardinality(T \ {i}) = Cardinality(T) - 1
    BY <1>1, <1>2, <1>4, FS_RemoveElement
  <1>6. T \ {i} \notin Unlisted
    BY <1>1, <1>2, <1>5
  <1>7. PICK d : Lists(d, T \ {i})
    BY <1>2, <1>6
  <1> QED BY <1>1, <1>2, <1>4, <1>7, ListsMore

(* The server's lists are what they should be.                              *)
LEMMA AscendingLists ==
  ASSUME NEW S, S \subseteq Nat, IsFiniteSet(S)
  PROVE  Lists(Ascending(S), S)
  <1>1. PICK e : Lists(e, S)
    BY ListsAll
  <1> DEFINE N == Cardinality(S)
  <1>2. N \in Nat
    BY FS_CardinalityType
  <1>3. ASSUME NEW n \in 1..N
        PROVE  Cardinality(Earlier(S, e[n])) = n - 1
    <2> DEFINE f == [m \in 1..(n - 1) |-> e[m]]
    <2>1. n - 1 \in Nat /\ \A m \in 1..(n - 1) : m \in 1..N /\ m < n
      BY <1>2
    <2>2. \A m \in 1..(n - 1) : e[m] \in Earlier(S, e[n])
      BY <1>1, <2>1 DEF Lists, Earlier
    <2>3. \A m, k \in 1..N : m # k => e[m] # e[k]
      <3>1. \A m \in 1..N : e[m] \in Nat
        BY <1>1 DEF Lists
      <3> QED BY <1>1, <1>2, <3>1 DEF Lists
    <2>4. \A i \in Earlier(S, e[n]) : \E m \in 1..(n - 1) : e[m] = i
      <3> TAKE i \in Earlier(S, e[n])
      <3>1. PICK m \in 1..N : e[m] = i
        BY <1>1 DEF Lists, Earlier
      <3>2. e[m] < e[n] /\ e[m] \in Nat /\ e[n] \in Nat
        BY <1>1, <3>1 DEF Lists, Earlier
      <3>3. ~(n < m) /\ m # n
        BY <1>1, <3>2 DEF Lists
      <3>4. m \in 1..(n - 1)
        BY <1>2, <3>3
      <3> QED BY <3>1, <3>4
    <2>5. f \in Bijection(1..(n - 1), Earlier(S, e[n]))
      BY <2>1, <2>2, <2>3, <2>4 DEF Bijection, Injection, Surjection, IsInjective
    <2> HIDE DEF f
    <2>6. ExistsBijection(1..(n - 1), Earlier(S, e[n]))
      BY <2>5 DEF ExistsBijection
    <2> QED BY <2>1, <2>6, FS_CountingElements
  <1>4. \A i \in S : \E n \in 1..N : e[n] = i
    BY <1>1 DEF Lists
  <1>5. ASSUME NEW n \in 1..N
        PROVE  e[n] = CHOOSE i \in S : Cardinality({j \in S : j < i}) = n - 1
    <2>1. e[n] \in S
      BY <1>1 DEF Lists
    <2>2. \A i \in S : Cardinality(Earlier(S, i)) = n - 1 => i = e[n]
      BY <1>2, <1>3, <1>4
    <2>3. Cardinality(Earlier(S, e[n])) = n - 1
      BY <1>3
    <2> QED BY <2>1, <2>2, <2>3 DEF Earlier
  <1>6. Ascending(S) = e
    <2>1. e = [n \in 1..N |-> e[n]]
      BY <1>1 DEF Lists
    <2> QED BY <2>1, <1>5 DEF Ascending
  <1> QED BY <1>1, <1>6
-----------------------------------------------------------------------------
(* Pages: the nearest of a set.                                             *)

Nearer(down, i, j) == IF down THEN i > j ELSE i < j
Passed(down, S, i) == {j \in S : Nearer(down, j, i)}
Nearest(down, S, n) == {i \in S : Cardinality(Passed(down, S, i)) < n}

LEMMA NearestOne ==
  ASSUME NEW S, S \subseteq Nat, IsFiniteSet(S), S # {}, NEW down \in BOOLEAN
  PROVE  /\ \E i \in S : \A j \in S : j = i \/ Nearer(down, i, j)
         /\ \E i \in S : \A j \in S : j = i \/ Nearer(down, j, i)
  <1>1. PICK a \in S : \A j \in S : a <= j
    BY Least
  <1>2. PICK z \in S : \A j \in S : j <= z
    BY Greatest
  <1>3. \A j \in S : (j = a \/ j > a) /\ (j = z \/ j < z)
    BY <1>1, <1>2
  <1> QED BY <1>1, <1>2, <1>3 DEF Nearer

NearestIn(T, down, S, n) ==
    /\ T \subseteq S /\ IsFiniteSet(T) /\ Cardinality(T) \in Nat /\ Cardinality(T) <= n
    /\ Cardinality(T) < n => T = S
    /\ \A t \in T, s \in S \ T : Nearer(down, t, s)

LEMMA NearestAre ==
  ASSUME NEW S, S \subseteq Nat, IsFiniteSet(S), NEW down \in BOOLEAN, NEW n \in Nat
  PROVE  NearestIn(Nearest(down, S, n), down, S, n)
  <1> DEFINE T == Nearest(down, S, n)
  <1>1. T \subseteq S /\ IsFiniteSet(T) /\ Cardinality(T) \in Nat
    BY PartsFinite DEF Nearest
  <1>2. \A i \in S : IsFiniteSet(Passed(down, S, i)) /\ Cardinality(Passed(down, S, i)) \in Nat
    BY PartsFinite DEF Passed
  <1>3. \A i \in S : i \in T <=> Cardinality(Passed(down, S, i)) < n
    BY DEF Nearest
  <1> HIDE DEF T
  <1>4. Cardinality(T) <= n
    <2>1. CASE T = {}
      BY <2>1, FS_EmptySet
    <2>2. CASE T # {}
      <3>1. PICK t \in T : \A j \in T : j = t \/ Nearer(down, j, t)
        BY <1>1, <2>2, NearestOne
      <3>2. T \ {t} \subseteq Passed(down, S, t)
        BY <1>1, <3>1 DEF Passed
      <3>3. Cardinality(T \ {t}) = Cardinality(T) - 1
        BY <1>1, <3>1, FS_RemoveElement
      <3>4. Cardinality(T \ {t}) <= Cardinality(Passed(down, S, t))
        BY <1>1, <1>2, <3>1, <3>2, PartsFinite
      <3>5. Cardinality(Passed(down, S, t)) < n /\ Cardinality(Passed(down, S, t)) \in Nat
        BY <1>1, <1>2, <1>3, <3>1
      <3> QED BY <1>1, <3>3, <3>4, <3>5
    <2> QED BY <2>1, <2>2
  <1>5. ASSUME T # S
        PROVE  n <= Cardinality(T)
    <2>1. S \ T # {} /\ IsFiniteSet(S \ T) /\ S \ T \subseteq Nat
      BY <1>1, <1>5, PartsFinite
    <2>2. PICK s \in S \ T : \A j \in S \ T : j = s \/ Nearer(down, s, j)
      BY <2>1, NearestOne
    <2>3. \A j \in S : Nearer(down, j, s) => j # s /\ ~Nearer(down, s, j)
      BY DEF Nearer
    <2>4. Passed(down, S, s) \subseteq T
      BY <2>2, <2>3 DEF Passed
    <2>5. Cardinality(Passed(down, S, s)) <= Cardinality(T)
      BY <1>1, <2>4, PartsFinite
    <2>6. ~(Cardinality(Passed(down, S, s)) < n) /\ Cardinality(Passed(down, S, s)) \in Nat
      BY <1>2, <1>3
    <2> QED BY <1>1, <2>5, <2>6
  <1>6. ASSUME NEW t \in T, NEW s \in S \ T
        PROVE  Nearer(down, t, s)
    <2> SUFFICES ASSUME ~Nearer(down, t, s)
                 PROVE  FALSE
      OBVIOUS
    <2>1. t # s /\ t \in Nat /\ s \in Nat /\ t \in S
      BY <1>1
    <2>2. \A j \in S : Nearer(down, j, s) => Nearer(down, j, t)
      BY <2>1 DEF Nearer
    <2>3. Passed(down, S, s) \subseteq Passed(down, S, t)
      BY <2>2 DEF Passed
    <2>4. Cardinality(Passed(down, S, s)) <= Cardinality(Passed(down, S, t))
      BY <1>2, <2>1, <2>3, PartsFinite
    <2>5. Cardinality(Passed(down, S, t)) < n /\ ~(Cardinality(Passed(down, S, s)) < n)
      BY <1>3, <2>1
    <2> QED BY <1>2, <2>1, <2>4, <2>5
  <1>7. Cardinality(T) < n => T = S
    BY <1>1, <1>5
  <1> QED BY <1>1, <1>4, <1>6, <1>7 DEF T, NearestIn
-----------------------------------------------------------------------------
(* Pages: lists in order.                                                   *)

Sorted(s, newest) ==
    \A m, n \in DOMAIN s : m < n => IF newest THEN s[m] > s[n] ELSE s[m] < s[n]

LEMMA SortedLists ==
  ASSUME NEW S, S \subseteq Nat, IsFiniteSet(S)
  PROVE  /\ \A s \in {Ascending(S), NewestFirst(S)} :
                 s \in Seq(S) /\ Len(s) = Cardinality(S) /\ ToSet(s) = S
         /\ Sorted(Ascending(S), FALSE) /\ Sorted(NewestFirst(S), TRUE)
  <1> DEFINE N == Cardinality(S)
             a == Ascending(S)
             z == NewestFirst(S)
  <1>1. N \in Nat
    BY FS_CardinalityType
  <1>2. /\ a \in [1..N -> S]
        /\ \A m, n \in 1..N : m < n => a[m] < a[n]
        /\ \A i \in S : \E n \in 1..N : a[n] = i
    BY AscendingLists DEF Lists
  <1>z. z = Reverse(a)
    BY DEF NewestFirst
  <1> HIDE DEF N, a, z
  <1>3. a \in Seq(S) /\ Len(a) = N /\ DOMAIN a = 1..N
    BY <1>1, <1>2
  <1>4. \A n \in 1..N : (N - n) + 1 \in 1..N /\ (N - ((N - n) + 1)) + 1 = n
    BY <1>1
  <1>5. z = [n \in 1..N |-> a[(N - n) + 1]]
    BY <1>3, <1>z DEF Reverse
  <1>6. z \in [1..N -> S] /\ \A n \in 1..N : z[n] = a[(N - n) + 1]
    BY <1>2, <1>4, <1>5
  <1>7. z \in Seq(S) /\ Len(z) = N /\ DOMAIN z = 1..N
    BY <1>1, <1>6
  <1>8. ToSet(a) = S
    BY <1>2, <1>3 DEF ToSet
  <1>9. ToSet(z) = S
    <2>1. ASSUME NEW i \in S
          PROVE  \E n \in 1..N : z[n] = i
      <3>1. PICK n \in 1..N : a[n] = i
        BY <1>2
      <3>2. z[(N - n) + 1] = a[n]
        BY <1>4, <1>6
      <3> QED BY <1>4, <3>1, <3>2
    <2> QED BY <1>6, <1>7, <2>1 DEF ToSet
  <1>10. Sorted(a, FALSE)
    BY <1>2, <1>3 DEF Sorted
  <1>11. Sorted(z, TRUE)
    <2>1. ASSUME NEW m \in 1..N, NEW n \in 1..N, m < n
          PROVE  z[m] > z[n]
      <3>1. (N - n) + 1 < (N - m) + 1
        BY <1>1, <2>1
      <3>2. a[(N - n) + 1] < a[(N - m) + 1]
        BY <1>2, <1>4, <3>1
      <3>3. a[(N - n) + 1] \in Nat /\ a[(N - m) + 1] \in Nat
        BY <1>2, <1>4
      <3> QED BY <1>6, <3>2, <3>3
    <2> QED BY <1>7, <2>1 DEF Sorted
  <1> QED BY <1>3, <1>7, <1>8, <1>9, <1>10, <1>11 DEF N, a, z

(* One list after the other.                                                *)
Joint(c, a, b, X, newest) ==
    /\ c \in Seq(X) /\ Sorted(c, newest)
    /\ ToSet(c) = ToSet(a) \cup ToSet(b) /\ Len(c) = Len(a) + Len(b)
InFront(a, b, newest) == \A x \in ToSet(a), y \in ToSet(b) : IF newest THEN x > y ELSE x < y

LEMMA Joined ==
  ASSUME NEW X, X \subseteq Nat, NEW a \in Seq(X), NEW b \in Seq(X), NEW newest \in BOOLEAN,
         Sorted(a, newest), Sorted(b, newest),
         InFront(a, b, newest)
  PROVE  Joint(a \o b, a, b, X, newest)
  <1> DEFINE c == a \o b
  <1>1. /\ c \in Seq(X) /\ Len(c) = Len(a) + Len(b) /\ Len(a) \in Nat /\ Len(b) \in Nat
        /\ \A n \in 1..(Len(a) + Len(b)) : c[n] = IF n <= Len(a) THEN a[n] ELSE b[n - Len(a)]
    BY ConcatProperties, LenProperties
  <1>2. DOMAIN a = 1..Len(a) /\ DOMAIN b = 1..Len(b) /\ DOMAIN c = 1..(Len(a) + Len(b))
    BY <1>1
  <1> HIDE DEF c
  <1>3. \A n \in DOMAIN c : \/ n \in DOMAIN a /\ c[n] = a[n]
                            \/ n - Len(a) \in DOMAIN b /\ n \notin DOMAIN a /\ c[n] = b[n - Len(a)]
    BY <1>1, <1>2
  <1>4. /\ \A n \in DOMAIN a : n \in DOMAIN c /\ c[n] = a[n]
        /\ \A n \in DOMAIN b : n + Len(a) \in DOMAIN c /\ c[n + Len(a)] = b[n]
    BY <1>1, <1>2
  <1>5. ToSet(c) = ToSet(a) \cup ToSet(b)
    BY <1>3, <1>4 DEF ToSet
  <1>6. ASSUME NEW m \in DOMAIN c, NEW n \in DOMAIN c, m < n
        PROVE  IF newest THEN c[m] > c[n] ELSE c[m] < c[n]
    <2>1. CASE n \in DOMAIN a
      <3>1. m \in DOMAIN a
        BY <1>1, <1>2, <1>6, <2>1
      <3> QED BY <1>4, <1>6, <2>1, <3>1 DEF Sorted
    <2>2. CASE n \notin DOMAIN a /\ m \in DOMAIN a
      <3>1. c[m] \in ToSet(a) /\ c[n] \in ToSet(b)
        BY <1>3, <1>4, <2>2 DEF ToSet
      <3> QED BY <3>1 DEF InFront
    <2>3. CASE n \notin DOMAIN a /\ m \notin DOMAIN a
      <3>1. /\ m - Len(a) \in DOMAIN b /\ n - Len(a) \in DOMAIN b
            /\ c[m] = b[m - Len(a)] /\ c[n] = b[n - Len(a)]
        BY <1>3, <2>3
      <3>2. m - Len(a) < n - Len(a)
        BY <1>1, <1>2, <1>6
      <3> QED BY <3>1, <3>2 DEF Sorted
    <2> QED BY <2>1, <2>2, <2>3
  <1>7. Sorted(c, newest)
    BY <1>6 DEF Sorted
  <1> QED BY <1>1, <1>5, <1>7 DEF c, Joint
-----------------------------------------------------------------------------
(* Pages: the inductive invariant.                                          *)

Calls ==
    [by : Down \cup Up, from : Listed \cup {0}, most : PageLimits, cursor : Listed \cup {0},
     limit : Nat, got : Seq(Listed), asked : Nat, at : {"loop", "done", "failed"},
     stayed : SUBSET Listed]
PagesTypes == listing \subseteq Listed /\ paging \in Calls /\ paging.stayed \subseteq listing

Got == ToSet(paging.got)
Missing == {i \in paging.stayed : InRange(i) /\ i \notin Got}
Beyond(i) == IF paging.by \in Down THEN paging.cursor = 0 \/ i < paging.cursor ELSE i > paging.cursor
SoFar ==
    /\ Sorted(paging.got, NewestComesFirst)
    /\ \A i \in Got : InRange(i)
    /\ \A i \in Missing, j \in Got : Sooner(j, i)
    /\ paging.most > 0 => /\ Len(paging.got) <= paging.most
                          /\ (paging.asked - 1) * MaxFetch < paging.most

(* A call that goes on has had nothing but full pages, and has everything   *)
(* up to its cursor.                                                        *)
UpToCursor ==
    /\ \A i \in Got : ~Beyond(i)
    /\ \A i \in Missing : Beyond(i)
    /\ \A i \in Listed : Beyond(i) => InRange(i)
HasCursor == paging.by \in {"ReactionsBefore", "GuildsBefore"} => paging.cursor # 0
FullPages ==
    /\ Len(paging.got) = paging.asked * MaxFetch
    /\ IF paging.most = 0 THEN paging.limit = 0
       ELSE paging.limit > 0 /\ paging.limit = paging.most - paging.asked * MaxFetch
Exhausted == Missing = {} \/ (paging.most > 0 /\ Len(paging.got) = paging.most)
PageInv ==
    /\ PagesTypes /\ SoFar
    /\ paging.at = "loop" => UpToCursor /\ HasCursor /\ FullPages
    /\ paging.at = "done" => Exhausted

LEMMA PagesStart == PagesInit => PageInv
  <1> SUFFICES ASSUME PagesInit
               PROVE  PageInv
    OBVIOUS
  <1>a. PICK by \in Down \cup Up, most \in PageLimits : \E from \in Starts(by) :
            paging = [by |-> by, from |-> from, most |-> most, cursor |-> from,
                      limit |-> most, got |-> <<>>, asked |-> 0, at |-> "loop",
                      stayed |-> listing]
    BY DEF PagesInit
  <1>b. PICK from \in Starts(by) :
            paging = [by |-> by, from |-> from, most |-> most, cursor |-> from,
                      limit |-> most, got |-> <<>>, asked |-> 0, at |-> "loop",
                      stayed |-> listing]
    BY <1>a
  <1>1. /\ from \in Listed \cup {0}
        /\ paging = [by |-> by, from |-> from, most |-> most, cursor |-> from,
                     limit |-> most, got |-> <<>>, asked |-> 0, at |-> "loop",
                     stayed |-> listing]
    BY <1>b DEF Starts
  <1>2. listing \subseteq Listed /\ most \in Nat /\ MaxFetch \in Nat
    BY PagesAssumption DEF PagesInit
  <1>3. /\ paging.by = by /\ paging.from = from /\ paging.most = most /\ paging.cursor = from
        /\ paging.limit = most /\ paging.got = <<>> /\ paging.asked = 0 /\ paging.at = "loop"
        /\ paging.stayed = listing
    BY <1>1
  <1>4. <<>> \in Seq(Listed) /\ Len(<<>>) = 0 /\ ToSet(<<>>) = {} /\ \A n : n \notin DOMAIN <<>>
    BY DEF ToSet
  <1>5. PagesTypes
    BY <1>1, <1>2, <1>4 DEF PagesTypes, Calls
  <1>6. SoFar
    <2>1. (0 - 1) * MaxFetch = 0 - MaxFetch /\ MaxFetch > 0
      BY PagesAssumption
    <2>2. Sorted(paging.got, NewestComesFirst) /\ Got = {}
      BY <1>3, <1>4 DEF Sorted, Got
    <2>3. most > 0 => Len(<<>>) <= most /\ (0 - 1) * MaxFetch < most
      BY <1>2, <1>4, <2>1
    <2> QED BY <1>3, <2>2, <2>3 DEF SoFar
  <1>7. UpToCursor /\ HasCursor /\ FullPages
    <2>1. Got = {} /\ \A i \in Listed : Beyond(i) <=> InRange(i)
      BY <1>3, <1>4 DEF Got, Beyond, InRange
    <2>2. \A i \in Missing : i \in Listed /\ InRange(i)
      BY <1>2, <1>3 DEF Missing
    <2>3. UpToCursor
      BY <2>1, <2>2 DEF UpToCursor
    <2>4. 0 * MaxFetch = 0
      BY <1>2
    <2>5. FullPages
      BY <1>2, <1>3, <1>4, <2>4 DEF FullPages
    <2>6. HasCursor
      <3>1. from = 0 => by \notin {"ReactionsBefore", "GuildsBefore"}
        BY <1>b, PagesAssumption DEF Starts
      <3> QED BY <1>3, <3>1 DEF HasCursor
    <2> QED BY <2>3, <2>5, <2>6
  <1> QED BY <1>3, <1>5, <1>6, <1>7 DEF PageInv

LEMMA PageRight == PageInv => PagesComplete
  BY DEF PageInv, SoFar, Exhausted, Sorted, Got, Missing, PagesComplete
-----------------------------------------------------------------------------
(* What a page is.                                                          *)

Left == {i \in listing : Beyond(i)}
IsPage(m) ==
    /\ m \in Seq(Left) /\ Len(m) <= Fetch
    /\ Len(m) < Fetch => ToSet(m) = Left
    /\ \A i \in ToSet(m), j \in Left \ ToSet(m) : Sooner(i, j)
Farthest(i, m) == i \in ToSet(m) /\ \A j \in ToSet(m) : j = i \/ Sooner(j, i)

LEMMA Times ==
  \A a, b \in Nat : a * b \in Nat /\ (a + 1) * b = a * b + b /\ (a + 1 - 1) * b = a * b
  OBVIOUS

LEMMA PageNumbers ==
  ASSUME PagesTypes
  PROVE  /\ paging.most \in Nat /\ paging.most < UintMod /\ UintMod \in Nat /\ UintMod > 0
         /\ MaxFetch \in Nat /\ MaxFetch > 0 /\ paging.limit \in Nat /\ paging.asked \in Nat
         /\ \A i \in Listed : i \in Nat /\ i # 0 /\ i # 1
         /\ paging.cursor \in Nat /\ paging.from \in Nat
  <1>1. /\ paging.most \in PageLimits /\ paging.limit \in Nat /\ paging.asked \in Nat
        /\ paging.cursor \in Listed \cup {0} /\ paging.from \in Listed \cup {0}
    BY DEF PagesTypes, Calls
  <1>2. /\ UintMod \in Nat /\ UintMod > 0 /\ MaxFetch \in Nat /\ MaxFetch > 0
        /\ \A i \in Listed : i \in Nat /\ i # 0 /\ i # 1
    BY PagesAssumption
  <1>3. paging.most \in 0..(UintMod - 1)
    BY <1>1, PagesAssumption
  <1> QED BY <1>1, <1>2, <1>3

LEMMA FetchIs ==
  ASSUME PageInv, paging.at = "loop"
  PROVE  /\ Fetch \in Nat /\ Fetch > 0 /\ Fetch <= MaxFetch /\ paging.limit \in Nat
         /\ IF paging.limit > 0 /\ paging.limit < MaxFetch THEN Fetch = paging.limit ELSE Fetch = MaxFetch
         /\ \A left \in {LessAPage, LessFetched} :
               /\ left \in Nat
               /\ paging.limit = 0 => left = 0
               /\ paging.limit >= MaxFetch => left = paging.limit - MaxFetch
  <1>1. paging.limit \in Nat /\ MaxFetch \in Nat \ {0} /\ UintMod \in Nat \ {0}
    BY PagesAssumption DEF PageInv, PagesTypes, Calls
  <1>2. /\ Fetch \in Nat /\ Fetch > 0 /\ Fetch <= MaxFetch
        /\ IF paging.limit > 0 /\ paging.limit < MaxFetch THEN Fetch = paging.limit ELSE Fetch = MaxFetch
    BY <1>1 DEF Fetch
  <1>3. /\ LessFetched \in Nat
        /\ paging.limit = 0 => LessFetched = 0
        /\ paging.limit >= MaxFetch => LessFetched = paging.limit - MaxFetch
    BY <1>1, <1>2 DEF LessFetched
  <1>4. paging.limit < UintMod
    <2>1. /\ paging.most \in Nat /\ paging.most < UintMod /\ paging.asked * MaxFetch \in Nat
      BY PageNumbers, Times DEF PageInv
    <2>2. paging.most # 0 => paging.limit = paging.most - paging.asked * MaxFetch
      BY DEF PageInv, FullPages
    <2>3. paging.most = 0 => paging.limit = 0
      BY DEF PageInv, FullPages
    <2> QED BY <1>1, <2>1, <2>2, <2>3
  <1>5. /\ LessAPage \in Nat
        /\ paging.limit = 0 => LessAPage = 0
        /\ paging.limit >= MaxFetch => LessAPage = paging.limit - MaxFetch
    <2>1. (paging.limit - MaxFetch) % UintMod \in Nat
      BY <1>1
    <2>2. ASSUME paging.limit >= MaxFetch
          PROVE  (paging.limit - MaxFetch) % UintMod = paging.limit - MaxFetch
      <3>1. paging.limit - MaxFetch \in 0..(UintMod - 1)
        BY <1>1, <1>4, <2>2
      <3>2. \A x \in 0..(UintMod - 1) : x % UintMod = x
        BY <1>1
      <3> QED BY <3>1, <3>2
    <2> QED BY <1>1, <2>1, <2>2 DEF LessAPage
  <1> QED BY <1>1, <1>2, <1>3, <1>5

(* Turn keeps the invariant, whichever loop's page it is.                   *)
Extends(m, got) ==
    /\ got \in Seq(Listed) /\ Sorted(got, NewestComesFirst)
    /\ ToSet(got) = ToSet(m) \cup Got /\ Len(got) = Len(m) + Len(paging.got)

LEMMA TurnKeeps ==
  ASSUME PageInv, paging.at = "loop", NEW m, NEW got, NEW next, NEW left \in {LessAPage, LessFetched},
         IsPage(m), Extends(m, got), Len(m) = MaxFetch => Farthest(next, m),
         Turn(m, got, next, left)
  PROVE  PageInv'
  <1> DEFINE c == IF Len(m) < MaxFetch THEN paging.cursor ELSE next
             at == IF Len(m) < MaxFetch \/ ~(left > 0 \/ Unlimited) THEN "done" ELSE "loop"
             F == Fetch
             Lt == Left
             G == Got
             M == Missing
  <1>1. PagesTypes /\ SoFar /\ UpToCursor /\ FullPages
    BY DEF PageInv
  <1>2. /\ paging.by \in Down \cup Up /\ paging.from \in Listed \cup {0} /\ paging.most \in PageLimits
        /\ paging.cursor \in Listed \cup {0} /\ paging.limit \in Nat /\ paging.asked \in Nat
        /\ paging.stayed \subseteq listing /\ listing \subseteq Listed /\ paging.got \in Seq(Listed)
    BY <1>1 DEF PagesTypes, Calls
  <1>3. paging.most \in Nat /\ MaxFetch \in Nat /\ MaxFetch > 0 /\ paging.asked * MaxFetch \in Nat
    BY <1>1, PageNumbers, Times
  <1>n. paging.cursor \in Nat /\ \A i \in Listed : i \in Nat /\ i # 0
    BY <1>1, PageNumbers
  <1>4. /\ m \in Seq(Lt) /\ Lt \subseteq listing /\ ToSet(m) \subseteq Lt
        /\ Len(m) \in Nat /\ Len(m) <= F
    <2>1. m \in Seq(Lt) /\ Len(m) \in Nat /\ Len(m) <= F /\ Lt \subseteq listing
      BY DEF IsPage, Left
    <2>2. \A i \in DOMAIN m : m[i] \in Lt
      BY <2>1
    <2> QED BY <2>1, <2>2 DEF ToSet
  <1>5. /\ F \in Nat /\ F <= MaxFetch /\ F > 0 /\ left \in Nat
        /\ IF paging.limit > 0 /\ paging.limit < MaxFetch THEN F = paging.limit ELSE F = MaxFetch
        /\ paging.limit = 0 => left = 0
        /\ paging.limit >= MaxFetch => left = paging.limit - MaxFetch
    BY FetchIs
  <1>6. c \in Listed \cup {0}
    <2>1. ~(Len(m) < MaxFetch) => Len(m) = MaxFetch
      BY <1>3, <1>4, <1>5
    <2>2. ~(Len(m) < MaxFetch) => next \in ToSet(m)
      BY <2>1 DEF Farthest
    <2> QED BY <1>2, <1>4, <2>2
  <1>7. /\ paging' = [paging EXCEPT !.got = got, !.limit = left, !.asked = paging.asked + 1,
                                    !.cursor = c, !.at = at]
        /\ listing' = listing
    BY DEF Turn
  <1>8. at \in {"loop", "done"}
    OBVIOUS
  <1>9. at = "loop" => Len(m) = MaxFetch /\ F = MaxFetch /\ (left > 0 \/ paging.most = 0)
    BY <1>3, <1>4, <1>5 DEF Unlimited
  <1>10. at = "done" => Len(m) < MaxFetch \/ (left = 0 /\ paging.most # 0)
    BY <1>5 DEF Unlimited
  <1>11. at = "loop" => c = next /\ Farthest(next, m)
    BY <1>3, <1>9
  <1> HIDE DEF c, at, F, Lt, G, M
  <1>12. /\ paging'.got = got /\ paging'.limit = left /\ paging'.asked = paging.asked + 1
         /\ paging'.cursor = c /\ paging'.at = at /\ paging'.by = paging.by
         /\ paging'.from = paging.from /\ paging'.most = paging.most
         /\ paging'.stayed = paging.stayed
    BY <1>1, <1>7 DEF PagesTypes, Calls
  <1>13. got \in Seq(Listed)
    BY DEF Extends
  <1>14. PagesTypes'
    <2>1. paging.asked + 1 \in Nat /\ left \in Nat /\ at \in {"loop", "done", "failed"} /\ paging \in Calls
      BY <1>1, <1>2, <1>5, <1>8 DEF PagesTypes
    <2>2. [paging EXCEPT !.got = got] \in Calls
      BY <1>13, <2>1 DEF Calls
    <2>3. [paging EXCEPT !.got = got, !.limit = left] \in Calls
      BY <2>1, <2>2 DEF Calls
    <2>4. [paging EXCEPT !.got = got, !.limit = left, !.asked = paging.asked + 1] \in Calls
      BY <2>1, <2>3 DEF Calls
    <2>5. [paging EXCEPT !.got = got, !.limit = left, !.asked = paging.asked + 1, !.cursor = c] \in Calls
      BY <1>6, <2>1, <2>4 DEF Calls
    <2>6. paging' \in Calls
      BY <1>7, <2>1, <2>5 DEF Calls
    <2> QED BY <1>2, <1>7, <1>12, <2>6 DEF PagesTypes
  <1>15. Got' = ToSet(m) \cup G /\ Len(got) = Len(m) + Len(paging.got) /\ Len(paging.got) \in Nat
    BY <1>2, <1>12 DEF Got, Extends, G
  <1>16. \A i, j : /\ InRange(i)' <=> InRange(i)
                   /\ Sooner(i, j)' <=> Sooner(i, j)
    BY <1>12 DEF InRange, Sooner
  <1>17. NewestComesFirst' = NewestComesFirst
    BY <1>12 DEF NewestComesFirst
  <1>18. Missing' = M \ ToSet(m)
    BY <1>12, <1>15, <1>16 DEF Missing, G, M, Got
  <1>19. M \subseteq Lt /\ G \subseteq Listed
    <2>1. M \subseteq Lt
      BY <1>1, <1>2 DEF UpToCursor, M, Missing, Lt, Left
    <2>2. \A i \in DOMAIN paging.got : paging.got[i] \in Listed
      BY <1>2
    <2> QED BY <2>1, <2>2 DEF G, Got, ToSet
  <1>20. \A i \in Lt : InRange(i) /\ Beyond(i) /\ i \in Listed
    BY <1>1, <1>2, <1>4 DEF UpToCursor, Lt, Left
  <1>21. \A i \in G, j \in Lt : Sooner(i, j)
    <2> TAKE i \in G, j \in Lt
    <2>1. ~Beyond(i) /\ Beyond(j)
      BY <1>1, <1>20 DEF UpToCursor, G
    <2>2. i \in Nat /\ j \in Nat /\ paging.cursor \in Nat
      BY <1>n, <1>19, <1>20
    <2> QED BY <2>1, <2>2 DEF Beyond, Sooner
  <1>22. \A i \in ToSet(m), j \in Lt \ ToSet(m) : Sooner(i, j)
    BY DEF IsPage, Lt
  <1>23. Sorted(paging.got, NewestComesFirst)'
    BY <1>12, <1>17 DEF Extends, Sorted
  <1>24. \A i \in Got' : InRange(i)'
    BY <1>1, <1>4, <1>15, <1>16, <1>20 DEF SoFar, G
  <1>25. \A i \in Missing', j \in Got' : Sooner(j, i)'
    BY <1>15, <1>16, <1>18, <1>19, <1>21, <1>22
  <1>26. Len(paging.got) = paging.asked * MaxFetch
    BY <1>1 DEF FullPages
  <1>27. (paging.asked + 1 - 1) * MaxFetch = paging.asked * MaxFetch
    BY <1>2, <1>3, Times
  <1>28. (paging.asked + 1) * MaxFetch = paging.asked * MaxFetch + MaxFetch
    BY <1>2, <1>3, Times
  <1>29. paging.most > 0 => /\ paging.limit > 0 /\ paging.limit = paging.most - paging.asked * MaxFetch
    BY <1>1, <1>3 DEF FullPages
  <1>30. paging.most > 0 => /\ Len(got) <= paging.most
                           /\ (paging.asked + 1 - 1) * MaxFetch < paging.most
    <2> SUFFICES ASSUME paging.most > 0
                 PROVE  Len(got) <= paging.most /\ paging.asked * MaxFetch < paging.most
      BY <1>27
    <2>1. paging.limit > 0 /\ paging.limit = paging.most - paging.asked * MaxFetch
      BY <1>29
    <2>2. F <= paging.limit
      BY <1>2, <1>3, <1>5, <2>1
    <2> QED BY <1>2, <1>3, <1>4, <1>5, <1>15, <1>26, <2>1, <2>2
  <1>31. SoFar'
    <2>1. (paging.most > 0 => /\ Len(paging.got) <= paging.most
                              /\ (paging.asked - 1) * MaxFetch < paging.most)'
      <3>1. (paging.asked - 1)' = paging.asked
        BY <1>2, <1>12
      <3>2. paging.most > 0 => Len(got) <= paging.most /\ paging.asked * MaxFetch < paging.most
        BY <1>27, <1>30, Zenon
      <3> QED BY <1>12, <3>1, <3>2, Zenon
    <2> QED BY <1>23, <1>24, <1>25, <2>1 DEF SoFar
  <1>32. ASSUME at = "loop"
         PROVE  UpToCursor' /\ HasCursor' /\ FullPages'
    <2>1. next \in ToSet(m) /\ \A j \in ToSet(m) : j = next \/ Sooner(j, next)
      BY <1>11, <1>32 DEF Farthest
    <2>2. next \in Listed /\ next \in Nat /\ next # 0 /\ Beyond(next)
      <3>1. next \in Lt
        BY <1>4, <2>1
      <3> QED BY <1>n, <1>20, <3>1
    <2>3. \A i : Beyond(i)' <=> Sooner(next, i)
      BY <1>11, <1>12, <1>32, <2>2 DEF Beyond, Sooner
    <2>4. \A i \in Listed : i \in Nat
      BY <1>n
    <2>6. \A i \in Got' : ~Beyond(i)'
      <3> SUFFICES ASSUME NEW i \in Got', Sooner(next, i)
                   PROVE  FALSE
        BY <2>3
      <3>1. i \in ToSet(m) \/ i \in G
        BY <1>15
      <3>2. i \in Nat /\ next \in Lt
        BY <1>4, <1>19, <1>20, <2>1, <2>4, <3>1
      <3>3. i = next \/ Sooner(i, next)
        BY <1>21, <2>1, <3>1, <3>2
      <3> QED BY <2>2, <3>2, <3>3 DEF Sooner
    <2>7. \A i \in Missing' : Beyond(i)'
      BY <1>18, <1>19, <1>22, <2>1, <2>3
    <2>8. \A i \in Listed : Beyond(i)' => InRange(i)'
      <3> SUFFICES ASSUME NEW i \in Listed, Sooner(next, i)
                   PROVE  InRange(i)
        BY <1>16, <2>3
      <3>1. Beyond(i)
        <4>1. i \in Nat /\ next \in Nat /\ paging.cursor \in Nat /\ Beyond(next)
          BY <1>n, <2>2
        <4> QED BY <4>1 DEF Beyond, Sooner
      <3> QED BY <1>1, <3>1 DEF UpToCursor
    <2>9. Len(got) = (paging.asked + 1) * MaxFetch
      BY <1>3, <1>9, <1>15, <1>26, <1>28, <1>32
    <2>10. IF paging.most = 0 THEN left = 0
           ELSE left > 0 /\ left = paging.most - (paging.asked + 1) * MaxFetch
      <3>1. CASE paging.most = 0
        <4>1. paging.limit = 0
          BY <1>1, <3>1 DEF FullPages
        <4> QED BY <1>5, <3>1, <4>1
      <3>2. CASE paging.most # 0
        <4>1. left > 0 /\ F = MaxFetch /\ paging.limit > 0 /\ paging.limit \in Nat
          BY <1>2, <1>3, <1>9, <1>29, <1>32, <3>2
        <4>2. paging.limit >= MaxFetch
          BY <1>3, <1>5, <4>1
        <4>3. left = paging.limit - MaxFetch
          BY <1>5, <4>2
        <4>4. paging.limit = paging.most - paging.asked * MaxFetch
          BY <1>3, <1>29, <3>2
        <4>5. left = paging.most - (paging.asked * MaxFetch + MaxFetch)
          BY <1>3, <4>3, <4>4
        <4> QED BY <1>28, <3>2, <4>1, <4>5
      <3> QED BY <3>1, <3>2
    <2>11. UpToCursor'
      BY <1>7, <2>6, <2>7, <2>8 DEF UpToCursor
    <2>12. HasCursor'
      BY <1>11, <1>12, <1>32, <2>2 DEF HasCursor
    <2> QED BY <1>12, <2>9, <2>10, <2>11, <2>12 DEF FullPages
  <1>33. ASSUME at = "done"
         PROVE  Exhausted'
    <2>1. CASE Len(m) < F
      <3>1. ToSet(m) = Lt
        BY <2>1 DEF IsPage, F, Lt
      <3>2. Missing' = {}
        BY <1>18, <1>19, <3>1
      <3> QED BY <3>2 DEF Exhausted
    <2>2. CASE Len(m) = F
      <3>1. paging.most # 0 /\ paging.most > 0
        <4> SUFFICES ASSUME paging.most = 0
                     PROVE  FALSE
          BY <1>3
        <4>1. paging.limit = 0
          BY <1>1 DEF FullPages
        <4> QED BY <1>5, <1>10, <1>33, <2>2, <4>1
      <3>2. F = paging.limit
        <4>1. CASE Len(m) < MaxFetch
          BY <1>2, <1>5, <2>2, <4>1
        <4>2. CASE left = 0 /\ ~(Len(m) < MaxFetch)
          <5>1. F = MaxFetch
            BY <1>3, <1>5, <2>2, <4>2
          <5>2. paging.limit > 0
            BY <1>29, <3>1
          <5>3. paging.limit >= MaxFetch
            BY <1>2, <1>3, <1>5, <5>1, <5>2
          <5> QED BY <1>2, <1>3, <1>5, <4>2, <5>1, <5>3
        <4> QED BY <1>10, <1>33, <4>1, <4>2
      <3>3. Len(got) = paging.most
        BY <1>2, <1>3, <1>15, <1>26, <1>29, <2>2, <3>1, <3>2
      <3> QED BY <1>12, <3>1, <3>3 DEF Exhausted
    <2> QED BY <1>4, <1>5, <2>1, <2>2
  <1> QED BY <1>12, <1>14, <1>31, <1>32, <1>33 DEF PageInv
-----------------------------------------------------------------------------
(* Every loop takes pages of that kind.                                     *)

LEMMA LeftFinite ==
  ASSUME PageInv
  PROVE  /\ Left \subseteq Nat /\ Left \subseteq Listed /\ IsFiniteSet(Left)
         /\ Got \subseteq Listed /\ paging.got \in Seq(Listed) /\ Listed \subseteq Nat
  <1>1. listing \subseteq Listed /\ paging.got \in Seq(Listed)
    BY DEF PageInv, PagesTypes, Calls
  <1>2. Left \subseteq Listed
    BY <1>1 DEF Left
  <1>3. IsFiniteSet(Left)
    BY <1>2, PagesAssumption, PartsFinite
  <1>4. \A n \in DOMAIN paging.got : paging.got[n] \in Listed
    BY <1>1
  <1> QED BY <1>1, <1>2, <1>3, <1>4, PagesAssumption DEF Got, ToSet

LEMMA NearestIsPage ==
  ASSUME PageInv, paging.at = "loop", NEW down \in BOOLEAN, down <=> paging.by \in Down,
         NEW T, T = Nearest(down, Left, Fetch), NEW m \in {Ascending(T), NewestFirst(T)}
  PROVE  IsPage(m)
  <1> DEFINE F == Fetch
             Lt == Left
  <1>1. F \in Nat /\ Lt \subseteq Nat /\ IsFiniteSet(Lt)
    BY FetchIs, LeftFinite
  <1>2. T = Nearest(down, Lt, F)
    OBVIOUS
  <1> HIDE DEF F, Lt
  <1>3. /\ T \subseteq Lt /\ IsFiniteSet(T) /\ Cardinality(T) \in Nat /\ Cardinality(T) <= F
        /\ Cardinality(T) < F => T = Lt
        /\ \A t \in T, s \in Lt \ T : Nearer(down, t, s)
    <2>1. NearestIn(Nearest(down, Lt, F), down, Lt, F)
      BY <1>1, NearestAre
    <2> QED BY <1>2, <2>1 DEF NearestIn
  <1>4. m \in Seq(T) /\ Len(m) = Cardinality(T) /\ ToSet(m) = T
    BY <1>1, <1>3, SortedLists
  <1>5. m \in Seq(Lt)
    BY <1>3, <1>4
  <1>6. \A t, s : Nearer(down, t, s) => Sooner(t, s)
    BY DEF Nearer, Sooner
  <1> QED BY <1>3, <1>4, <1>5, <1>6 DEF IsPage, F, Lt

LEMMA EndsOf ==
  ASSUME NEW X, X \subseteq Nat, NEW s \in Seq(X), NEW newest \in BOOLEAN, Sorted(s, newest), Len(s) > 0
  PROVE  /\ s[1] \in ToSet(s) /\ s[Len(s)] \in ToSet(s)
         /\ \A j \in ToSet(s) : /\ j = s[1] \/ IF newest THEN j < s[1] ELSE j > s[1]
                                /\ j = s[Len(s)] \/ IF newest THEN j > s[Len(s)] ELSE j < s[Len(s)]
  <1>1. Len(s) \in Nat /\ DOMAIN s = 1..Len(s) /\ 1 \in DOMAIN s /\ Len(s) \in DOMAIN s
    OBVIOUS
  <1>2. \A n \in DOMAIN s : s[n] \in Nat /\ (n = 1 \/ 1 < n) /\ (n = Len(s) \/ n < Len(s))
    <2>1. \A n \in DOMAIN s : s[n] \in X
      <3>1. s \in [1..Len(s) -> X]
        BY LenProperties
      <3> QED BY <1>1, <3>1
    <2>2. \A n \in 1..Len(s) : (n = 1 \/ 1 < n) /\ (n = Len(s) \/ n < Len(s))
      <3>1. \A N \in Nat : \A n \in 1..N : (n = 1 \/ 1 < n) /\ (n = N \/ n < N)
        OBVIOUS
      <3> QED BY <1>1, <3>1, Zenon
    <2>3. \A n \in DOMAIN s : s[n] \in Nat
      BY <2>1, Zenon
    <2> QED BY <1>1, <2>2, <2>3, Zenon
  <1>3. ASSUME NEW n \in DOMAIN s
        PROVE  /\ s[n] = s[1] \/ IF newest THEN s[n] < s[1] ELSE s[n] > s[1]
               /\ s[n] = s[Len(s)] \/ IF newest THEN s[n] > s[Len(s)] ELSE s[n] < s[Len(s)]
    <2>1. s[n] \in Nat /\ s[1] \in Nat /\ s[Len(s)] \in Nat
      BY <1>1, <1>2
    <2>2. /\ n = 1 \/ IF newest THEN s[1] > s[n] ELSE s[1] < s[n]
          /\ n = Len(s) \/ IF newest THEN s[n] > s[Len(s)] ELSE s[n] < s[Len(s)]
      BY <1>1, <1>2, <1>3 DEF Sorted
    <2> QED BY <2>1, <2>2
  <1> QED BY <1>1, <1>3 DEF ToSet

LEMMA PageFits ==
  ASSUME PageInv, paging.at = "loop", NEW m, IsPage(m), Sorted(m, NewestComesFirst),
         NEW got, NEW next, NEW left \in {LessAPage, LessFetched},
         IF NewestComesFirst <=> paging.by \in Down
         THEN got = paging.got \o m /\ (Len(m) > 0 => next = m[Len(m)])
         ELSE got = m \o paging.got /\ (Len(m) > 0 => next = m[1]),
         Turn(m, got, next, left)
  PROVE  PageInv'
  <1> DEFINE newest == NewestComesFirst
             G == paging.got
  <1>1. /\ m \in Seq(Listed) /\ G \in Seq(Listed) /\ Listed \subseteq Nat /\ newest \in BOOLEAN
        /\ Len(m) \in Nat /\ Sorted(G, newest) /\ Sorted(m, newest)
    <2>1. m \in Seq(Left) /\ Left \subseteq Listed /\ G \in Seq(Listed) /\ Listed \subseteq Nat
      BY LeftFinite DEF IsPage
    <2>2. newest \in BOOLEAN
      BY DEF NewestComesFirst
    <2>3. Sorted(G, newest) /\ Sorted(m, newest)
      BY DEF PageInv, SoFar
    <2> HIDE DEF newest, G
    <2>4. m \in Seq(Listed) /\ Len(m) \in Nat
      BY <2>1, SeqMonotonic, LenProperties
    <2> QED BY <2>1, <2>2, <2>3, <2>4
  <1>2. \A i \in ToSet(m) : i \in Left
    <2>1. m \in Seq(Left)
      BY DEF IsPage
    <2> QED BY <2>1 DEF ToSet
  <1>3. ASSUME NEW i \in ToSet(G), NEW j \in ToSet(m)
        PROVE  IF paging.by \in Down THEN i > j ELSE i < j
    <2>1. ~Beyond(i) /\ Beyond(j)
      BY <1>2 DEF PageInv, UpToCursor, Got, Left
    <2>2. i \in Nat /\ j \in Nat /\ paging.cursor \in Nat
      BY <1>2, LeftFinite, PageNumbers DEF PageInv, Got
    <2> QED BY <2>1, <2>2 DEF Beyond
  <1>4. Extends(m, got)
    <2>1. CASE newest <=> paging.by \in Down
      <3>1. InFront(G, m, newest)
        BY <1>3, <2>1 DEF InFront
      <3>2. got = G \o m
        BY <2>1
      <3> HIDE DEF newest, G
      <3>3. Joint(G \o m, G, m, Listed, newest)
        BY <1>1, <3>1, Joined
      <3>4. Joint(got, G, m, Listed, newest)
        BY <3>2, <3>3
      <3>5. Len(G) + Len(m) = Len(m) + Len(G)
        BY <1>1
      <3> QED BY <3>4, <3>5 DEF Extends, newest, G, Got, Joint
    <2>2. CASE ~(newest <=> paging.by \in Down)
      <3>1. InFront(m, G, newest)
        <4> SUFFICES \A i \in ToSet(m), j \in ToSet(G) : IF newest THEN i > j ELSE i < j
          BY DEF InFront
        <4> TAKE i \in ToSet(m), j \in ToSet(G)
        <4>1. i \in Nat /\ j \in Nat
          BY <1>2, LeftFinite DEF Got
        <4>2. IF paging.by \in Down THEN j > i ELSE j < i
          BY <1>3
        <4> QED BY <1>1, <2>2, <4>1, <4>2
      <3>2. got = m \o G
        BY <2>2
      <3> HIDE DEF newest, G
      <3>3. Joint(m \o G, m, G, Listed, newest)
        BY <1>1, <3>1, Joined
      <3>4. Joint(got, m, G, Listed, newest)
        BY <3>2, <3>3
      <3> QED BY <3>4 DEF Extends, newest, G, Got, Joint
    <2> QED BY <2>1, <2>2
  <1>5. ASSUME Len(m) = MaxFetch
        PROVE  Farthest(next, m)
    <2>1. Len(m) > 0
      BY <1>5, PageNumbers DEF PageInv
    <2>2. /\ m[1] \in ToSet(m) /\ m[Len(m)] \in ToSet(m)
          /\ \A j \in ToSet(m) : /\ j = m[1] \/ IF newest THEN j < m[1] ELSE j > m[1]
                                 /\ j = m[Len(m)] \/ IF newest THEN j > m[Len(m)] ELSE j < m[Len(m)]
      <3> HIDE DEF newest, G
      <3> QED BY <1>1, <2>1, EndsOf
    <2>3. CASE newest <=> paging.by \in Down
      BY <2>1, <2>2, <2>3 DEF Farthest, Sooner
    <2>4. CASE ~(newest <=> paging.by \in Down)
      BY <2>1, <2>2, <2>4 DEF Farthest, Sooner
    <2> QED BY <2>3, <2>4
  <1> QED BY <1>4, <1>5, TurnKeeps

(* What the server answers to each of them.                                 *)
LEMMA BelowIs ==
  ASSUME PageInv, paging.by \in Down
  PROVE  Below(paging.cursor, Fetch) = Nearest(TRUE, Left, Fetch)
  BY DEF Below, Nearest, Passed, Nearer, Left, Beyond

LEMMA AboveIs ==
  ASSUME PageInv, paging.by \notin Down
  PROVE  /\ Above(paging.cursor, Fetch) = Nearest(FALSE, Left, Fetch)
         /\ Above(IF paging.cursor = 0 THEN 1 ELSE paging.cursor, Fetch) = Nearest(FALSE, Left, Fetch)
  <1>1. Left = {i \in listing : i > paging.cursor}
    BY DEF Left, Beyond
  <1>2. {i \in listing : i > paging.cursor}
        = {i \in listing : i > (IF paging.cursor = 0 THEN 1 ELSE paging.cursor)}
    <2>1. \A i \in listing : i \in Nat /\ i # 0 /\ i # 1
      BY PageNumbers DEF PageInv, PagesTypes
    <2>2. \A i \in listing : i > 0 <=> i > 1
      BY <2>1
    <2> QED BY <2>2
  <1>3. ASSUME NEW c
        PROVE  Above(c, Fetch) = Nearest(FALSE, {i \in listing : i > c}, Fetch)
    <2> DEFINE S == {i \in listing : i > c}
    <2>1. Above(c, Fetch) = {i \in S : Cardinality({j \in S : j < i}) < Fetch}
      BY DEF Above
    <2> HIDE DEF S
    <2>2. \A i : Passed(FALSE, S, i) = {j \in S : j < i}
      BY DEF Passed, Nearer
    <2>3. Above(c, Fetch) = Nearest(FALSE, S, Fetch)
      BY <2>1, <2>2 DEF Nearest
    <2> QED BY <2>3 DEF S
  <1> DEFINE c == IF paging.cursor = 0 THEN 1 ELSE paging.cursor
  <1>4. Above(paging.cursor, Fetch) = Nearest(FALSE, {i \in listing : i > paging.cursor}, Fetch)
    BY <1>3
  <1>5. Above(c, Fetch) = Nearest(FALSE, {i \in listing : i > c}, Fetch)
    BY <1>3
  <1>6. Left = {i \in listing : i > c}
    BY <1>1, <1>2
  <1> HIDE DEF c
  <1>7. Above(c, Fetch) = Nearest(FALSE, Left, Fetch)
    BY <1>5, <1>6
  <1>8. Above(paging.cursor, Fetch) = Nearest(FALSE, Left, Fetch)
    BY <1>1, <1>4
  <1> QED BY <1>7, <1>8 DEF c

LEMMA SetSorted ==
  ASSUME PageInv, paging.at = "loop", NEW down \in BOOLEAN
  PROVE  /\ Sorted(Ascending(Nearest(down, Left, Fetch)), FALSE)
         /\ Sorted(NewestFirst(Nearest(down, Left, Fetch)), TRUE)
  <1>1. /\ Nearest(down, Left, Fetch) \subseteq Nat
        /\ IsFiniteSet(Nearest(down, Left, Fetch))
    <2> DEFINE T == Nearest(down, Left, Fetch)
    <2>1. T \subseteq Left
      BY DEF Nearest
    <2> HIDE DEF T
    <2> QED BY <2>1, LeftFinite, PartsFinite DEF T
  <1> QED BY <1>1, SortedLists

LEMMA PageStep == PageInv /\ [PagesNext]_pageVars => PageInv'
  <1> SUFFICES ASSUME PageInv, [PagesNext]_pageVars
               PROVE  PageInv'
    OBVIOUS
  <1>n. /\ NewestComesFirst <=> paging.by \in {"MessagesBefore", "MessagesAfter"}
        /\ paging.at = "loop" => HasCursor
    BY DEF NewestComesFirst, PageInv
  <1>1. CASE MessagesBefore
    <2> DEFINE m == NewestFirst(Nearest(TRUE, Left, Fetch))
    <2>1. paging.by = "MessagesBefore" /\ paging.at = "loop" /\ paging.by \in Down
      BY <1>1 DEF MessagesBefore, Looping, Down
    <2>2. Turn(m, paging.got \o m, m[Len(m)], LessAPage)
      BY <1>1, <2>1, BelowIs DEF MessagesBefore, messagesRange
    <2>3. IsPage(m) /\ Sorted(m, NewestComesFirst)
      BY <1>n, <2>1, NearestIsPage, SetSorted
    <2> HIDE DEF m
    <2> QED BY <1>n, <2>1, <2>2, <2>3, PageFits
  <1>2. CASE MessagesAfter
    <2> DEFINE m == NewestFirst(Nearest(FALSE, Left, Fetch))
    <2>1. paging.by = "MessagesAfter" /\ paging.at = "loop" /\ paging.by \notin Down
      BY <1>2 DEF MessagesAfter, Looping, Down
    <2>2. Turn(m, m \o paging.got, m[1], LessAPage)
      <3>1. (IF paging.cursor = 0 THEN 1 ELSE paging.cursor) # 0
        OBVIOUS
      <3> QED BY <1>2, <2>1, <3>1, AboveIs DEF MessagesAfter, messagesRange
    <2>3. IsPage(m) /\ Sorted(m, NewestComesFirst)
      BY <1>n, <2>1, NearestIsPage, SetSorted
    <2> HIDE DEF m
    <2> QED BY <1>n, <2>1, <2>2, <2>3, PageFits
  <1>3. CASE ReactionsBefore \/ GuildsBefore
    <2> DEFINE m == Ascending(Nearest(TRUE, Left, Fetch))
    <2>1. /\ paging.by \in {"ReactionsBefore", "GuildsBefore"} /\ paging.at = "loop"
          /\ paging.by \in Down /\ paging.cursor # 0
      BY <1>3, <1>n DEF ReactionsBefore, GuildsBefore, Looping, Down, HasCursor
    <2>2. Turn(m, m \o paging.got, m[1], LessFetched)
      BY <1>3, <2>1, BelowIs DEF ReactionsBefore, GuildsBefore, reactionsRange, guildsRange
    <2>3. ~NewestComesFirst /\ NewestComesFirst = FALSE
      BY <1>n, <2>1 DEF NewestComesFirst
    <2>4. IsPage(m) /\ Sorted(m, NewestComesFirst)
      BY <2>1, <2>3, NearestIsPage, SetSorted
    <2> HIDE DEF m
    <2> QED BY <2>1, <2>2, <2>3, <2>4, PageFits
  <1>4. CASE ReactionsAfter \/ GuildsAfter
    <2> DEFINE m == Ascending(Nearest(FALSE, Left, Fetch))
    <2>1. paging.by \in {"ReactionsAfter", "GuildsAfter"} /\ paging.at = "loop" /\ paging.by \notin Down
      BY <1>4 DEF ReactionsAfter, GuildsAfter, Looping, Down
    <2>2. Turn(m, paging.got \o m, m[Len(m)], LessFetched)
      BY <1>4, <2>1, AboveIs DEF ReactionsAfter, GuildsAfter, reactionsRange, guildsRange
    <2>3. ~NewestComesFirst /\ NewestComesFirst = FALSE
      BY <1>n, <2>1 DEF NewestComesFirst
    <2>4. IsPage(m) /\ Sorted(m, NewestComesFirst)
      BY <2>1, <2>3, NearestIsPage, SetSorted
    <2> HIDE DEF m
    <2> QED BY <2>1, <2>2, <2>3, <2>4, PageFits
  <1>5. CASE MembersAfter
    <2> DEFINE m == Ascending(Nearest(FALSE, Left, Fetch))
               mems == paging.got \o m
    <2>1. paging.by = "MembersAfter" /\ paging.at = "loop" /\ paging.by \notin Down
      BY <1>5 DEF MembersAfter, Looping, Down
    <2>2. Turn(m, mems, mems[Len(mems)], LessFetched)
      BY <1>5, <2>1, AboveIs DEF MembersAfter, membersAfter
    <2>3. ~NewestComesFirst /\ NewestComesFirst = FALSE
      BY <1>n, <2>1 DEF NewestComesFirst
    <2>4. IsPage(m) /\ Sorted(m, NewestComesFirst)
      BY <2>1, <2>3, NearestIsPage, SetSorted
    <2> HIDE DEF m
    <2>5. Len(m) > 0 => mems[Len(mems)] = m[Len(m)]
      <3>1. m \in Seq(Listed) /\ paging.got \in Seq(Listed)
        BY <2>4, LeftFinite DEF IsPage
      <3> QED BY <3>1
    <2> HIDE DEF mems
    <2>6. mems = paging.got \o m
      BY DEF mems
    <2> QED BY <2>1, <2>2, <2>3, <2>4, <2>5, <2>6, PageFits
  <1>6. CASE PageFails
    <2>1. /\ paging' = [paging EXCEPT !.at = "failed"] /\ listing' = listing /\ paging \in Calls
          /\ PagesTypes /\ SoFar
      BY <1>6 DEF PageFails, PageInv, PagesTypes
    <2>2. /\ paging' \in Calls /\ paging'.at = "failed" /\ paging'.stayed = paging.stayed
          /\ paging'.got = paging.got /\ paging'.by = paging.by /\ paging'.from = paging.from
          /\ paging'.most = paging.most /\ paging'.asked = paging.asked
      BY <2>1 DEF Calls
    <2>3. PagesTypes'
      BY <2>1, <2>2 DEF PagesTypes
    <2>4. SoFar'
      BY <2>1, <2>2 DEF SoFar, Got, Missing, InRange, Sooner, Sorted, NewestComesFirst
    <2> QED BY <2>2, <2>3, <2>4 DEF PageInv
  <1>7. CASE Listing
    <2>1. /\ paging.at = "loop" /\ PagesTypes /\ SoFar /\ UpToCursor /\ HasCursor /\ FullPages
      BY <1>7 DEF Listing, PageInv
    <2>2. PICK i \in Listed :
              \/ i \notin listing /\ listing' = listing \cup {i} /\ paging' = paging
              \/ /\ i \in listing /\ listing' = listing \ {i}
                 /\ paging' = [paging EXCEPT !.stayed = paging.stayed \ {i}]
      BY <1>7 DEF Listing
    <2>3. paging.stayed \ {i} \in SUBSET Listed
      BY <2>1 DEF PagesTypes, Calls
    <2>4. /\ paging' \in Calls /\ paging'.at = "loop"
          /\ paging'.stayed \subseteq paging.stayed /\ paging'.stayed \subseteq listing'
          /\ paging'.got = paging.got /\ paging'.by = paging.by /\ paging'.from = paging.from
          /\ paging'.most = paging.most /\ paging'.asked = paging.asked
          /\ paging'.cursor = paging.cursor /\ paging'.limit = paging.limit
      BY <2>1, <2>2, <2>3 DEF PagesTypes, Calls
    <2>5. listing' \subseteq Listed
      BY <2>1, <2>2 DEF PagesTypes
    <2>6. /\ Got' = Got /\ \A j : (InRange(j)' <=> InRange(j)) /\ (Beyond(j)' <=> Beyond(j))
          /\ \A j, k : Sooner(j, k)' <=> Sooner(j, k)
          /\ NewestComesFirst' = NewestComesFirst
      BY <2>4 DEF Got, InRange, Beyond, Sooner, NewestComesFirst
    <2>7. Missing' \subseteq Missing
      BY <2>4, <2>6 DEF Missing
    <2>8. PagesTypes'
      BY <2>4, <2>5 DEF PagesTypes
    <2>9. SoFar'
      BY <2>1, <2>4, <2>6, <2>7 DEF SoFar, Sorted
    <2>10. UpToCursor'
      BY <2>1, <2>6, <2>7 DEF UpToCursor
    <2>11. HasCursor' /\ FullPages'
      BY <2>1, <2>4 DEF HasCursor, FullPages
    <2> QED BY <2>4, <2>8, <2>9, <2>10, <2>11 DEF PageInv
  <1>8. CASE UNCHANGED pageVars
    <2>1. paging' = paging /\ listing' = listing
      BY <1>8 DEF pageVars
    <2> QED BY <2>1 DEF PageInv, PagesTypes, SoFar, UpToCursor, HasCursor, FullPages, Exhausted, Got, Missing,
                        InRange, Beyond, Sooner, Sorted, NewestComesFirst
  <1> QED BY <1>1, <1>2, <1>3, <1>4, <1>5, <1>6, <1>7, <1>8 DEF PagesNext

(* Whatever is listed, whatever comes and goes between two requests, and    *)
(* whichever limit and page size: a call has everything once and in order,  *)
(* and all that was there all the time, as far as its limit goes            *)
(* (Client.Messages, Reactions, Guilds and Members of package api).         *)
THEOREM PagesAreComplete == PagesSpec => []PagesComplete
  <1>1. PagesInit => PageInv
    BY PagesStart
  <1>2. PageInv /\ [PagesNext]_pageVars => PageInv'
    BY PageStep
  <1>3. PageInv => PagesComplete
    BY PageRight
  <1> QED BY <1>1, <1>2, <1>3, PTL DEF PagesSpec

-----------------------------------------------------------------------------
(* Loops that append: what FlattenSeq puts together.                        *)

LEMMA Flattened ==
  ASSUME NEW X, NEW s \in Seq(Seq(X))
  PROVE  \E f : /\ f \in [0..Len(s) -> Seq(X)] /\ f[0] = <<>> /\ FlattenSeq(s) = f[Len(s)]
                /\ \A n \in 1..Len(s) : f[n] = f[n - 1] \o s[n]
  <1>1. PICK N \in Nat : N = Len(s)
    OBVIOUS
  <1> DEFINE turn == [a \in (1..N) \X Seq(X) |-> a[2] \o s[a[1]]]
  <1>2. turn \in [(1..N) \X Seq(X) -> Seq(X)]
    BY <1>1
  <1>3. \A n \in 1..N, x \in Seq(X) : turn[<<n, x>>] = x \o s[n]
    OBVIOUS
  <1>4. <<>> \in Seq(X)
    OBVIOUS
  <1> HIDE DEF turn
  <1>5. PICK f : Runs(f, Seq(X), N, <<>>, turn)
    BY <1>2, <1>4, Loop
  <1>6. f \in [0..N -> Seq(X)] /\ f[0] = <<>>
    <2>1. 0 \in 0..N
      BY <1>1
    <2> QED BY <1>5, <2>1 DEF Runs
  <1>7. ASSUME NEW n \in 1..N
        PROVE  f[n] = f[n - 1] \o s[n] /\ f[n] \in Seq(X)
    <2>1. n \in 0..N /\ n # 0 /\ n - 1 \in 0..N
      OBVIOUS
    <2>2. f[n] = turn[<<n, f[n - 1]>>]
      BY <1>5, <2>1 DEF Runs
    <2> QED BY <1>3, <1>6, <2>1, <2>2
  <1>8. CASE N = 0
    <2>1. s = <<>>
      BY <1>1, <1>8, EmptySeq
    <2>2. FlattenSeq(s) = s
      BY <1>1, <1>8 DEF FlattenSeq
    <2> QED BY <1>1, <1>6, <1>8, <2>1, <2>2
  <1>9. CASE N # 0
    <2> DEFINE Flat(x) == x = [i \in 1..N |-> IF i = 1 THEN s[i] ELSE x[i - 1] \o s[i]]
               flat == CHOOSE x : Flat(x)
               h == [i \in 1..N |-> f[i]]
    <2>1. Flat(h)
      <3>1. ASSUME NEW i \in 1..N
            PROVE  h[i] = IF i = 1 THEN s[i] ELSE h[i - 1] \o s[i]
        <4>1. h[i] = f[i - 1] \o s[i] /\ s[i] \in Seq(X) /\ h[i] = f[i]
          <5>1. i \in 1..Len(s)
            BY <1>1
          <5>2. s[i] \in Seq(X)
            BY <5>1
          <5> QED BY <1>7, <5>2
        <4>2. CASE i = 1
          <5>1. f[i - 1] = <<>> /\ <<>> \o s[i] = s[i]
            BY <1>6, <4>1, <4>2
          <5> QED BY <4>1, <4>2, <5>1
        <4>3. CASE i # 1
          <5>1. i - 1 \in 1..N
            BY <4>3
          <5> QED BY <4>1, <4>3, <5>1
        <4> QED BY <4>2, <4>3
      <3> QED BY <3>1
    <2>2. Flat(flat)
      BY <2>1
    <2> HIDE DEF flat
    <2>3. \A i \in 1..N : flat[i] = IF i = 1 THEN s[i] ELSE flat[i - 1] \o s[i]
      BY <2>2
    <2> DEFINE S == {n \in Nat : n + 1 <= N => flat[n + 1] = f[n + 1]}
    <2>4. 0 \in S
      <3>1. 1 \in 1..N /\ s[1] \in Seq(X) /\ <<>> \o s[1] = s[1]
        BY <1>1, <1>9
      <3>2. flat[1] = s[1] /\ f[1] = f[1 - 1] \o s[1]
        BY <1>7, <2>3, <3>1
      <3>3. f[1 - 1] = <<>>
        BY <1>6
      <3>4. flat[1] = f[1]
        BY <3>1, <3>2, <3>3
      <3> QED BY <3>4
    <2>5. ASSUME NEW n \in Nat, n \in S
          PROVE  n + 1 \in S
      <3> SUFFICES ASSUME (n + 1) + 1 <= N
                   PROVE  flat[(n + 1) + 1] = f[(n + 1) + 1]
        OBVIOUS
      <3>1. (n + 1) + 1 \in 1..N /\ ((n + 1) + 1) - 1 = n + 1 /\ (n + 1) + 1 # 1
        OBVIOUS
      <3>2. flat[n + 1] = f[n + 1]
        BY <2>5
      <3>3. flat[(n + 1) + 1] = flat[n + 1] \o s[(n + 1) + 1]
        BY <2>3, <3>1
      <3> QED BY <1>7, <3>1, <3>2, <3>3
    <2> HIDE DEF S
    <2>6. N - 1 \in S
      <3>1. N - 1 \in Nat
        BY <1>9
      <3> QED BY <2>4, <2>5, <3>1, UpFromZero
    <2>7. flat[N] = f[N]
      <3>1. (N - 1) + 1 = N
        OBVIOUS
      <3> QED BY <2>6, <3>1 DEF S
    <2>8. FlattenSeq(s) = flat[N]
      BY <1>1, <1>9 DEF FlattenSeq, flat
    <2> QED BY <1>1, <1>6, <1>7, <2>7, <2>8
  <1> QED BY <1>8, <1>9

(* Where each part of what FlattenSeq puts together is.                     *)
Placed(s, r, at) ==
    /\ at \in [0..Len(s) -> Nat] /\ at[0] = 0 /\ Len(r) = at[Len(s)]
    /\ \A n \in 1..Len(s) : at[n] = at[n - 1] + Len(s[n])
    /\ \A n, m \in 1..Len(s) : n < m => at[n] <= at[m - 1]
    /\ \A n \in 1..Len(s), j \in Nat :
           j \in 1..Len(s[n]) => at[n - 1] + j \in 1..Len(r) /\ r[at[n - 1] + j] = s[n][j]
    /\ \A i \in 1..Len(r) : \E n \in 1..Len(s), j \in Nat : j \in 1..Len(s[n]) /\ i = at[n - 1] + j

LEMMA Concatenated ==
  ASSUME NEW X, NEW a \in Seq(X), NEW b \in Seq(X), NEW c, c = a \o b
  PROVE  /\ c \in Seq(X) /\ Len(c) = Len(a) + Len(b)
         /\ \A i \in 1..(Len(a) + Len(b)) : c[i] = IF i <= Len(a) THEN a[i] ELSE b[i - Len(a)]
  BY ConcatProperties

LEMMA FlatParts ==
  ASSUME NEW X, NEW s \in Seq(Seq(X))
  PROVE  FlattenSeq(s) \in Seq(X) /\ \E at : Placed(s, FlattenSeq(s), at)
  <1>1. PICK N \in Nat : N = Len(s)
    OBVIOUS
  <1>2. PICK f : /\ f \in [0..N -> Seq(X)] /\ f[0] = <<>> /\ FlattenSeq(s) = f[N]
                 /\ \A n \in 1..N : f[n] = f[n - 1] \o s[n]
    <2>1. PICK f : /\ f \in [0..Len(s) -> Seq(X)] /\ f[0] = <<>> /\ FlattenSeq(s) = f[Len(s)]
                   /\ \A n \in 1..Len(s) : f[n] = f[n - 1] \o s[n]
      BY Flattened
    <2> QED BY <1>1, <2>1
  <1> DEFINE at == [n \in 0..N |-> Len(f[n])]
  <1>3. /\ at \in [0..N -> Nat] /\ at[0] = 0
        /\ \A n \in 0..N : at[n] = Len(f[n]) /\ f[n] \in Seq(X)
    BY <1>1, <1>2
  <1>4. \A n \in 1..N : s[n] \in Seq(X) /\ Len(s[n]) \in Nat
    BY <1>1
  <1> HIDE DEF at
  <1>5. ASSUME NEW n \in 1..N
        PROVE  /\ at[n] = at[n - 1] + Len(s[n]) /\ at[n - 1] \in Nat
               /\ \A i \in 1..at[n - 1] : f[n][i] = f[n - 1][i]
               /\ \A j \in 1..Len(s[n]) : f[n][at[n - 1] + j] = s[n][j]
    <2>1. n \in 0..N /\ n - 1 \in 0..N
      OBVIOUS
    <2>2. PICK L \in Nat, M \in Nat : L = Len(f[n - 1]) /\ M = Len(s[n]) /\ at[n - 1] = L
      BY <1>3, <1>4, <2>1
    <2>3. f[n] = f[n - 1] \o s[n] /\ f[n - 1] \in Seq(X) /\ s[n] \in Seq(X)
      BY <1>2, <1>3, <1>4, <2>1
    <2>4. /\ Len(f[n]) = Len(f[n - 1]) + Len(s[n])
          /\ \A i \in 1..(Len(f[n - 1]) + Len(s[n])) :
                 f[n][i] = IF i <= Len(f[n - 1]) THEN f[n - 1][i] ELSE s[n][i - Len(f[n - 1])]
      <3>1. PICK a \in Seq(X) : a = f[n - 1]
        BY <2>3
      <3>2. PICK b \in Seq(X) : b = s[n]
        BY <2>3
      <3>3. PICK c : c = f[n]
        OBVIOUS
      <3>4. c = a \o b
        BY <2>3, <3>1, <3>2, <3>3
      <3>5. /\ Len(c) = Len(a) + Len(b)
            /\ \A i \in 1..(Len(a) + Len(b)) : c[i] = IF i <= Len(a) THEN a[i] ELSE b[i - Len(a)]
        <4> HIDE <3>1, <3>2, <3>3
        <4> QED BY <3>4, Concatenated
      <3> QED BY <3>1, <3>2, <3>3, <3>5
    <2>5. \A i \in 1..(L + M) : f[n][i] = IF i <= L THEN f[n - 1][i] ELSE s[n][i - L]
      BY <2>2, <2>4
    <2>6. \A i \in 1..L : f[n][i] = f[n - 1][i]
      BY <2>5
    <2>7. ASSUME NEW j \in 1..M
          PROVE  f[n][L + j] = s[n][j]
      <3>1. L + j \in 1..(L + M) /\ ~(L + j <= L) /\ (L + j) - L = j
        OBVIOUS
      <3> QED BY <2>5, <3>1
    <2> QED BY <1>3, <2>1, <2>2, <2>4, <2>6, <2>7
  <1> DEFINE There(n) == \A m \in 1..n, j \in Nat :
                 j \in 1..Len(s[m]) => at[m - 1] + j \in 1..at[n] /\ f[n][at[m - 1] + j] = s[m][j]
             Only(n) == \A i \in 1..at[n] :
                 \E m \in 1..n, j \in Nat : j \in 1..Len(s[m]) /\ i = at[m - 1] + j
             Grows(n) == \A m \in 1..n : at[m] <= at[n]
             G == {n \in Nat : n <= N => There(n) /\ Only(n) /\ Grows(n)}
  <1>6. 0 \in G
    BY <1>3
  <1> HIDE DEF G
  <1>7. ASSUME NEW n \in Nat, n + 1 <= N, There(n), Only(n), Grows(n)
        PROVE  There(n + 1) /\ Only(n + 1) /\ Grows(n + 1)
    <2>1. n + 1 \in 1..N /\ (n + 1) - 1 = n /\ n \in 0..N
      BY <1>7
    <2>2. PICK L \in Nat, M \in Nat : L = at[n] /\ M = Len(s[n + 1])
      BY <1>3, <1>4, <2>1
    <2>3. /\ at[n + 1] = L + M /\ \A i \in 1..L : f[n + 1][i] = f[n][i]
          /\ \A j \in 1..M : f[n + 1][L + j] = s[n + 1][j]
      <3>1. /\ at[n + 1] = at[(n + 1) - 1] + Len(s[n + 1])
            /\ \A i \in 1..at[(n + 1) - 1] : f[n + 1][i] = f[(n + 1) - 1][i]
            /\ \A j \in 1..Len(s[n + 1]) : f[n + 1][at[(n + 1) - 1] + j] = s[n + 1][j]
        BY <1>5, <2>1
      <3> QED BY <2>1, <2>2, <3>1
    <2>4. There(n) /\ Only(n) /\ Grows(n)
      BY <1>7
    <2>5. \A m \in 1..(n + 1) : m \in 1..n \/ m = n + 1
      OBVIOUS
    <2>6. There(n + 1)
      <3> SUFFICES ASSUME NEW m \in 1..(n + 1), NEW j \in Nat, j \in 1..Len(s[m])
                   PROVE  at[m - 1] + j \in 1..(L + M) /\ f[n + 1][at[m - 1] + j] = s[m][j]
        BY <2>3
      <3>1. CASE m = n + 1
        <4>1. j \in 1..M /\ at[m - 1] = L
          BY <2>1, <2>2, <3>1
        <4>2. L + j \in 1..(L + M)
          BY <4>1
        <4> QED BY <2>3, <3>1, <4>1, <4>2
      <3>2. CASE m \in 1..n
        <4>1. at[m - 1] + j \in 1..L /\ f[n][at[m - 1] + j] = s[m][j]
          BY <2>2, <2>4, <3>2
        <4>2. at[m - 1] + j \in 1..(L + M)
          BY <4>1
        <4> QED BY <2>3, <4>1, <4>2
      <3> QED BY <2>5, <3>1, <3>2
    <2>7. ASSUME NEW i \in 1..(L + M)
          PROVE  \E m \in 1..(n + 1), j \in Nat : j \in 1..Len(s[m]) /\ i = at[m - 1] + j
      <3>1. CASE i <= L
        <4>1. i \in 1..at[n]
          BY <2>2, <3>1
        <4>2. PICK m \in 1..n, j \in Nat : j \in 1..Len(s[m]) /\ i = at[m - 1] + j
          BY <2>4, <4>1
        <4> QED BY <4>2
      <3>2. CASE ~(i <= L)
        <4>1. i - L \in Nat /\ i - L \in 1..M /\ i = L + (i - L) /\ n + 1 \in 1..(n + 1)
          BY <3>2
        <4> QED BY <2>1, <2>2, <4>1
      <3> QED BY <3>1, <3>2
    <2>8. Grows(n + 1)
      <3>1. \A m \in 1..n : at[m] \in Nat /\ at[m] <= L
        BY <1>3, <2>1, <2>2, <2>4
      <3>2. \A m \in 1..n : at[m] <= L + M
        BY <3>1
      <3> QED BY <2>3, <2>5, <3>2
    <2> QED BY <2>3, <2>6, <2>7, <2>8
  <1>8. \A n \in Nat : n \in G
    <2> HIDE DEF There, Only, Grows
    <2>1. ASSUME NEW n \in Nat, n \in G
          PROVE  n + 1 \in G
      <3>1. n + 1 <= N => n <= N
        OBVIOUS
      <3> QED BY <1>7, <2>1, <3>1 DEF G
    <2> QED BY <1>6, <2>1, UpFromZero
  <1>9. \A n \in 0..N : There(n) /\ Only(n) /\ Grows(n)
    <2> HIDE DEF There, Only, Grows
    <2> QED BY <1>8 DEF G
  <1>10. ASSUME NEW n \in 1..N, NEW m \in 1..N, n < m
         PROVE  at[n] <= at[m - 1]
    <2>1. m - 1 \in 0..N /\ n \in 1..(m - 1)
      BY <1>10
    <2> QED BY <1>9, <2>1
  <1>11. There(N) /\ Only(N) /\ N \in 0..N
    <2>1. N \in 0..N
      OBVIOUS
    <2> HIDE DEF There, Only, Grows
    <2> QED BY <1>9, <2>1
  <1>12. Placed(s, f[N], at)
    BY <1>1, <1>3, <1>5, <1>10, <1>11 DEF Placed
  <1> QED BY <1>2, <1>3, <1>11, <1>12
-----------------------------------------------------------------------------
(* BotContext: what is registered.                                          *)

IDs == STRING \cup {mw.id : mw \in Middlewares}
NoName == ""
Alike == (STRING \cup CommandNames) \ {NoName}
Methods == [name : STRING \ {NoName}, event : STRING, args : Seq(STRING), middlewares : Seq(Middlewares),
            names : Seq(Alike)]
SubNames == {NoName} \cup CommandNames
NoAliases == {<<>>}
Plumbs == STRING \cup {NoName}
Subcommands == [command : SubNames, aliases : NoAliases, hidden : BOOLEAN, plumbed : Plumbs,
                globalmws : Seq(Middlewares), Commands : Seq(Methods), Events : Seq(Methods)]
NamedOnce(ms) == \A i, j \in 1..Len(ms) : ms[i].name = ms[j].name => i = j
Sound(s) ==
    /\ NamedOnce(s.Commands) /\ NamedOnce(s.Events)
    /\ s.plumbed # NoName => \E i \in 1..Len(s.Commands) : s.Commands[i].name = s.plumbed
SubsRight ==
    /\ subs \in Seq(Subcommands) /\ subs # <<>> /\ subs[1].command = NoName
    /\ \A k \in 1..Len(subs) : Sound(subs[k])
    /\ \A k \in 2..Len(subs) : subs[k].command # NoName
    /\ \A k, l \in 2..Len(subs) : subs[k].command = subs[l].command => k = l

LEMMA SubsFacts ==
  ASSUME SubsRight, NEW n \in 1..Len(subs)
  PROVE  subs[n] \in Subcommands /\ Sound(subs[n]) /\ n \in Nat
  <1>1. subs \in Seq(Subcommands)
    BY DEF SubsRight
  <1>2. Sound(subs[n])
    BY DEF SubsRight
  <1>3. subs[n] \in Subcommands /\ n \in Nat
    BY <1>1
  <1> QED BY <1>2, <1>3

LEMMA OneMore ==
  ASSUME NEW X, NEW a \in Seq(X), NEW x \in X, NEW b, b = a \o <<x>>
  PROVE  /\ b \in Seq(X) /\ Len(b) = Len(a) + 1 /\ b[Len(a) + 1] = x
         /\ \A i \in 1..Len(a) : b[i] = a[i]
  <1>1. <<x>> \in Seq(X) /\ Len(<<x>>) = 1 /\ <<x>>[1] = x /\ Len(a) \in Nat
    OBVIOUS
  <1>2. /\ b \in Seq(X) /\ Len(b) = Len(a) + 1
        /\ \A i \in 1..(Len(a) + 1) : b[i] = IF i <= Len(a) THEN a[i] ELSE <<x>>[i - Len(a)]
    BY <1>1, ConcatProperties
  <1> QED BY <1>1, <1>2

LEMMA ParsedMethod ==
  ASSUME NEW sig \in Signatures
  PROVE  parseMethod(sig) \in Methods /\ parseMethod(sig).name = sig.name
  <1>1. sig.args \in Seq(STRING) /\ sig.name \in STRING \ {NoName} /\ sig.event \in STRING
    BY DEF Signatures, NoName
  <1>2. Kept(sig.args) \subseteq 1..Len(sig.args)
    BY <1>1, LenProperties DEF Kept
  <1>3. IsFiniteSet(1..Len(sig.args)) /\ Cardinality(1..Len(sig.args)) = Len(sig.args)
    <2>1. PICK n \in Nat : n = Len(sig.args)
      BY <1>1, LenProperties
    <2>2. IsFiniteSet(1..n) /\ Cardinality(1..n) = IF 1 > n THEN 0 ELSE n - 1 + 1
      BY FS_Interval
    <2> QED BY <2>1, <2>2
  <1>4. Cardinality(Kept(sig.args)) \in Nat /\ Cardinality(Kept(sig.args)) <= Len(sig.args)
    BY <1>2, <1>3, FS_Subset, FS_CardinalityType
  <1>5. SubSeq(sig.args, 1, Cardinality(Kept(sig.args))) \in Seq(STRING)
    BY <1>1, <1>4
  <1>6. <<>> \in Seq(Middlewares) /\ <<sig.name>> \in Seq(Alike)
    BY <1>1 DEF Alike
  <1> QED BY <1>1, <1>5, <1>6 DEF parseMethod, Methods

LEMMA ParsedRight ==
  ASSUME NEW st \in DOMAIN Structs, NEW places
  PROVE  parseCommands(st, places) \in Seq(Methods) /\ NamedOnce(parseCommands(st, places))
  <1>1. PICK sigs : sigs = Structs[st]
    OBVIOUS
  <1>2. /\ sigs \in Seq(Signatures)
        /\ \A i, j \in DOMAIN sigs : sigs[i].name = sigs[j].name => i = j
    BY <1>1, BotAssumption
  <1>3. PICK N \in Nat : N = Len(sigs) /\ DOMAIN sigs = 1..N
    BY <1>2, LenProperties
  <1> DEFINE s == [k \in 1..N |-> IF k \in places THEN <<parseMethod(sigs[k])>> ELSE <<>>]
  <1>4. \A k \in 1..N : parseMethod(sigs[k]) \in Methods /\ parseMethod(sigs[k]).name = sigs[k].name
    <2> SUFFICES ASSUME NEW k \in 1..N
                 PROVE  parseMethod(sigs[k]) \in Methods /\ parseMethod(sigs[k]).name = sigs[k].name
      OBVIOUS
    <2>1. sigs[k] \in Signatures
      BY <1>2, <1>3
    <2> QED BY <2>1, ParsedMethod
  <1>5. s \in Seq(Seq(Methods)) /\ Len(s) = N
    BY <1>4
  <1>6. parseCommands(st, places) = FlattenSeq(s)
    BY <1>1, <1>3 DEF parseCommands
  <1>7. \A k \in 1..N : s[k] = IF k \in places THEN <<parseMethod(sigs[k])>> ELSE <<>>
    OBVIOUS
  <1> HIDE DEF s
  <1>8. PICK f : /\ f \in [0..N -> Seq(Methods)] /\ f[0] = <<>> /\ FlattenSeq(s) = f[N]
                 /\ \A n \in 1..N : f[n] = f[n - 1] \o s[n]
    <2>1. PICK f : /\ f \in [0..Len(s) -> Seq(Methods)] /\ f[0] = <<>> /\ FlattenSeq(s) = f[Len(s)]
                   /\ \A n \in 1..Len(s) : f[n] = f[n - 1] \o s[n]
      BY <1>5, Flattened
    <2> QED BY <1>5, <2>1
  <1> DEFINE From(n) == \A i \in 1..Len(f[n]) : \E k \in 1..n : f[n][i].name = sigs[k].name
             G == {n \in Nat : n <= N => From(n) /\ NamedOnce(f[n])}
  <1>9. 0 \in G
    BY <1>8 DEF NamedOnce
  <1>10. ASSUME NEW n \in Nat, n \in G
         PROVE  n + 1 \in G
    <2> SUFFICES ASSUME n + 1 <= N
                 PROVE  From(n + 1) /\ NamedOnce(f[n + 1])
      OBVIOUS
    <2>1. /\ n + 1 \in 1..N /\ (n + 1) - 1 = n /\ n \in 0..N /\ f[n] \in Seq(Methods)
          /\ f[n + 1] = f[n] \o s[n + 1]
      <3>1. n + 1 \in 1..N /\ (n + 1) - 1 = n /\ n \in 0..N
        OBVIOUS
      <3>2. f[n + 1] = f[(n + 1) - 1] \o s[n + 1]
        BY <1>8, <3>1
      <3> QED BY <1>8, <3>1, <3>2
    <2>2. From(n) /\ NamedOnce(f[n])
      BY <1>10
    <2>3. CASE n + 1 \in places
      <3>1. PICK m \in Methods : m = parseMethod(sigs[n + 1]) /\ m.name = sigs[n + 1].name
        BY <1>4, <2>1
      <3>2. f[n + 1] = f[n] \o <<m>>
        BY <1>7, <2>1, <2>3, <3>1
      <3>3. PICK L \in Nat : /\ L = Len(f[n]) /\ Len(f[n + 1]) = L + 1 /\ f[n + 1][L + 1] = m
                             /\ \A i \in 1..L : f[n + 1][i] = f[n][i]
        <4>1. /\ Len(f[n + 1]) = Len(f[n]) + 1 /\ f[n + 1][Len(f[n]) + 1] = m
              /\ \A i \in 1..Len(f[n]) : f[n + 1][i] = f[n][i]
          BY <2>1, <3>2, OneMore
        <4>2. Len(f[n]) \in Nat
          BY <2>1, LenProperties
        <4> QED BY <4>1, <4>2
      <3>4. From(n + 1)
        <4> SUFFICES ASSUME NEW i \in 1..(L + 1)
                     PROVE  \E k \in 1..(n + 1) : f[n + 1][i].name = sigs[k].name
          BY <3>3
        <4>1. CASE i = L + 1
          <5>1. f[n + 1][i].name = sigs[n + 1].name /\ n + 1 \in 1..(n + 1)
            BY <3>1, <3>3, <4>1
          <5> QED BY <5>1
        <4>2. CASE i # L + 1
          <5>1. i \in 1..L
            BY <4>2
          <5>2. PICK k \in 1..n : f[n][i].name = sigs[k].name
            BY <2>2, <3>3, <5>1
          <5>3. k \in 1..(n + 1)
            OBVIOUS
          <5> QED BY <3>3, <5>1, <5>2, <5>3
        <4> QED BY <4>1, <4>2
      <3>5. \A i \in 1..L : f[n + 1][i].name # m.name
        <4> SUFFICES ASSUME NEW i \in 1..L, f[n + 1][i].name = m.name
                     PROVE  FALSE
          OBVIOUS
        <4>1. PICK k \in 1..n : f[n][i].name = sigs[k].name
          BY <2>2, <3>3
        <4>2. sigs[k].name = sigs[n + 1].name /\ k \in 1..N /\ k # n + 1
          BY <3>1, <3>3, <4>1
        <4> QED BY <1>2, <1>3, <2>1, <4>2
      <3>6. NamedOnce(f[n + 1])
        <4> SUFFICES ASSUME NEW i \in 1..(L + 1), NEW j \in 1..(L + 1),
                            f[n + 1][i].name = f[n + 1][j].name
                     PROVE  i = j
          BY <3>3 DEF NamedOnce
        <4>1. (i \in 1..L \/ i = L + 1) /\ (j \in 1..L \/ j = L + 1)
          OBVIOUS
        <4>2. CASE i \in 1..L /\ j \in 1..L
          BY <2>2, <3>3, <4>2 DEF NamedOnce
        <4> QED BY <3>3, <3>5, <4>1, <4>2
      <3> QED BY <3>4, <3>6
    <2>4. CASE n + 1 \notin places
      <3>1. f[n + 1] = f[n]
        BY <1>7, <2>1, <2>4, ConcatEmptySeq
      <3> QED BY <2>2, <3>1
    <2> QED BY <2>3, <2>4
  <1>11. N \in G
    <2> HIDE DEF G
    <2> QED BY <1>9, <1>10, UpFromZero
  <1> QED BY <1>6, <1>8, <1>11
-----------------------------------------------------------------------------
(* BotContext: the callers of an event.                                     *)

CallRecords == [sub : Nat, what : {"mw", "method"}, id : IDs]

LEMMA CallIs ==
  ASSUME NEW k \in Nat
  PROVE  /\ \A mw \in Middlewares : /\ Call(k, "mw", mw) \in CallRecords /\ Call(k, "mw", mw).id = mw.id
                                    /\ Call(k, "mw", mw).sub = k /\ Call(k, "mw", mw).what = "mw"
         /\ \A m \in Methods : /\ Call(k, "method", m) \in CallRecords /\ Call(k, "method", m).id = m.name
                               /\ Call(k, "method", m).sub = k /\ Call(k, "method", m).what = "method"
  <1>1. \A mw \in Middlewares : mw.id \in IDs
    BY DEF IDs
  <1>2. \A m \in Methods : m.name \in IDs
    BY DEF IDs, Methods
  <1> QED BY <1>1, <1>2 DEF Call, CallRecords

(* Those of the middlewares for all.                                        *)
Globals(c, k, t) ==
    /\ c \in Seq(CallRecords) /\ \A i \in 1..Len(c) : c[i].sub = k /\ c[i].what = "mw"
    /\ \A m \in 1..Len(subs[k].globalmws) :
           isEvent(subs[k].globalmws[m], t) => \E i \in 1..Len(c) : c[i].id = subs[k].globalmws[m].id

LEMMA GlobalsRight ==
  ASSUME SubsRight, NEW k \in 1..Len(subs), NEW t
  PROVE  Globals(globalCallers(k, t), k, t)
  <1>1. PICK mws : mws = subs[k].globalmws
    OBVIOUS
  <1>2. mws \in Seq(Middlewares) /\ k \in Nat
    <2>1. subs[k] \in Subcommands
      BY SubsFacts
    <2>2. k \in Nat
      BY SubsFacts
    <2> QED BY <1>1, <2>1, <2>2 DEF Subcommands
  <1>3. PICK N \in Nat : N = Len(mws) /\ DOMAIN mws = 1..N
    BY <1>2, LenProperties
  <1> DEFINE s == [i \in 1..N |-> IF isEvent(mws[i], t) THEN <<Call(k, "mw", mws[i])>> ELSE <<>>]
  <1>4. \A i \in 1..N : /\ Call(k, "mw", mws[i]) \in CallRecords /\ Call(k, "mw", mws[i]).id = mws[i].id
                        /\ Call(k, "mw", mws[i]).sub = k /\ Call(k, "mw", mws[i]).what = "mw"
    <2> SUFFICES ASSUME NEW i \in 1..N
                 PROVE  /\ Call(k, "mw", mws[i]) \in CallRecords /\ Call(k, "mw", mws[i]).id = mws[i].id
                        /\ Call(k, "mw", mws[i]).sub = k /\ Call(k, "mw", mws[i]).what = "mw"
      OBVIOUS
    <2>1. mws[i] \in Middlewares
      BY <1>2, <1>3
    <2> QED BY <1>2, <2>1, CallIs
  <1>5. s \in Seq(Seq(CallRecords)) /\ Len(s) = N
    BY <1>4
  <1>6. globalCallers(k, t) = FlattenSeq(s)
    BY <1>1, <1>3 DEF globalCallers
  <1>7. \A i \in 1..N : s[i] = IF isEvent(mws[i], t) THEN <<Call(k, "mw", mws[i])>> ELSE <<>>
    OBVIOUS
  <1> HIDE DEF s
  <1>8. PICK r, at : r = globalCallers(k, t) /\ r \in Seq(CallRecords) /\ Placed(s, r, at)
    BY <1>5, <1>6, FlatParts
  <1>9. /\ \A n \in 1..N, j \in Nat :
               j \in 1..Len(s[n]) => at[n - 1] + j \in 1..Len(r) /\ r[at[n - 1] + j] = s[n][j]
        /\ \A i \in 1..Len(r) : \E n \in 1..N, j \in Nat : j \in 1..Len(s[n]) /\ i = at[n - 1] + j
    BY <1>5, <1>8 DEF Placed
  <1>10. ASSUME NEW i \in 1..Len(r)
         PROVE  r[i].sub = k /\ r[i].what = "mw"
    <2>1. PICK n \in 1..N, j \in Nat : j \in 1..Len(s[n]) /\ i = at[n - 1] + j
      BY <1>9
    <2>2. r[i] = s[n][j]
      BY <1>9, <2>1
    <2>3. isEvent(mws[n], t)
      <3>1. ~isEvent(mws[n], t) => s[n] = <<>>
        BY <1>7
      <3> QED BY <2>1, <3>1
    <2>4. s[n] = <<Call(k, "mw", mws[n])>>
      BY <1>7, <2>3
    <2>5. PICK c : c = Call(k, "mw", mws[n])
      OBVIOUS
    <2>6. j = 1 /\ s[n][j] = c
      BY <2>1, <2>4, <2>5
    <2> QED BY <1>4, <2>2, <2>5, <2>6
  <1>11. ASSUME NEW n \in 1..N, isEvent(mws[n], t)
         PROVE  \E i \in 1..Len(r) : r[i].id = mws[n].id
    <2> DEFINE c == Call(k, "mw", mws[n])
    <2>11. s[n] = <<c>>
      BY <1>7, <1>11
    <2> HIDE DEF c
    <2>12. 1 \in 1..Len(s[n]) /\ s[n][1] = c
      BY <2>11
    <2>1. 1 \in 1..Len(s[n]) /\ s[n][1] = Call(k, "mw", mws[n])
      BY <2>12 DEF c
    <2>2. at[n - 1] + 1 \in 1..Len(r) /\ r[at[n - 1] + 1] = s[n][1]
      BY <1>9, <2>1
    <2> QED BY <1>4, <2>1, <2>2
  <1> QED BY <1>1, <1>3, <1>8, <1>10, <1>11 DEF Globals

(* Those of the handlers: each once, after its own middlewares.             *)
Handled(c, k, t) ==
    /\ c \in Seq(CallRecords) /\ \A i \in 1..Len(c) : c[i].sub = k
    /\ \A h \in 1..Len(subs[k].Events) :
           isEvent(subs[k].Events[h], t) =>
               \E i \in 1..Len(c) : c[i].what = "method" /\ c[i].id = subs[k].Events[h].name
    /\ \A i, j \in 1..Len(c) : c[i].what = "method" /\ c[j].what = "method" /\ c[i].id = c[j].id => i = j
    /\ \A h \in 1..Len(subs[k].Events), i \in 1..Len(c) :
           c[i].what = "method" /\ c[i].id = subs[k].Events[h].name =>
               \A q \in 1..Len(subs[k].Events[h].middlewares) :
                   \E j \in 1..Len(c) : /\ j < i /\ c[j].what = "mw"
                                        /\ c[j].id = subs[k].Events[h].middlewares[q].id

LEMMA HandledRight ==
  ASSUME SubsRight, NEW k \in 1..Len(subs), NEW t
  PROVE  Handled(handlerCallers(k, t), k, t)
  <1>1. PICK ms : ms = subs[k].Events
    OBVIOUS
  <1>2. ms \in Seq(Methods) /\ k \in Nat /\ NamedOnce(ms)
    <2>1. subs[k] \in Subcommands /\ Sound(subs[k])
      BY SubsFacts
    <2>2. k \in Nat
      BY SubsFacts
    <2> QED BY <1>1, <2>1, <2>2 DEF Subcommands, Sound
  <1>3. PICK N \in Nat : N = Len(ms) /\ DOMAIN ms = 1..N
    BY <1>2, LenProperties
  <1> DEFINE own(h) == [i \in 1..Len(ms[h].middlewares) |-> Call(k, "mw", ms[h].middlewares[i])]
             s == [h \in 1..N |-> IF isEvent(ms[h], t) THEN Append(own(h), Call(k, "method", ms[h]))
                                  ELSE <<>>]
  <1>4. ASSUME NEW h \in 1..N
        PROVE  /\ ms[h] \in Methods /\ Len(ms[h].middlewares) \in Nat
               /\ Call(k, "method", ms[h]) \in CallRecords /\ Call(k, "method", ms[h]).id = ms[h].name
               /\ Call(k, "method", ms[h]).sub = k /\ Call(k, "method", ms[h]).what = "method"
               /\ \A q \in 1..Len(ms[h].middlewares) :
                      LET c == Call(k, "mw", ms[h].middlewares[q]) IN
                      c \in CallRecords /\ c.id = ms[h].middlewares[q].id /\ c.sub = k /\ c.what = "mw"
    <2>1. ms[h] \in Methods
      BY <1>2, <1>3
    <2>2. ms[h].middlewares \in Seq(Middlewares)
      BY <2>1 DEF Methods
    <2>3. \A q \in 1..Len(ms[h].middlewares) : ms[h].middlewares[q] \in Middlewares
      BY <2>2
    <2>4. Len(ms[h].middlewares) \in Nat
      BY <2>2, LenProperties
    <2> QED BY <1>2, <2>1, <2>3, <2>4, CallIs
  <1>5. ASSUME NEW h \in 1..N, isEvent(ms[h], t)
        PROVE  /\ s[h] \in Seq(CallRecords) /\ Len(s[h]) = Len(ms[h].middlewares) + 1
               /\ s[h][Len(ms[h].middlewares) + 1] = Call(k, "method", ms[h])
               /\ \A q \in 1..Len(ms[h].middlewares) : s[h][q] = Call(k, "mw", ms[h].middlewares[q])
    <2>1. PICK L \in Nat : L = Len(ms[h].middlewares)
      BY <1>4
    <2>2. own(h) \in Seq(CallRecords) /\ Len(own(h)) = L
      BY <1>4, <2>1
    <2>3. \A q \in 1..L : own(h)[q] = Call(k, "mw", ms[h].middlewares[q])
      BY <2>1
    <2>4. s[h] = Append(own(h), Call(k, "method", ms[h]))
      BY <1>5
    <2> HIDE DEF own, s
    <2>5. /\ s[h] \in Seq(CallRecords) /\ Len(s[h]) = L + 1 /\ s[h][L + 1] = Call(k, "method", ms[h])
          /\ \A q \in 1..L : s[h][q] = own(h)[q]
      BY <1>4, <2>2, <2>4, AppendProperties
    <2> QED BY <2>1, <2>3, <2>5
  <1>6. \A h \in 1..N : ~isEvent(ms[h], t) => s[h] = <<>>
    OBVIOUS
  <1>7. handlerCallers(k, t) = FlattenSeq(s)
    <2>1. \A h \in 1..N : DOMAIN ms[h].middlewares = 1..Len(ms[h].middlewares)
      <3> SUFFICES ASSUME NEW h \in 1..N
                   PROVE  DOMAIN ms[h].middlewares = 1..Len(ms[h].middlewares)
        OBVIOUS
      <3>1. ms[h].middlewares \in Seq(Middlewares)
        BY <1>4 DEF Methods
      <3> QED BY <3>1, LenProperties
    <2>2. s = [h \in DOMAIN ms |->
                  IF isEvent(ms[h], t)
                  THEN Append([i \in DOMAIN ms[h].middlewares |-> Call(k, "mw", ms[h].middlewares[i])],
                              Call(k, "method", ms[h]))
                  ELSE <<>>]
      BY <1>3, <2>1
    <2> HIDE DEF s
    <2> QED BY <1>1, <2>2 DEF handlerCallers
  <1>8. s \in Seq(Seq(CallRecords)) /\ Len(s) = N
    <2>1. \A h \in 1..N : s[h] \in Seq(CallRecords)
      <3> HIDE DEF s
      <3>1. <<>> \in Seq(CallRecords)
        OBVIOUS
      <3> QED BY <1>5, <1>6, <3>1
    <2>2. s = [h \in 1..N |-> s[h]]
      OBVIOUS
    <2> HIDE DEF s
    <2> QED BY <2>1, <2>2
  <1> HIDE DEF s
  <1>9. PICK r, at : r = handlerCallers(k, t) /\ r \in Seq(CallRecords) /\ Placed(s, r, at)
    BY <1>7, <1>8, FlatParts
  <1>10. /\ at \in [0..N -> Nat]
         /\ \A n \in 1..N, j \in Nat :
                j \in 1..Len(s[n]) => at[n - 1] + j \in 1..Len(r) /\ r[at[n - 1] + j] = s[n][j]
         /\ \A i \in 1..Len(r) : \E n \in 1..N, j \in Nat : j \in 1..Len(s[n]) /\ i = at[n - 1] + j
    BY <1>8, <1>9 DEF Placed
  <1>11. ASSUME NEW i \in 1..Len(r)
         PROVE  \E n \in 1..N, j \in Nat :
                   /\ isEvent(ms[n], t) /\ i = at[n - 1] + j /\ r[i] = s[n][j]
                   /\ j \in 1..(Len(ms[n].middlewares) + 1)
    <2>1. PICK n \in 1..N, j \in Nat : j \in 1..Len(s[n]) /\ i = at[n - 1] + j
      BY <1>10
    <2>2. r[i] = s[n][j]
      BY <1>10, <2>1
    <2>3. isEvent(ms[n], t)
      BY <1>6, <2>1
    <2>4. Len(s[n]) = Len(ms[n].middlewares) + 1
      BY <1>5, <2>3
    <2> QED BY <2>1, <2>2, <2>3, <2>4
  <1>12. ASSUME NEW i \in 1..Len(r)
         PROVE  r[i].sub = k
    <2>1. PICK n \in 1..N, j \in Nat :
             /\ isEvent(ms[n], t) /\ r[i] = s[n][j] /\ j \in 1..(Len(ms[n].middlewares) + 1)
      BY <1>11
    <2>2. PICK L \in Nat : L = Len(ms[n].middlewares)
      BY <1>4
    <2>3. CASE j = L + 1
      <3>1. r[i] = Call(k, "method", ms[n])
        BY <1>5, <2>1, <2>2, <2>3
      <3> QED BY <1>4, <3>1
    <2>4. CASE j \in 1..L
      <3>1. r[i] = Call(k, "mw", ms[n].middlewares[j])
        BY <1>5, <2>1, <2>2, <2>4
      <3> QED BY <1>4, <2>2, <2>4, <3>1
    <2>5. j = L + 1 \/ j \in 1..L
      BY <2>1, <2>2
    <2> QED BY <2>3, <2>4, <2>5
  <1>13. ASSUME NEW i \in 1..Len(r), r[i].what = "method"
         PROVE  \E n \in 1..N : /\ isEvent(ms[n], t) /\ r[i].id = ms[n].name
                                /\ i = at[n - 1] + (Len(ms[n].middlewares) + 1)
    <2>1. PICK n \in 1..N, j \in Nat :
             /\ isEvent(ms[n], t) /\ r[i] = s[n][j] /\ j \in 1..(Len(ms[n].middlewares) + 1)
             /\ i = at[n - 1] + j
      BY <1>11
    <2>2. PICK L \in Nat : L = Len(ms[n].middlewares)
      BY <1>4
    <2>3. j = L + 1 \/ j \in 1..L
      BY <2>1, <2>2
    <2>4. j \notin 1..L
      <3> SUFFICES ASSUME j \in 1..L
                   PROVE  FALSE
        OBVIOUS
      <3>1. r[i] = Call(k, "mw", ms[n].middlewares[j])
        BY <1>5, <2>1, <2>2
      <3>2. Call(k, "mw", ms[n].middlewares[j]).what = "mw"
        BY <1>4, <2>2
      <3> QED BY <1>13, <3>1, <3>2
    <2>5. r[i] = Call(k, "method", ms[n])
      <3>1. j = L + 1
        BY <2>3, <2>4
      <3> QED BY <1>5, <2>1, <2>2, <3>1
    <2> QED BY <1>4, <2>1, <2>2, <2>3, <2>4, <2>5
  <1>14. ASSUME NEW h \in 1..N, isEvent(ms[h], t)
         PROVE  \E i \in 1..Len(r) : r[i].what = "method" /\ r[i].id = ms[h].name
    <2>1. PICK L \in Nat : L = Len(ms[h].middlewares) /\ L + 1 \in Nat /\ L + 1 \in 1..(L + 1)
      BY <1>4
    <2>2. L + 1 \in 1..Len(s[h]) /\ s[h][L + 1] = Call(k, "method", ms[h])
      BY <1>5, <1>14, <2>1
    <2>3. at[h - 1] + (L + 1) \in 1..Len(r) /\ r[at[h - 1] + (L + 1)] = s[h][L + 1]
      BY <1>10, <2>1, <2>2
    <2> QED BY <1>4, <2>2, <2>3
  <1>15. ASSUME NEW i \in 1..Len(r), NEW j \in 1..Len(r),
                r[i].what = "method", r[j].what = "method", r[i].id = r[j].id
         PROVE  i = j
    <2>1. PICK n \in 1..N : r[i].id = ms[n].name /\ i = at[n - 1] + (Len(ms[n].middlewares) + 1)
      BY <1>13, <1>15
    <2>2. PICK m \in 1..N : r[j].id = ms[m].name /\ j = at[m - 1] + (Len(ms[m].middlewares) + 1)
      BY <1>13, <1>15
    <2>3. n = m
      BY <1>2, <1>3, <1>15, <2>1, <2>2 DEF NamedOnce
    <2> QED BY <2>1, <2>2, <2>3
  <1>16. ASSUME NEW h \in 1..N, NEW i \in 1..Len(r), r[i].what = "method", r[i].id = ms[h].name,
                NEW q \in 1..Len(ms[h].middlewares)
         PROVE  \E j \in 1..Len(r) : j < i /\ r[j].what = "mw" /\ r[j].id = ms[h].middlewares[q].id
    <2>1. PICK n \in 1..N : /\ isEvent(ms[n], t) /\ r[i].id = ms[n].name
                            /\ i = at[n - 1] + (Len(ms[n].middlewares) + 1)
      BY <1>13, <1>16
    <2>2. n = h
      BY <1>2, <1>3, <1>16, <2>1 DEF NamedOnce
    <2>3. PICK L \in Nat : L = Len(ms[h].middlewares) /\ q \in 1..L /\ q \in Nat
      BY <1>4, <1>16
    <2>4. q \in 1..Len(s[h]) /\ s[h][q] = Call(k, "mw", ms[h].middlewares[q])
      <3>1. /\ Len(s[h]) = L + 1
            /\ \A l \in 1..L : s[h][l] = Call(k, "mw", ms[h].middlewares[l])
        BY <1>5, <2>1, <2>2, <2>3
      <3>2. q \in 1..(L + 1)
        BY <2>3
      <3> QED BY <2>3, <3>1, <3>2
    <2>5. at[h - 1] + q \in 1..Len(r) /\ r[at[h - 1] + q] = s[h][q]
      BY <1>10, <2>3, <2>4
    <2>6. at[h - 1] \in Nat
      <3>1. h - 1 \in 0..N
        OBVIOUS
      <3> QED BY <1>10, <3>1
    <2>7. at[h - 1] + q < i
      <3>1. PICK A \in Nat : A = at[h - 1]
        BY <2>6
      <3>2. i = A + (L + 1)
        BY <2>1, <2>2, <2>3, <3>1
      <3>3. A + q < A + (L + 1)
        BY <2>3
      <3> QED BY <3>1, <3>2, <3>3
    <2>8. LET c == Call(k, "mw", ms[h].middlewares[q]) IN
          c.id = ms[h].middlewares[q].id /\ c.what = "mw"
      BY <1>4
    <2> QED BY <2>4, <2>5, <2>7, <2>8
  <1> HIDE DEF own
  <1>17. Handled(r, k, t)
    <2>1. r \in Seq(CallRecords) /\ \A i \in 1..Len(r) : r[i].sub = k
      BY <1>9, <1>12
    <2>2. \A h \in 1..Len(subs[k].Events) :
             isEvent(subs[k].Events[h], t) =>
                 \E i \in 1..Len(r) : r[i].what = "method" /\ r[i].id = subs[k].Events[h].name
      BY <1>1, <1>3, <1>14
    <2>3. \A h \in 1..Len(subs[k].Events), i \in 1..Len(r) :
             r[i].what = "method" /\ r[i].id = subs[k].Events[h].name =>
                 \A q \in 1..Len(subs[k].Events[h].middlewares) :
                     \E j \in 1..Len(r) : /\ j < i /\ r[j].what = "mw"
                                          /\ r[j].id = subs[k].Events[h].middlewares[q].id
      BY <1>1, <1>3, <1>16
    <2>4. \A i, j \in 1..Len(r) : r[i].what = "method" /\ r[j].what = "method" /\ r[i].id = r[j].id => i = j
      BY <1>15
    <2> QED BY <2>1, <2>2, <2>3, <2>4 DEF Handled
  <1> QED BY <1>9, <1>17

(* Both.                                                                    *)
Global(k, t) == {w \in ToSet(subs[k].globalmws) : isEvent(w, t)}
AllCallers(c, k, t) ==
    /\ c \in Seq(CallRecords) /\ \A i \in 1..Len(c) : c[i].sub = k
    /\ \A m \in ToSet(subs[k].Events) :
           isEvent(m, t) => \E i \in 1..Len(c) : c[i].what = "method" /\ c[i].id = m.name
    /\ \A i, j \in 1..Len(c) : c[i].what = "method" /\ c[j].what = "method" /\ c[i].id = c[j].id => i = j
    /\ \A m \in ToSet(subs[k].Events), i \in 1..Len(c) :
           c[i].what = "method" /\ c[i].id = m.name =>
               \A w \in ToSet(m.middlewares) \cup Global(k, t) :
                   \E j \in 1..Len(c) : j < i /\ c[j].what = "mw" /\ c[j].id = w.id
    /\ \A w \in Global(k, t) : \E i \in 1..Len(c) : c[i].what = "mw" /\ c[i].id = w.id

LEMMA Places ==
  ASSUME NEW X, NEW s \in Seq(X)
  PROVE  /\ \A x \in ToSet(s) : x \in X /\ \E i \in 1..Len(s) : s[i] = x
         /\ \A i \in 1..Len(s) : s[i] \in ToSet(s)
  BY LenProperties DEF ToSet

LEMMA CallersRight ==
  ASSUME SubsRight, NEW k \in 1..Len(subs), NEW t
  PROVE  AllCallers(eventCallers(k, t), k, t)
  <1>1. PICK a, b, c : /\ a = globalCallers(k, t) /\ b = handlerCallers(k, t) /\ c = eventCallers(k, t)
                       /\ c = a \o b
    BY DEF eventCallers
  <1>2. Globals(a, k, t) /\ Handled(b, k, t)
    BY <1>1, GlobalsRight, HandledRight
  <1>3. PICK A \in Nat, B \in Nat : A = Len(a) /\ B = Len(b)
    BY <1>2, LenProperties DEF Globals, Handled
  <1>4. /\ c \in Seq(CallRecords) /\ Len(c) = A + B
        /\ \A i \in 1..(A + B) : c[i] = IF i <= A THEN a[i] ELSE b[i - A]
    <2>1. a \in Seq(CallRecords) /\ b \in Seq(CallRecords)
      BY <1>2 DEF Globals, Handled
    <2>2. /\ c \in Seq(CallRecords) /\ Len(c) = Len(a) + Len(b)
          /\ \A i \in 1..(Len(a) + Len(b)) : c[i] = IF i <= Len(a) THEN a[i] ELSE b[i - Len(a)]
      BY <1>1, <2>1, Concatenated
    <2> QED BY <1>3, <2>2
  <1>5. \A i \in 1..A : i \in 1..(A + B) /\ c[i] = a[i]
    BY <1>4
  <1>6. ASSUME NEW i \in 1..B
        PROVE  A + i \in 1..(A + B) /\ c[A + i] = b[i]
    <2>1. A + i \in 1..(A + B) /\ ~(A + i <= A) /\ (A + i) - A = i
      OBVIOUS
    <2> QED BY <1>4, <2>1
  <1>7. ASSUME NEW i \in 1..(A + B)
        PROVE  i \in 1..A \/ \E j \in 1..B : i = A + j
    <2>1. i \in 1..A \/ (i - A \in 1..B /\ i = A + (i - A))
      OBVIOUS
    <2> QED BY <2>1
  <1>8. /\ \A i \in 1..A : a[i].sub = k /\ a[i].what = "mw"
        /\ \A i \in 1..B : b[i].sub = k
    <2>1. \A i \in 1..A : a[i].sub = k /\ a[i].what = "mw"
      BY <1>2, <1>3 DEF Globals
    <2>2. \A i \in 1..B : b[i].sub = k
      BY <1>2, <1>3 DEF Handled
    <2> QED BY <2>1, <2>2
  <1>9. ASSUME NEW i \in 1..(A + B)
        PROVE  c[i].sub = k
    <2>1. CASE i \in 1..A
      BY <1>5, <1>8, <2>1
    <2>2. CASE \E j \in 1..B : i = A + j
      <3>1. PICK j \in 1..B : i = A + j
        BY <2>2
      <3>2. c[i] = b[j]
        BY <1>6, <3>1
      <3> QED BY <1>8, <3>2
    <2> QED BY <1>7, <2>1, <2>2
  <1>10. \A i \in 1..(A + B) : c[i].what = "method" => \E j \in 1..B : i = A + j /\ c[i] = b[j]
    BY <1>5, <1>6, <1>7, <1>8
  <1>11. /\ subs[k].Events \in Seq(Methods) /\ subs[k].globalmws \in Seq(Middlewares)
         /\ \A m \in Methods : m.middlewares \in Seq(Middlewares)
    <2>1. subs[k] \in Subcommands
      BY SubsFacts
    <2> QED BY <2>1 DEF Subcommands, Methods
  <1>12. ASSUME NEW m \in ToSet(subs[k].Events), isEvent(m, t)
         PROVE  \E i \in 1..(A + B) : c[i].what = "method" /\ c[i].id = m.name
    <2>1. PICK h \in 1..Len(subs[k].Events) : subs[k].Events[h] = m
      BY <1>11, Places
    <2>2. PICK i \in 1..B : b[i].what = "method" /\ b[i].id = m.name
      BY <1>2, <1>3, <1>12, <2>1 DEF Handled
    <2> QED BY <1>6, <2>2
  <1>13. ASSUME NEW i \in 1..(A + B), NEW j \in 1..(A + B),
                c[i].what = "method", c[j].what = "method", c[i].id = c[j].id
         PROVE  i = j
    <2>1. PICK x \in 1..B : i = A + x /\ c[i] = b[x]
      BY <1>10, <1>13
    <2>2. PICK y \in 1..B : j = A + y /\ c[j] = b[y]
      BY <1>10, <1>13
    <2>3. x = y
      BY <1>2, <1>3, <1>13, <2>1, <2>2 DEF Handled
    <2> QED BY <2>1, <2>2, <2>3
  <1>14. ASSUME NEW w \in Global(k, t)
         PROVE  \E i \in 1..A : c[i].what = "mw" /\ c[i].id = w.id
    <2>1. PICK q \in 1..Len(subs[k].globalmws) : subs[k].globalmws[q] = w
      BY <1>11, Places DEF Global
    <2>2. isEvent(w, t)
      BY DEF Global
    <2>3. PICK i \in 1..A : a[i].id = w.id
      BY <1>2, <1>3, <2>1, <2>2 DEF Globals
    <2> QED BY <1>5, <1>8, <2>3
  <1>15. ASSUME NEW m \in ToSet(subs[k].Events), NEW i \in 1..(A + B),
                c[i].what = "method", c[i].id = m.name,
                NEW w \in ToSet(m.middlewares) \cup Global(k, t)
         PROVE  \E j \in 1..(A + B) : j < i /\ c[j].what = "mw" /\ c[j].id = w.id
    <2>1. PICK x \in 1..B : i = A + x /\ c[i] = b[x]
      BY <1>10, <1>15
    <2>2. CASE w \in Global(k, t)
      <3>1. PICK j \in 1..A : c[j].what = "mw" /\ c[j].id = w.id
        BY <1>14, <2>2
      <3>2. j \in 1..(A + B) /\ j < i
        BY <2>1
      <3> QED BY <3>1, <3>2
    <2>3. CASE w \in ToSet(m.middlewares)
      <3>1. PICK h \in 1..Len(subs[k].Events) : subs[k].Events[h] = m
        BY <1>11, Places
      <3>2. m \in Methods
        BY <1>11, Places
      <3>3. PICK mws \in Seq(Middlewares) : mws = m.middlewares /\ mws = subs[k].Events[h].middlewares
        BY <1>11, <3>1, <3>2
      <3>4. PICK q \in 1..Len(mws) : mws[q] = w
        BY <2>3, <3>3, Places
      <3>5. b[x].what = "method" /\ b[x].id = subs[k].Events[h].name
        BY <1>15, <2>1, <3>1
      <3>6. \E y \in 1..B : y < x /\ b[y].what = "mw" /\ b[y].id = subs[k].Events[h].middlewares[q].id
        BY <1>2, <1>3, <3>3, <3>5 DEF Handled
      <3>7. PICK y \in 1..B : y < x /\ b[y].what = "mw" /\ b[y].id = w.id
        BY <3>3, <3>4, <3>6
      <3>8. A + y < i
        BY <2>1, <3>7
      <3> QED BY <1>6, <3>7, <3>8
    <2> QED BY <2>2, <2>3
  <1>16. \A w \in Global(k, t) : \E i \in 1..(A + B) : c[i].what = "mw" /\ c[i].id = w.id
    BY <1>5, <1>14
  <1>17. AllCallers(c, k, t)
    BY <1>4, <1>9, <1>12, <1>13, <1>15, <1>16 DEF AllCallers
  <1> QED BY <1>1, <1>17

LEMMA FilteredRight ==
  ASSUME SubsRight, NEW t
  PROVE  /\ filterEventType(t) \in Seq(Seq(CallRecords)) /\ Len(filterEventType(t)) = Len(subs)
         /\ \A k \in 1..Len(subs) : filterEventType(t)[k] = eventCallers(k, t)
  <1>1. PICK N \in Nat : N = Len(subs) /\ DOMAIN subs = 1..N
    <2>1. subs \in Seq(Subcommands)
      BY DEF SubsRight
    <2> QED BY <2>1, LenProperties
  <1>2. \A k \in 1..N : eventCallers(k, t) \in Seq(CallRecords)
    BY <1>1, CallersRight DEF AllCallers
  <1>3. filterEventType(t) = [k \in 1..N |-> eventCallers(k, t)]
    BY <1>1 DEF filterEventType
  <1> QED BY <1>1, <1>2, <1>3
-----------------------------------------------------------------------------
(* BotContext: an event.                                                    *)

Called == [sub : Nat, what : {"mw", "method", "own", "command"}, id : IDs, out : Outcomes]
OwnRecords == [sub : Nat, what : {"own"}, id : IDs]
RunIs ==
    /\ DOMAIN run = DOMAIN Idle
    /\ run.at \in {"idle", "call", "walk", "done"}
    /\ run.words \in Seq(STRING) /\ run.todo \in Seq(Seq(CallRecords))
    /\ run.own \in Seq(OwnRecords)
    /\ run.failed \in BOOLEAN /\ run.called \in Seq(Called)
    /\ run.at \in {"walk", "done"} => Uncalled = {}
CacheRight ==
    \A t \in DOMAIN typeCache :
        /\ typeCache[t] \in Seq(Seq(CallRecords))
        /\ t \notin late => typeCache[t] = filterEventType(t)

(* How far Subcommand k has come with its callers.                          *)
Reached(k, callers) ==
    \E n \in 0..Len(callers) :
        /\ \A x \in 1..n : \E i \in CallsOf(k) :
               run.called[i].what = callers[x].what /\ run.called[i].id = callers[x].id
        /\ \A i \in CallsOf(k) : \E x \in 1..n :
               run.called[i].what = callers[x].what /\ run.called[i].id = callers[x].id
        /\ Failed(CallsOf(k)) = {} => run.todo[k] = SubSeq(callers, n + 1, Len(callers))
        /\ Failed(CallsOf(k)) # {} => run.todo[k] = <<>>
Through(k) == Reached(k, eventCallers(k, run.type))
Ordered(k) ==
    /\ \A m \in Handlers(k) :
           LET mine == {i \in CallsOf(k) :
                           run.called[i].what = "method" /\ run.called[i].id = m.name} IN
           /\ \A i, j \in mine : i = j
           /\ \A i \in mine, x \in Guards(k, m) :
                  \E j \in CallsOf(k) :
                      j < i /\ run.called[j].what = "mw" /\ run.called[j].id = x
    /\ \A i \in Failed(CallsOf(k)), j \in CallsOf(k) : j <= i
Calling ==
    run.at # "idle" /\ run.type \notin late =>
        /\ Len(run.todo) = Len(subs)
        /\ \A k \in 1..Len(subs) : Through(k) /\ Ordered(k)

Errs == {i \in DOMAIN run.called : run.called[i].what \in {"mw", "method"} /\ run.called[i].out = "err"}
Commanded == {i \in DOMAIN run.called : run.called[i].what = "command"}
Restof(n) == SubSeq(run.words, n + 1, Len(run.words))
Walking ==
    /\ run.sub \in 1..Len(subs) /\ run.words # <<>>
    /\ \E i \in 1..Len(subs[run.sub].Commands) : subs[run.sub].Commands[i].name = run.method
    /\ \E n \in {1, 2} : /\ <<run.sub, run.method, n>> \in Meant
                         /\ run.parts = Restof(n) /\ RawContent(Method) = Restof(n)
    /\ \A mw \in ToSet(Method.middlewares) :
           \/ \E i \in DOMAIN run.called :
                  /\ run.called[i].what = "own" /\ run.called[i].id = mw.id
                  /\ run.called[i].out = "ok"
           \/ \E j \in DOMAIN run.own : run.own[j].id = mw.id
Commanding ==
    /\ run.failed = (Errs # {})
    /\ run.at # "done" => Commanded = {}
    /\ run.at = "walk" => ~run.failed /\ Walking
    /\ CommandCalled
BotInv == SubsRight /\ RunIs /\ CacheRight /\ Calling /\ Commanding
-----------------------------------------------------------------------------
(* BotContext: registration.                                                *)

LEMMA SubBuilt ==
  ASSUME NEW c \in SubNames, NEW a \in NoAliases, NEW mws \in Seq(Middlewares),
         NEW cs \in Seq(Methods), NEW es \in Seq(Methods)
  PROVE  [command |-> c, aliases |-> a, hidden |-> FALSE, plumbed |-> NoName, globalmws |-> mws,
          Commands |-> cs, Events |-> es] \in Subcommands
  BY DEF Subcommands, Plumbs

LEMMA NewRight ==
  ASSUME NEW st \in DOMAIN Structs, NEW name \in SubNames
  PROVE  /\ NewSubcommand(st, name, <<>>) \in Subcommands /\ Sound(NewSubcommand(st, name, <<>>))
         /\ NewSubcommand(st, name, <<>>).command = name
  <1>1. PICK cs \in Seq(Methods) :
           /\ cs = parseCommands(st, {k \in DOMAIN Structs[st] : IsCommand(Structs[st][k])})
           /\ NamedOnce(cs)
    BY ParsedRight
  <1>2. PICK es \in Seq(Methods) :
           /\ es = parseCommands(st, {k \in DOMAIN Structs[st] : IsHandler(Structs[st][k])})
           /\ NamedOnce(es)
    BY ParsedRight
  <1>3. NewSubcommand(st, name, <<>>) =
            [command |-> name, aliases |-> <<>>, hidden |-> FALSE, plumbed |-> NoName,
             globalmws |-> <<>>, Commands |-> cs, Events |-> es]
    BY <1>1, <1>2, Zenon DEF NewSubcommand, NoName
  <1>4. <<>> \in Seq(Middlewares) /\ <<>> \in NoAliases
    BY DEF NoAliases
  <1>5. PICK mws \in Seq(Middlewares), a \in NoAliases : mws = <<>> /\ a = <<>>
    BY <1>4
  <1>6. PICK s \in Subcommands :
           s = [command |-> name, aliases |-> a, hidden |-> FALSE, plumbed |-> NoName,
                globalmws |-> mws, Commands |-> cs, Events |-> es]
    <2> HIDE <1>5
    <2> QED BY SubBuilt
  <1>7. s.Commands = cs /\ s.Events = es /\ s.plumbed = NoName /\ s.command = name
    BY <1>6
  <1>8. Sound(s)
    BY <1>1, <1>2, <1>7 DEF Sound
  <1> QED BY <1>3, <1>5, <1>6, <1>7, <1>8

LEMMA OneChanged ==
  ASSUME SubsRight, NEW k \in 1..Len(subs), NEW s \in Subcommands, Sound(s),
         s.command = subs[k].command, subs' = [subs EXCEPT ![k] = s]
  PROVE  SubsRight'
  <1>1. subs \in Seq(Subcommands) /\ subs # <<>>
    BY DEF SubsRight
  <1>2. PICK N \in Nat : N = Len(subs) /\ DOMAIN subs = 1..N /\ N # 0
    BY <1>1, LenProperties, EmptySeq
  <1>3. subs' \in Seq(Subcommands) /\ Len(subs') = N
    BY <1>1, <1>2, ExceptSeq
  <1>4. /\ \A l \in 1..N : subs'[l] = IF l = k THEN s ELSE subs[l]
        /\ \A l \in 1..N : subs'[l].command = subs[l].command
    BY <1>2
  <1>5. \A l \in 1..N : Sound(subs[l])
    BY <1>2 DEF SubsRight
  <1>6. \A l \in 1..N : Sound(subs'[l])
    BY <1>4, <1>5
  <1>7. /\ subs[1].command = NoName /\ \A l \in 2..N : subs[l].command # NoName
        /\ \A i, j \in 2..N : subs[i].command = subs[j].command => i = j
    BY <1>2 DEF SubsRight
  <1>8. 1 \in 1..N /\ subs' # <<>>
    BY <1>2, <1>3, EmptySeq
  <1>9. \A l \in 2..N : l \in 1..N
    OBVIOUS
  <1>10. /\ subs'[1].command = NoName /\ \A l \in 2..N : subs'[l].command # NoName
         /\ \A i, j \in 2..N : subs'[i].command = subs'[j].command => i = j
    BY <1>4, <1>7, <1>8, <1>9
  <1> QED BY <1>3, <1>6, <1>8, <1>10 DEF SubsRight

LEMMA SameNames ==
  ASSUME NEW ms \in Seq(Methods), NamedOnce(ms), NEW new \in Seq(Methods),
         Len(new) = Len(ms), \A i \in 1..Len(ms) : new[i].name = ms[i].name
  PROVE  NamedOnce(new)
  BY DEF NamedOnce

LEMMA WithMiddleware ==
  ASSUME NEW ms \in Seq(Methods), NEW name, NEW mw \in Middlewares
  PROVE  LET new == addMiddleware(ms, name, mw) IN
         /\ new \in Seq(Methods) /\ Len(new) = Len(ms)
         /\ \A i \in 1..Len(ms) : new[i].name = ms[i].name
  <1>1. PICK N \in Nat : N = Len(ms) /\ DOMAIN ms = 1..N
    BY LenProperties
  <1> DEFINE wrap(m) == IF m.name = name /\ isEvent(mw, m.event)
                        THEN [m EXCEPT !.middlewares = Append(@, mw)] ELSE m
  <1>2. ASSUME NEW m \in Methods
        PROVE  wrap(m) \in Methods /\ wrap(m).name = m.name
    <2>1. m.middlewares \in Seq(Middlewares)
      BY DEF Methods
    <2>2. Append(m.middlewares, mw) \in Seq(Middlewares)
      BY <2>1, AppendProperties
    <2>3. PICK more \in Seq(Middlewares) : more = Append(m.middlewares, mw)
      BY <2>2
    <2>4. [m EXCEPT !.middlewares = more] \in Methods /\ [m EXCEPT !.middlewares = more].name = m.name
      BY DEF Methods
    <2> QED BY <2>3, <2>4
  <1>3. addMiddleware(ms, name, mw) = [i \in 1..N |-> wrap(ms[i])]
    BY <1>1 DEF addMiddleware
  <1> HIDE DEF wrap
  <1>4. \A i \in 1..N : ms[i] \in Methods
    BY <1>1
  <1>5. \A i \in 1..N : wrap(ms[i]) \in Methods /\ wrap(ms[i]).name = ms[i].name
    BY <1>2, <1>4
  <1>6. PICK new : new = addMiddleware(ms, name, mw) /\ new = [i \in 1..N |-> wrap(ms[i])]
    BY <1>3
  <1>7. new \in Seq(Methods) /\ Len(new) = N /\ \A i \in 1..N : new[i].name = ms[i].name
    <2>1. \A i \in 1..N : new[i] = wrap(ms[i])
      BY <1>6
    <2>2. new = [i \in 1..N |-> new[i]]
      BY <1>6
    <2>3. \A i \in 1..N : new[i] \in Methods
      BY <1>5, <2>1
    <2>4. new \in Seq(Methods) /\ Len(new) = N
      BY <2>2, <2>3
    <2> QED BY <1>5, <2>1, <2>4
  <1> QED BY <1>1, <1>6, <1>7

LEMMA RegisteredSub ==
  ASSUME SubsRight, NEW st \in DOMAIN Structs, NEW name \in CommandNames, RegisterSubcommand(st, name)
  PROVE  SubsRight'
  <1>1. PICK s \in Subcommands : s = NewSubcommand(st, name, <<>>) /\ Sound(s) /\ s.command = name
    BY NewRight DEF SubNames
  <1>2. subs \in Seq(Subcommands) /\ subs # <<>> /\ name # NoName
    BY BotAssumption DEF SubsRight, NoName
  <1>3. PICK N \in Nat : N = Len(subs) /\ N # 0
    BY <1>2, LenProperties, EmptySeq
  <1>4. subs' = Append(subs, s)
    BY <1>1 DEF RegisterSubcommand
  <1>5. /\ subs' \in Seq(Subcommands) /\ Len(subs') = N + 1 /\ subs'[N + 1] = s
        /\ \A l \in 1..N : subs'[l] = subs[l]
    BY <1>2, <1>3, <1>4, AppendProperties
  <1>6. \A l \in 1..N : Sound(subs[l])
    BY <1>3 DEF SubsRight
  <1>7. \A l \in 1..(N + 1) : l \in 1..N \/ l = N + 1
    OBVIOUS
  <1>8. \A l \in 1..(N + 1) : Sound(subs'[l])
    BY <1>1, <1>5, <1>6, <1>7
  <1>9. /\ subs[1].command = NoName /\ \A l \in 2..N : subs[l].command # NoName
        /\ \A i, j \in 2..N : subs[i].command = subs[j].command => i = j
    BY <1>3 DEF SubsRight
  <1>10. \A l \in 2..N : subs[l].command # name
    BY <1>3 DEF RegisterSubcommand, NamesOf
  <1>11. 1 \in 1..N /\ (\A l \in 2..N : l \in 1..N) /\ \A l \in 2..(N + 1) : l \in 2..N \/ l = N + 1
    BY <1>3
  <1>12. /\ subs'[1].command = NoName /\ \A l \in 2..(N + 1) : subs'[l].command # NoName
         /\ \A i, j \in 2..(N + 1) : subs'[i].command = subs'[j].command => i = j
    BY <1>1, <1>2, <1>5, <1>9, <1>10, <1>11
  <1>13. subs' # <<>>
    BY <1>3, <1>5, EmptySeq
  <1> QED BY <1>5, <1>8, <1>12, <1>13 DEF SubsRight

LEMMA AddedGlobal ==
  ASSUME SubsRight, NEW k \in 1..Len(subs), NEW mw \in Middlewares, AddGlobal(k, mw)
  PROVE  SubsRight'
  <1>1. PICK o \in Subcommands : o = subs[k] /\ Sound(o)
    BY SubsFacts
  <1>2. PICK more \in Seq(Middlewares) : more = Append(o.globalmws, mw)
    <2>1. o.globalmws \in Seq(Middlewares)
      BY DEF Subcommands
    <2> QED BY <2>1, AppendProperties
  <1>3. PICK s : s = [o EXCEPT !.globalmws = more]
    OBVIOUS
  <1>4. s \in Subcommands /\ s.command = o.command
    BY <1>3 DEF Subcommands
  <1>5. s.Commands = o.Commands /\ s.Events = o.Events /\ s.plumbed = o.plumbed
    BY <1>3 DEF Subcommands
  <1>6. Sound(s)
    BY <1>1, <1>5 DEF Sound
  <1>7. subs' = [subs EXCEPT ![k] = s]
    BY <1>1, <1>2, <1>3 DEF AddGlobal
  <1> QED BY <1>1, <1>4, <1>6, <1>7, OneChanged

LEMMA AddedMiddleware ==
  ASSUME SubsRight, NEW k \in 1..Len(subs), NEW name, NEW mw \in Middlewares, AddMiddleware(k, name, mw)
  PROVE  SubsRight'
  <1>1. PICK o \in Subcommands : o = subs[k] /\ Sound(o)
    BY SubsFacts
  <1>2. /\ o.Commands \in Seq(Methods) /\ o.Events \in Seq(Methods) /\ o.plumbed \in Plumbs
        /\ NamedOnce(o.Commands) /\ NamedOnce(o.Events)
        /\ o.plumbed # NoName => \E i \in 1..Len(o.Commands) : o.Commands[i].name = o.plumbed
    BY <1>1 DEF Subcommands, Sound
  <1>3. PICK cs : cs = addMiddleware(o.Commands, name, mw)
    OBVIOUS
  <1>4. PICK es : es = addMiddleware(o.Events, name, mw)
    OBVIOUS
  <1>5. /\ cs \in Seq(Methods) /\ Len(cs) = Len(o.Commands)
        /\ \A i \in 1..Len(o.Commands) : cs[i].name = o.Commands[i].name
    BY <1>2, <1>3, WithMiddleware
  <1>6. /\ es \in Seq(Methods) /\ Len(es) = Len(o.Events)
        /\ \A i \in 1..Len(o.Events) : es[i].name = o.Events[i].name
    BY <1>2, <1>4, WithMiddleware
  <1>7. PICK s : s = [o EXCEPT !.Commands = cs, !.Events = es]
    OBVIOUS
  <1>8. s \in Subcommands /\ s.command = o.command
    BY <1>5, <1>6, <1>7 DEF Subcommands
  <1>9. s.Commands = cs /\ s.Events = es /\ s.plumbed = o.plumbed
    BY <1>7 DEF Subcommands
  <1>10. NamedOnce(cs) /\ NamedOnce(es)
    BY <1>2, <1>5, <1>6, SameNames
  <1>11. Sound(s)
    BY <1>2, <1>5, <1>9, <1>10 DEF Sound
  <1>12. subs' = [subs EXCEPT ![k] = s]
    BY <1>1, <1>3, <1>4, <1>7 DEF AddMiddleware
  <1> QED BY <1>1, <1>8, <1>11, <1>12, OneChanged

LEMMA PlumbSet ==
  ASSUME SubsRight, NEW k \in 1..Len(subs), NEW name, SetPlumb(k, name)
  PROVE  SubsRight'
  <1>1. PICK o \in Subcommands : o = subs[k] /\ Sound(o)
    BY SubsFacts
  <1>2. o.Commands \in Seq(Methods)
    BY DEF Subcommands
  <1>3. PICK i \in 1..Len(o.Commands) : o.Commands[i].name = name
    <2>1. findMethod(o.Commands, name) # {}
      BY <1>1 DEF SetPlumb
    <2> QED BY <1>2, <2>1, LenProperties DEF findMethod
  <1>4. name \in Plumbs
    <2>1. o.Commands[i] \in Methods
      BY <1>2
    <2> QED BY <1>3, <2>1 DEF Methods, Plumbs
  <1>5. PICK s : s = [o EXCEPT !.plumbed = name]
    OBVIOUS
  <1>6. s \in Subcommands /\ s.command = o.command
    BY <1>4, <1>5 DEF Subcommands
  <1>7. s.Commands = o.Commands /\ s.Events = o.Events /\ s.plumbed = name
    BY <1>5 DEF Subcommands
  <1>8. Sound(s)
    BY <1>1, <1>3, <1>7 DEF Sound
  <1>9. subs' = [subs EXCEPT ![k] = s]
    BY <1>1, <1>5 DEF SetPlumb
  <1> QED BY <1>1, <1>6, <1>8, <1>9, OneChanged

LEMMA AliasesAdded ==
  ASSUME SubsRight, NEW k \in 1..Len(subs), NEW name, NEW alias \in CommandNames,
         AddAliases(k, name, alias)
  PROVE  SubsRight'
  <1>1. PICK o \in Subcommands : o = subs[k] /\ Sound(o)
    BY SubsFacts
  <1>2. PICK ms \in Seq(Methods) : /\ ms = o.Commands /\ NamedOnce(ms)
                                   /\ o.plumbed # NoName => \E i \in 1..Len(ms) : ms[i].name = o.plumbed
    BY <1>1 DEF Subcommands, Sound
  <1>3. PICK N \in Nat : N = Len(ms) /\ DOMAIN ms = 1..N
    BY LenProperties
  <1> DEFINE wrap(m) == IF m.name = name THEN [m EXCEPT !.names = Append(@, alias)] ELSE m
             cs == [c \in 1..N |-> wrap(ms[c])]
  <1>4. ASSUME NEW m \in Methods
        PROVE  wrap(m) \in Methods /\ wrap(m).name = m.name
    <2>1. m.names \in Seq(Alike) /\ alias \in Alike
      <3>1. alias # NoName
        BY BotAssumption DEF NoName
      <3> QED BY <3>1 DEF Methods, Alike
    <2>2. PICK more \in Seq(Alike) : more = Append(m.names, alias)
      BY <2>1, AppendProperties
    <2>3. [m EXCEPT !.names = more] \in Methods /\ [m EXCEPT !.names = more].name = m.name
      BY DEF Methods
    <2> QED BY <2>2, <2>3
  <1>5. \A i \in 1..N : ms[i] \in Methods
    BY <1>3
  <1>6. subs' = [subs EXCEPT ![k].Commands = cs]
    <2>1. subs' = [subs EXCEPT ![k].Commands = addAlias(subs[k].Commands, name, alias)]
      BY DEF AddAliases
    <2>2. addAlias(subs[k].Commands, name, alias) = cs
      BY <1>1, <1>2, <1>3 DEF addAlias
    <2> HIDE DEF cs, wrap
    <2> QED BY <2>1, <2>2
  <1> HIDE DEF wrap
  <1>7. \A i \in 1..N : wrap(ms[i]) \in Methods /\ wrap(ms[i]).name = ms[i].name
    BY <1>4, <1>5
  <1>8. cs \in Seq(Methods) /\ Len(cs) = N /\ \A i \in 1..N : cs[i].name = ms[i].name
    BY <1>7
  <1> HIDE DEF cs
  <1>9. PICK s : s = [o EXCEPT !.Commands = cs]
    OBVIOUS
  <1>10. s \in Subcommands /\ s.command = o.command
    BY <1>8, <1>9 DEF Subcommands
  <1>11. s.Commands = cs /\ s.Events = o.Events /\ s.plumbed = o.plumbed
    BY <1>9 DEF Subcommands
  <1>12. NamedOnce(cs) /\ NamedOnce(o.Events)
    BY <1>1, <1>2, <1>3, <1>8, SameNames DEF Sound
  <1>13. Sound(s)
    BY <1>2, <1>3, <1>8, <1>11, <1>12 DEF Sound
  <1>14. subs' = [subs EXCEPT ![k] = s]
    BY <1>1, <1>6, <1>9
  <1> QED BY <1>1, <1>10, <1>13, <1>14, OneChanged

LEMMA SubHidden ==
  ASSUME SubsRight, NEW k \in 1..Len(subs), HideSubcommand(k)
  PROVE  SubsRight'
  <1>1. PICK o \in Subcommands : o = subs[k] /\ Sound(o)
    BY SubsFacts
  <1>2. PICK s : s = [o EXCEPT !.hidden = TRUE]
    OBVIOUS
  <1>3. s \in Subcommands /\ s.command = o.command
    BY <1>2 DEF Subcommands
  <1>4. s.Commands = o.Commands /\ s.Events = o.Events /\ s.plumbed = o.plumbed
    BY <1>2 DEF Subcommands
  <1>5. Sound(s)
    BY <1>1, <1>4 DEF Sound
  <1>6. subs' = [subs EXCEPT ![k] = s]
    BY <1>1, <1>2 DEF HideSubcommand
  <1> QED BY <1>1, <1>3, <1>5, <1>6, OneChanged
-----------------------------------------------------------------------------
(* BotContext: the steps of an event.                                       *)

LEMMA SameCallers ==
  ASSUME subs' = subs
  PROVE  /\ \A k, t : eventCallers(k, t)' = eventCallers(k, t)
         /\ \A t : filterEventType(t)' = filterEventType(t)
  BY DEF eventCallers, globalCallers, handlerCallers, isEvent, Call, filterEventType

LEMMA SameCache ==
  ASSUME CacheRight, subs' = subs, typeCache' = typeCache, late' = late
  PROVE  CacheRight'
  <1> SUFFICES ASSUME NEW t \in DOMAIN typeCache
               PROVE  /\ typeCache[t] \in Seq(Seq(CallRecords))
                      /\ t \notin late => typeCache[t] = filterEventType(t)'
    BY DEF CacheRight
  <1>1. filterEventType(t)' = filterEventType(t)
    BY SameCallers
  <1> QED BY <1>1 DEF CacheRight

LEMMA AfterRegistering ==
  ASSUME BotInv, Registering, SubsRight'
  PROVE  BotInv'
  <1>1. /\ SubsRight' /\ run' = run /\ typeCache' = typeCache /\ run.at = "idle"
        /\ late' = late \cup DOMAIN typeCache
    BY DEF Registering
  <1>2. RunIs'
    <2>1. Uncalled' = Uncalled /\ RunIs
      BY <1>1 DEF Uncalled, BotInv
    <2> QED BY <1>1, <2>1 DEF RunIs
  <1>3. CacheRight'
    BY <1>1 DEF CacheRight, BotInv
  <1>4. Calling'
    BY <1>1 DEF Calling
  <1>5. Commanding'
    <2>1. Errs' = Errs /\ Commanded' = Commanded
      BY <1>1 DEF Errs, Commanded
    <2>2. CommandCalled'
      BY <1>1 DEF CommandCalled
    <2> QED BY <1>1, <2>1, <2>2 DEF Commanding, BotInv
  <1> QED BY <1>1, <1>2, <1>3, <1>4, <1>5 DEF BotInv

(* Nothing is called yet.                                                   *)
LEMMA NoneCalled ==
  ASSUME run.called = <<>>
  PROVE  /\ \A k : CallsOf(k) = {} /\ Failed(CallsOf(k)) = {}
         /\ Errs = {} /\ Commanded = {}
  <1>1. DOMAIN run.called = {}
    OBVIOUS
  <1> QED BY <1>1 DEF CallsOf, Failed, Errs, Commanded

LEMMA BotStarts ==
  ASSUME BotInit
  PROVE  BotInv
  <1>1. PICK s \in Subcommands : s = NewSubcommand(Main, NoName, <<>>) /\ Sound(s) /\ s.command = NoName
    <2>1. NoName \in SubNames /\ Main \in DOMAIN Structs
      BY BotAssumption DEF SubNames
    <2> QED BY <2>1, NewRight
  <1>2. subs = <<s>>
    BY <1>1, Zenon DEF BotInit, NoName
  <1>3. SubsRight
    <2>1. subs \in Seq(Subcommands) /\ Len(subs) = 1 /\ subs[1] = s /\ subs # <<>>
      BY <1>2
    <2>2. \A k \in 1..Len(subs) : k = 1
      BY <2>1
    <2>3. \A k \in 2..Len(subs) : FALSE
      BY <2>1
    <2> QED BY <1>1, <2>1, <2>2, <2>3 DEF SubsRight
  <1>4. /\ run = Idle /\ Idle.at = "idle" /\ Idle.called = <<>> /\ Idle.todo = <<>> /\ Idle.own = <<>>
        /\ Idle.words = <<>> /\ Idle.failed = FALSE
    BY DEF BotInit, Idle
  <1>5. RunIs
    <2>1. /\ run.words \in Seq(STRING) /\ run.todo \in Seq(Seq(CallRecords))
          /\ run.own \in Seq(OwnRecords) /\ run.called \in Seq(Called)
      BY <1>4
    <2>2. run.failed \in BOOLEAN
      BY <1>4
    <2>3. run.at \in {"idle", "call", "walk", "done"} /\ run.at \notin {"walk", "done"}
      BY <1>4
    <2>4. DOMAIN run = DOMAIN Idle
      BY <1>4
    <2> QED BY <2>1, <2>2, <2>3, <2>4 DEF RunIs
  <1>6. CacheRight
    BY DEF CacheRight, BotInit
  <1>7. Calling
    BY <1>4 DEF Calling
  <1>8. Commanding
    <2>1. Errs = {} /\ Commanded = {}
      BY <1>4, NoneCalled
    <2>2. CommandCalled
      BY <1>4 DEF CommandCalled
    <2> QED BY <1>4, <2>1, <2>2 DEF Commanding
  <1> QED BY <1>3, <1>5, <1>6, <1>7, <1>8 DEF BotInv

LEMMA AfterFinish ==
  ASSUME BotInv, FinishEvent
  PROVE  BotInv'
  <1>1. /\ subs' = subs /\ typeCache' = typeCache /\ late' = late /\ run' = [Idle EXCEPT !.no = run.no]
    BY DEF FinishEvent
  <1>2. /\ run'.at = "idle" /\ run'.called = <<>> /\ run'.todo = <<>> /\ run'.own = <<>>
        /\ run'.words = <<>> /\ run'.failed = FALSE /\ DOMAIN run' = DOMAIN Idle
    BY <1>1 DEF Idle
  <1>3. SubsRight'
    BY <1>1 DEF SubsRight, BotInv
  <1>4. RunIs'
    <2>1. /\ run'.words \in Seq(STRING) /\ run'.todo \in Seq(Seq(CallRecords))
          /\ run'.own \in Seq(OwnRecords) /\ run'.called \in Seq(Called)
      BY <1>2
    <2>2. run'.failed \in BOOLEAN
      BY <1>2
    <2>3. run'.at \in {"idle", "call", "walk", "done"} /\ run'.at \notin {"walk", "done"}
      BY <1>2
    <2> QED BY <1>2, <2>1, <2>2, <2>3 DEF RunIs
  <1>5. CacheRight'
    BY <1>1, SameCache DEF BotInv
  <1>6. Calling'
    BY <1>2 DEF Calling
  <1>7. Commanding'
    <2>1. Errs' = {} /\ Commanded' = {}
      BY <1>2 DEF Errs, Commanded
    <2> QED BY <1>2, <2>1 DEF Commanding, CommandCalled
  <1> QED BY <1>3, <1>4, <1>5, <1>6, <1>7 DEF BotInv

LEMMA AfterCallCmd ==
  ASSUME BotInv, NEW t \in EventTypes, callCmd(t)
  PROVE  BotInv'
  <1>1. SubsRight /\ CacheRight
    BY DEF BotInv
  <1>2. PICK callers : /\ callers = IF t \in DOMAIN typeCache THEN typeCache[t] ELSE filterEventType(t)
                       /\ typeCache' = [x \in DOMAIN typeCache \cup {t} |->
                                            IF x = t THEN callers ELSE typeCache[x]]
                       /\ run' = [Idle EXCEPT !.at = "call", !.type = t, !.todo = callers,
                                      !.no = run.no + 1]
    BY DEF callCmd
  <1>3. subs' = subs /\ late' = late
    BY DEF callCmd
  <1>4. callers \in Seq(Seq(CallRecords)) /\ (t \notin late => callers = filterEventType(t))
    BY <1>1, <1>2, FilteredRight DEF CacheRight
  <1>5. /\ run'.at = "call" /\ run'.called = <<>> /\ run'.todo = callers /\ run'.own = <<>>
        /\ run'.words = <<>> /\ run'.failed = FALSE /\ DOMAIN run' = DOMAIN Idle /\ run'.type = t
    BY <1>2 DEF Idle
  <1>6. SubsRight'
    BY <1>1, <1>3 DEF SubsRight
  <1>7. RunIs'
    <2>1. /\ run'.words \in Seq(STRING) /\ run'.todo \in Seq(Seq(CallRecords))
          /\ run'.own \in Seq(OwnRecords) /\ run'.called \in Seq(Called)
      BY <1>4, <1>5
    <2>2. run'.failed \in BOOLEAN
      BY <1>5
    <2>3. run'.at \in {"idle", "call", "walk", "done"} /\ run'.at \notin {"walk", "done"}
      BY <1>5
    <2> QED BY <1>5, <2>1, <2>2, <2>3 DEF RunIs
  <1>8. CacheRight'
    <2> SUFFICES ASSUME NEW x \in DOMAIN typeCache'
                 PROVE  /\ typeCache'[x] \in Seq(Seq(CallRecords))
                        /\ x \notin late' => typeCache'[x] = filterEventType(x)'
      BY DEF CacheRight
    <2>1. filterEventType(x)' = filterEventType(x)
      BY <1>3, SameCallers
    <2>2. x \in DOMAIN typeCache \cup {t} /\ typeCache'[x] = IF x = t THEN callers ELSE typeCache[x]
      BY <1>2
    <2>3. x # t => /\ typeCache[x] \in Seq(Seq(CallRecords))
                   /\ x \notin late => typeCache[x] = filterEventType(x)
      BY <1>1, <2>2 DEF CacheRight
    <2> QED BY <1>3, <1>4, <2>1, <2>2, <2>3
  <1>9. /\ \A k : CallsOf(k)' = {} /\ Failed(CallsOf(k))' = {}
        /\ Errs' = {} /\ Commanded' = {}
    BY <1>5 DEF CallsOf, Failed, Errs, Commanded
  <1>10. Calling'
    <2> SUFFICES ASSUME t \notin late
                 PROVE  /\ Len(callers) = Len(subs)
                        /\ \A k \in 1..Len(subs) : Through(k)' /\ Ordered(k)'
      BY <1>3, <1>5 DEF Calling
    <2>1. Len(callers) = Len(subs) /\ \A k \in 1..Len(subs) : callers[k] = eventCallers(k, t)
      BY <1>1, <1>4, FilteredRight
    <2>2. ASSUME NEW k \in 1..Len(subs)
          PROVE  Through(k)'
      <3>1. PICK w \in Seq(CallRecords) : w = eventCallers(k, t) /\ w = eventCallers(k, t)' /\ w = callers[k]
        BY <1>1, <1>3, <2>1, CallersRight, SameCallers DEF AllCallers
      <3>2. SubSeq(w, 0 + 1, Len(w)) = w /\ 0 \in 0..Len(w)
        BY SubSeqFull
      <3>3. run'.todo[k] = w
        BY <1>5, <3>1
      <3> QED BY <1>5, <1>9, <3>1, <3>2, <3>3 DEF Through, Reached
    <2>3. \A k \in 1..Len(subs) : Ordered(k)'
      BY <1>9 DEF Ordered
    <2> QED BY <2>1, <2>2, <2>3
  <1>11. Commanding'
    BY <1>5, <1>9 DEF Commanding, CommandCalled
  <1> QED BY <1>6, <1>7, <1>8, <1>10, <1>11 DEF BotInv

(* One more call.                                                           *)
LEMMA OneMoreCall ==
  ASSUME RunIs, NEW c \in Called, run'.called = Append(run.called, c)
  PROVE  LET L == Len(run.called)
             counts(k) == c.sub = k /\ c.what \in {"mw", "method"} IN
         /\ L \in Nat /\ DOMAIN run.called = 1..L
         /\ run'.called \in Seq(Called) /\ DOMAIN run'.called = 1..(L + 1) /\ run'.called[L + 1] = c
         /\ \A i \in 1..L : run'.called[i] = run.called[i]
         /\ \A k : CallsOf(k)' = CallsOf(k) \cup {i \in {L + 1} : counts(k)}
         /\ \A k : Failed(CallsOf(k))' = Failed(CallsOf(k)) \cup {i \in {L + 1} : counts(k) /\ c.out # "ok"}
         /\ Errs' = Errs \cup {i \in {L + 1} : c.what \in {"mw", "method"} /\ c.out = "err"}
         /\ Commanded' = Commanded \cup {i \in {L + 1} : c.what = "command"}
  <1>1. run.called \in Seq(Called)
    BY DEF RunIs
  <1>2. PICK L \in Nat : L = Len(run.called) /\ DOMAIN run.called = 1..L
    BY <1>1, LenProperties
  <1>3. /\ run'.called \in Seq(Called) /\ Len(run'.called) = L + 1 /\ run'.called[L + 1] = c
        /\ \A i \in 1..L : run'.called[i] = run.called[i]
    BY <1>1, <1>2, AppendProperties
  <1>4. DOMAIN run'.called = 1..(L + 1)
    BY <1>3, LenProperties
  <1>5. L + 1 \notin 1..L /\ 1..(L + 1) = 1..L \cup {L + 1}
    OBVIOUS
  <1>6. \A k : CallsOf(k)' = CallsOf(k) \cup {i \in {L + 1} : c.sub = k /\ c.what \in {"mw", "method"}}
    BY <1>2, <1>3, <1>4, <1>5 DEF CallsOf
  <1>7. ASSUME NEW k
        PROVE  Failed(CallsOf(k))' = Failed(CallsOf(k)) \cup
                   {i \in {L + 1} : (c.sub = k /\ c.what \in {"mw", "method"}) /\ c.out # "ok"}
    <2>1. Failed(CallsOf(k))' = {i \in CallsOf(k)' : run'.called[i].out # "ok"}
      BY DEF Failed
    <2>2. CallsOf(k) \subseteq 1..L
      BY <1>2 DEF CallsOf
    <2> QED BY <1>3, <1>5, <1>6, <2>1, <2>2 DEF Failed
  <1>8. Errs' = Errs \cup {i \in {L + 1} : c.what \in {"mw", "method"} /\ c.out = "err"}
    BY <1>2, <1>3, <1>4, <1>5 DEF Errs
  <1>9. Commanded' = Commanded \cup {i \in {L + 1} : c.what = "command"}
    BY <1>2, <1>3, <1>4, <1>5 DEF Commanded
  <1> QED BY <1>2, <1>3, <1>4, <1>6, <1>7, <1>8, <1>9

LEMMA SameThrough ==
  ASSUME NEW k, Through(k), Ordered(k), subs' = subs, run'.type = run.type, run'.todo[k] = run.todo[k],
         CallsOf(k)' = CallsOf(k), Failed(CallsOf(k))' = Failed(CallsOf(k)),
         \A i \in CallsOf(k) : run'.called[i] = run.called[i]
  PROVE  Through(k)' /\ Ordered(k)'
  <1>1. PICK w : w = eventCallers(k, run.type) /\ w = eventCallers(k, run.type)'
    BY SameCallers
  <1>2. Through(k)'
    <2>1. Reached(k, w)
      BY <1>1 DEF Through
    <2>2. PICK n \in 0..Len(w) :
             /\ \A x \in 1..n : \E i \in CallsOf(k) :
                    run.called[i].what = w[x].what /\ run.called[i].id = w[x].id
             /\ \A i \in CallsOf(k) : \E x \in 1..n :
                    run.called[i].what = w[x].what /\ run.called[i].id = w[x].id
             /\ Failed(CallsOf(k)) = {} => run.todo[k] = SubSeq(w, n + 1, Len(w))
             /\ Failed(CallsOf(k)) # {} => run.todo[k] = <<>>
      BY <2>1 DEF Reached
    <2>3. ASSUME NEW x \in 1..n
          PROVE  \E i \in CallsOf(k)' : run'.called[i].what = w[x].what /\ run'.called[i].id = w[x].id
      <3>1. PICK i \in CallsOf(k) : run.called[i].what = w[x].what /\ run.called[i].id = w[x].id
        BY <2>2
      <3> QED BY <3>1
    <2>4. ASSUME NEW i \in CallsOf(k)'
          PROVE  \E x \in 1..n : run'.called[i].what = w[x].what /\ run'.called[i].id = w[x].id
      <3>1. PICK x \in 1..n : run.called[i].what = w[x].what /\ run.called[i].id = w[x].id
        BY <2>2
      <3> QED BY <3>1
    <2>5. /\ Failed(CallsOf(k))' = {} => run'.todo[k] = SubSeq(w, n + 1, Len(w))
          /\ Failed(CallsOf(k))' # {} => run'.todo[k] = <<>>
      BY <2>2
    <2>6. Reached(k, w)'
      BY <2>3, <2>4, <2>5 DEF Reached
    <2> QED BY <1>1, <2>6 DEF Through
  <1>3. Handlers(k)' = Handlers(k) /\ \A m : Guards(k, m)' = Guards(k, m)
    BY DEF Handlers, Guards, isEvent
  <1>4. Ordered(k)'
    BY <1>3 DEF Ordered
  <1> QED BY <1>2, <1>4

LEMMA Suffix ==
  ASSUME NEW X, NEW w \in Seq(X), NEW n \in 0..Len(w), NEW r, r = SubSeq(w, n + 1, Len(w))
  PROVE  /\ r = <<>> => n = Len(w)
         /\ r # <<>> => /\ n + 1 \in 1..Len(w) /\ Head(r) = w[n + 1]
                        /\ Tail(r) = SubSeq(w, (n + 1) + 1, Len(w))
  <1>1. PICK N \in Nat : N = Len(w) /\ n \in 0..N
    BY LenProperties
  <1>2. CASE n = N
    <2>1. r = <<>>
      BY <1>1, <1>2, SubSeqEmpty
    <2> QED BY <1>1, <1>2, <2>1
  <1>3. CASE n # N
    <2>1. n + 1 \in 1..N /\ N \in (n + 1)..N
      BY <1>1, <1>3
    <2>2. Head(r) = w[n + 1] /\ Tail(r) = SubSeq(w, (n + 1) + 1, N)
      BY <1>1, <2>1, HeadTailOfSubSeq
    <2>3. Len(r) = N - (n + 1) + 1
      <3>1. \A i \in (n + 1)..N : w[i] \in X
        BY <1>1
      <3>2. n + 1 \in Int /\ N \in Int
        BY <1>1
      <3>3. Len(SubSeq(w, n + 1, N)) = IF n + 1 <= N THEN N - (n + 1) + 1 ELSE 0
        BY <3>1, <3>2, SubSeqProperties
      <3> QED BY <1>1, <2>1, <3>3
    <2>4. r # <<>>
      <3>1. N - (n + 1) + 1 # 0
        BY <1>1, <1>3
      <3> QED BY <2>3, <3>1
    <2> QED BY <1>1, <2>1, <2>2, <2>4
  <1> QED BY <1>2, <1>3

LEMMA FirstIs ==
  ASSUME NEW S, S \subseteq Nat, S # {}
  PROVE  First(S) \in S
  <1>1. \E x \in S : \A y \in S : x <= y
    BY Least
  <1> QED BY <1>1 DEF First

LEMMA OutIs ==
  ASSUME NEW c \in CallRecords \cup OwnRecords, NEW out \in Outcomes
  PROVE  /\ Out(c, out) \in Called /\ Out(c, out).sub = c.sub /\ Out(c, out).what = c.what
         /\ Out(c, out).id = c.id /\ Out(c, out).out = out
  BY DEF Out, Called, CallRecords, OwnRecords

(* The next of Subcommand k.                                                *)
LEMMA NextCalled ==
  ASSUME SubsRight, RunIs, NEW k \in 1..Len(subs), Through(k), Ordered(k), run.todo[k] # <<>>,
         NEW out \in Outcomes, NEW c \in CallRecords, c = Head(run.todo[k]),
         subs' = subs, run'.type = run.type, run'.called = Append(run.called, Out(c, out)),
         run'.todo[k] = IF out = "ok" THEN Tail(run.todo[k]) ELSE <<>>
  PROVE  c.sub = k /\ Through(k)' /\ Ordered(k)'
  <1>1. PICK t, w : /\ t = run.type /\ w = eventCallers(k, t) /\ w = eventCallers(k, run.type)'
                    /\ AllCallers(w, k, t)
    BY SameCallers, CallersRight
  <1>2. PICK W \in Nat : W = Len(w) /\ w \in Seq(CallRecords)
    BY <1>1, LenProperties DEF AllCallers
  <1>3. PICK n \in 0..W :
           /\ \A x \in 1..n : \E i \in CallsOf(k) :
                  run.called[i].what = w[x].what /\ run.called[i].id = w[x].id
           /\ \A i \in CallsOf(k) : \E x \in 1..n :
                  run.called[i].what = w[x].what /\ run.called[i].id = w[x].id
           /\ Failed(CallsOf(k)) = {} => run.todo[k] = SubSeq(w, n + 1, Len(w))
           /\ Failed(CallsOf(k)) # {} => run.todo[k] = <<>>
    <2>1. Reached(k, w)
      BY <1>1 DEF Through
    <2> QED BY <1>2, <2>1 DEF Reached
  <1>4. Failed(CallsOf(k)) = {} /\ run.todo[k] = SubSeq(w, n + 1, Len(w))
    BY <1>3
  <1>5. n + 1 \in 1..W /\ c = w[n + 1] /\ Tail(run.todo[k]) = SubSeq(w, (n + 1) + 1, Len(w))
    BY <1>2, <1>4, Suffix
  <1>6. c.sub = k /\ c.what \in {"mw", "method"}
    BY <1>1, <1>2, <1>5 DEF AllCallers, CallRecords
  <1>7. PICK o \in Called : /\ o = Out(c, out) /\ o.sub = k /\ o.what = c.what /\ o.id = c.id
                            /\ o.out = out
    BY <1>6, OutIs
  <1>8. PICK L \in Nat :
           /\ DOMAIN run.called = 1..L /\ run'.called[L + 1] = o
           /\ \A i \in 1..L : run'.called[i] = run.called[i]
           /\ CallsOf(k)' = CallsOf(k) \cup {L + 1}
           /\ Failed(CallsOf(k))' = {i \in {L + 1} : out # "ok"}
    <2>1. PICK L \in Nat :
             /\ L = Len(run.called) /\ DOMAIN run.called = 1..L /\ run'.called[L + 1] = o
             /\ \A i \in 1..L : run'.called[i] = run.called[i]
             /\ CallsOf(k)' = CallsOf(k) \cup {i \in {L + 1} : o.sub = k /\ o.what \in {"mw", "method"}}
             /\ Failed(CallsOf(k))' = Failed(CallsOf(k)) \cup
                    {i \in {L + 1} : (o.sub = k /\ o.what \in {"mw", "method"}) /\ o.out # "ok"}
      BY <1>7, OneMoreCall
    <2>2. o.sub = k /\ o.what \in {"mw", "method"}
      BY <1>6, <1>7
    <2> QED BY <1>4, <1>7, <2>1, <2>2
  <1>9. CallsOf(k) \subseteq 1..L /\ L + 1 \notin 1..L
    BY <1>8 DEF CallsOf
  <1>10. Through(k)'
    <2>1. ASSUME NEW x \in 1..(n + 1)
          PROVE  \E i \in CallsOf(k)' : run'.called[i].what = w[x].what /\ run'.called[i].id = w[x].id
      <3>1. CASE x = n + 1
        BY <1>5, <1>7, <1>8, <3>1
      <3>2. CASE x # n + 1
        <4>1. x \in 1..n
          BY <3>2
        <4>2. PICK i \in CallsOf(k) : run.called[i].what = w[x].what /\ run.called[i].id = w[x].id
          BY <1>3, <4>1
        <4> QED BY <1>8, <1>9, <4>2
      <3> QED BY <3>1, <3>2
    <2>2. ASSUME NEW i \in CallsOf(k)'
          PROVE  \E x \in 1..(n + 1) : run'.called[i].what = w[x].what /\ run'.called[i].id = w[x].id
      <3>1. CASE i = L + 1
        <4>1. n + 1 \in 1..(n + 1)
          OBVIOUS
        <4> QED BY <1>5, <1>7, <1>8, <3>1, <4>1
      <3>2. CASE i # L + 1
        <4>1. i \in CallsOf(k)
          BY <1>8, <3>2
        <4>2. PICK x \in 1..n : run.called[i].what = w[x].what /\ run.called[i].id = w[x].id
          BY <1>3, <4>1
        <4>3. x \in 1..(n + 1) /\ run'.called[i] = run.called[i]
          BY <1>8, <1>9, <4>1
        <4> QED BY <4>2, <4>3
      <3> QED BY <3>1, <3>2
    <2>3. Failed(CallsOf(k))' = {} => run'.todo[k] = SubSeq(w, (n + 1) + 1, Len(w))
      BY <1>5, <1>8
    <2>4. Failed(CallsOf(k))' # {} => run'.todo[k] = <<>>
      BY <1>8
    <2>5. n + 1 \in 0..Len(w)
      BY <1>2, <1>5
    <2>6. Reached(k, w)'
      BY <2>1, <2>2, <2>3, <2>4, <2>5 DEF Reached
    <2> QED BY <1>1, <2>6 DEF Through
  <1>11. ASSUME NEW m \in Handlers(k)'
         PROVE  LET mine == {i \in CallsOf(k)' :
                                run'.called[i].what = "method" /\ run'.called[i].id = m.name} IN
                /\ \A i, j \in mine : i = j
                /\ \A i \in mine, x \in Guards(k, m)' :
                       \E j \in CallsOf(k)' :
                           j < i /\ run'.called[j].what = "mw" /\ run'.called[j].id = x
    <2>1. m \in Handlers(k) /\ Guards(k, m)' = Guards(k, m)
      BY DEF Handlers, Guards, isEvent
    <2> DEFINE mine == {i \in CallsOf(k) : run.called[i].what = "method" /\ run.called[i].id = m.name}
    <2>2. /\ \A i, j \in mine : i = j
          /\ \A i \in mine, x \in Guards(k, m) :
                 \E j \in CallsOf(k) : j < i /\ run.called[j].what = "mw" /\ run.called[j].id = x
      BY <2>1 DEF Ordered
    <2>3. m \in ToSet(subs[k].Events) /\ isEvent(m, t)
      BY <1>1, <2>1 DEF Handlers
    <2>4. ASSUME NEW i \in CallsOf(k)', run'.called[i].what = "method", run'.called[i].id = m.name
          PROVE  i \in mine \/ (i = L + 1 /\ c.what = "method" /\ c.id = m.name)
      BY <1>7, <1>8, <1>9, <2>4
    <2>5. c.what = "method" /\ c.id = m.name => mine = {}
      <3> SUFFICES ASSUME c.what = "method", c.id = m.name, NEW i \in mine
                   PROVE  FALSE
        OBVIOUS
      <3>1. PICK x \in 1..n : w[x].what = "method" /\ w[x].id = m.name
        BY <1>3
      <3>2. x \in 1..W /\ x # n + 1
        BY <1>5
      <3> QED BY <1>1, <1>2, <1>5, <3>1, <3>2 DEF AllCallers
    <2>6. ASSUME NEW x \in Guards(k, m), c.what = "method", c.id = m.name
          PROVE  \E j \in CallsOf(k)' : j < L + 1 /\ run'.called[j].what = "mw" /\ run'.called[j].id = x
      <3>1. PICK guard \in ToSet(m.middlewares) \cup Global(k, t) : x = guard.id
        BY <1>1 DEF Guards, Global
      <3>2. PICK y \in 1..W : y < n + 1 /\ w[y].what = "mw" /\ w[y].id = x
        <4>1. \A i \in 1..W : w[i].what = "method" /\ w[i].id = m.name =>
                  \A v \in ToSet(m.middlewares) \cup Global(k, t) :
                      \E j \in 1..W : j < i /\ w[j].what = "mw" /\ w[j].id = v.id
          <5>1. \A l \in ToSet(subs[k].Events), i \in 1..Len(w) :
                   w[i].what = "method" /\ w[i].id = l.name =>
                       \A v \in ToSet(l.middlewares) \cup Global(k, t) :
                           \E j \in 1..Len(w) : j < i /\ w[j].what = "mw" /\ w[j].id = v.id
            BY <1>1 DEF AllCallers
          <5> QED BY <1>2, <2>3, <5>1
        <4>2. w[n + 1].what = "method" /\ w[n + 1].id = m.name
          BY <1>5, <2>6
        <4>3. \E j \in 1..W : j < n + 1 /\ w[j].what = "mw" /\ w[j].id = guard.id
          BY <1>5, <4>1, <4>2
        <4> QED BY <3>1, <4>3
      <3>3. y \in 1..n
        BY <3>2
      <3>4. PICK j \in CallsOf(k) : run.called[j].what = "mw" /\ run.called[j].id = x
        BY <1>3, <3>2, <3>3
      <3>5. j \in 1..L /\ j < L + 1
        BY <1>9
      <3> QED BY <1>8, <3>4, <3>5
    <2>7. ASSUME NEW i \in mine, NEW x \in Guards(k, m)
          PROVE  \E j \in CallsOf(k)' : j < i /\ run'.called[j].what = "mw" /\ run'.called[j].id = x
      <3>1. PICK j \in CallsOf(k) : j < i /\ run.called[j].what = "mw" /\ run.called[j].id = x
        BY <2>2
      <3> QED BY <1>8, <1>9, <3>1
    <2> HIDE DEF mine
    <2>8. ASSUME NEW i \in CallsOf(k)', run'.called[i].what = "method", run'.called[i].id = m.name,
                 NEW x \in Guards(k, m)
          PROVE  \E j \in CallsOf(k)' : j < i /\ run'.called[j].what = "mw" /\ run'.called[j].id = x
      BY <2>4, <2>6, <2>7, <2>8
    <2>9. ASSUME NEW i \in CallsOf(k)', run'.called[i].what = "method", run'.called[i].id = m.name,
                 NEW j \in CallsOf(k)', run'.called[j].what = "method", run'.called[j].id = m.name
          PROVE  i = j
      BY <2>2, <2>4, <2>5, <2>9
    <2>10. Guards(k, m)' = Guards(k, m)
      BY <2>1
    <2> QED BY <2>8, <2>9, <2>10
  <1>12. \A i \in Failed(CallsOf(k))', j \in CallsOf(k)' : j <= i
    BY <1>8, <1>9
  <1>13. Ordered(k)'
    BY <1>11, <1>12 DEF Ordered
  <1> QED BY <1>6, <1>10, <1>13

LEMMA AfterCallNext ==
  ASSUME BotInv, CallNext
  PROVE  BotInv'
  <1>1. /\ SubsRight /\ RunIs /\ CacheRight /\ Calling /\ Commanding /\ run.at = "call"
        /\ subs' = subs /\ typeCache' = typeCache /\ late' = late /\ Uncalled # {}
    BY DEF BotInv, CallNext
  <1>2. run.todo \in Seq(Seq(CallRecords)) /\ DOMAIN run = DOMAIN Idle
    BY <1>1 DEF RunIs
  <1>3. PICK T \in Nat : T = Len(run.todo) /\ DOMAIN run.todo = 1..T
    BY <1>2, LenProperties
  <1>4. PICK k \in 1..T : k = First(Uncalled) /\ run.todo[k] # <<>>
    <2>1. Uncalled \subseteq 1..T
      BY <1>3 DEF Uncalled
    <2>2. Uncalled \subseteq Nat
      BY <2>1
    <2>3. First(Uncalled) \in Uncalled
      BY <1>1, <2>2, FirstIs
    <2> QED BY <1>3, <2>3 DEF Uncalled
  <1>5. PICK callers \in Seq(CallRecords) : callers = run.todo[k]
    BY <1>2, <1>3
  <1>6. Head(callers) \in CallRecords /\ Tail(callers) \in Seq(CallRecords)
    BY <1>4, <1>5, HeadTailProperties
  <1>7. PICK c \in CallRecords : c = Head(callers)
    BY <1>6
  <1>8. PICK out \in Outcomes :
           run' = [run EXCEPT !.called = Append(@, Out(Head(run.todo[k]), out)),
                      !.failed = @ \/ out = "err",
                      !.todo[k] = IF out = "ok" THEN Tail(@) ELSE <<>>]
    BY <1>4 DEF CallNext
  <1>9. PICK rest \in Seq(CallRecords) : rest = IF out = "ok" THEN Tail(callers) ELSE <<>>
    <2>1. <<>> \in Seq(CallRecords)
      OBVIOUS
    <2> QED BY <1>6, <2>1
  <1>10. PICK o \in Called : /\ o = Out(c, out) /\ o.sub = c.sub /\ o.what = c.what /\ o.id = c.id
                             /\ o.out = out /\ c.what \in {"mw", "method"}
    BY OutIs DEF CallRecords
  <1>11. run' = [run EXCEPT !.called = Append(@, o), !.failed = @ \/ out = "err", !.todo[k] = rest]
    BY <1>5, <1>7, <1>8, <1>9, <1>10
  <1>12. \A x \in {"at", "type", "words", "unclosed", "todo", "own", "failed", "called", "sub", "method"} :
             x \in DOMAIN run
    BY <1>2 DEF Idle
  <1>13. /\ run'.called = Append(run.called, o) /\ run'.todo = [run.todo EXCEPT ![k] = rest]
         /\ run'.at = "call" /\ run'.type = run.type /\ run'.words = run.words /\ run'.own = run.own
         /\ DOMAIN run' = DOMAIN run
    BY <1>1, <1>11, <1>12
  <1>14. run'.failed = (run.failed \/ out = "err")
    BY <1>11, <1>12
  <1>15. PICK L \in Nat :
           /\ L = Len(run.called) /\ DOMAIN run.called = 1..L /\ run'.called \in Seq(Called)
           /\ \A i \in 1..L : run'.called[i] = run.called[i]
           /\ \A l : CallsOf(l)' = CallsOf(l) \cup
                  {i \in {L + 1} : o.sub = l /\ o.what \in {"mw", "method"}}
           /\ \A l : Failed(CallsOf(l))' = Failed(CallsOf(l)) \cup
                  {i \in {L + 1} : (o.sub = l /\ o.what \in {"mw", "method"}) /\ o.out # "ok"}
           /\ Errs' = Errs \cup {i \in {L + 1} : o.what \in {"mw", "method"} /\ o.out = "err"}
           /\ Commanded' = Commanded \cup {i \in {L + 1} : o.what = "command"}
    BY <1>1, <1>13, OneMoreCall
  <1>16. SubsRight'
    BY <1>1 DEF SubsRight
  <1>17. CacheRight'
    BY <1>1, SameCache
  <1>18. RunIs'
    <2>1. run'.todo \in Seq(Seq(CallRecords))
      BY <1>2, <1>3, <1>13, ExceptSeq
    <2>2. run'.failed \in BOOLEAN
      BY <1>14
    <2>3. run'.at \notin {"walk", "done"} /\ run'.at \in {"idle", "call", "walk", "done"}
      BY <1>13
    <2>4. run.words \in Seq(STRING) /\ run.own \in Seq(OwnRecords)
      BY <1>1 DEF RunIs
    <2> QED BY <1>2, <1>13, <1>15, <2>1, <2>2, <2>3, <2>4 DEF RunIs
  <1>19. Calling'
    <2> SUFFICES ASSUME run.type \notin late
                 PROVE  /\ Len(run'.todo) = Len(subs)
                        /\ \A l \in 1..Len(subs) : Through(l)' /\ Ordered(l)'
      BY <1>1, <1>13 DEF Calling
    <2>1. T = Len(subs) /\ \A l \in 1..T : Through(l) /\ Ordered(l)
      BY <1>1, <1>3 DEF Calling
    <2>2. Len(run'.todo) = T /\ \A l \in 1..T : run'.todo[l] = IF l = k THEN rest ELSE run.todo[l]
      <3>1. run'.todo = [run.todo EXCEPT ![k] = rest]
        BY <1>13
      <3> QED BY <1>2, <1>3, <3>1, ExceptSeq
    <2>3. c.sub = k /\ Through(k)' /\ Ordered(k)'
      <3>1. run'.todo[k] = IF out = "ok" THEN Tail(run.todo[k]) ELSE <<>>
        BY <1>5, <1>9, <2>2
      <3>2. run'.called = Append(run.called, Out(c, out)) /\ c = Head(run.todo[k])
        BY <1>5, <1>7, <1>10, <1>13
      <3>3. run'.type = run.type /\ k \in 1..Len(subs) /\ Through(k) /\ Ordered(k)
        BY <1>13, <2>1
      <3> QED BY <1>1, <1>4, <3>1, <3>2, <3>3, NextCalled
    <2>4. ASSUME NEW l \in 1..T, l # k
          PROVE  Through(l)' /\ Ordered(l)'
      <3>1. CallsOf(l)' = CallsOf(l) /\ Failed(CallsOf(l))' = Failed(CallsOf(l))
        <4>1. /\ CallsOf(l)' = CallsOf(l) \cup {i \in {L + 1} : o.sub = l /\ o.what \in {"mw", "method"}}
              /\ Failed(CallsOf(l))' = Failed(CallsOf(l)) \cup
                     {i \in {L + 1} : (o.sub = l /\ o.what \in {"mw", "method"}) /\ o.out # "ok"}
          BY <1>15
        <4>2. o.sub # l
          BY <1>10, <2>3, <2>4
        <4> QED BY <4>1, <4>2
      <3>2. \A i \in CallsOf(l) : run'.called[i] = run.called[i]
        BY <1>15 DEF CallsOf
      <3>3. run'.todo[l] = run.todo[l]
        BY <2>2, <2>4
      <3> QED BY <1>1, <1>13, <2>1, <3>1, <3>2, <3>3, SameThrough
    <2> QED BY <2>1, <2>2, <2>3, <2>4
  <1>20. Commanding'
    <2>1. Commanded' = {}
      BY <1>1, <1>10, <1>15 DEF Commanding
    <2>2. (run'.failed) = (Errs' # {})
      <3>1. run.failed = (Errs # {})
        BY <1>1 DEF Commanding
      <3> QED BY <1>10, <1>14, <1>15, <3>1
    <2>3. CommandCalled'
      BY <1>13 DEF CommandCalled
    <2> QED BY <1>13, <2>1, <2>2, <2>3 DEF Commanding
  <1> QED BY <1>16, <1>17, <1>18, <1>19, <1>20 DEF BotInv

LEMMA KeptCalling ==
  ASSUME Calling, run.at # "idle", subs' = subs, late' = late, run'.type = run.type, run'.todo = run.todo,
         \A k : CallsOf(k)' = CallsOf(k) /\ Failed(CallsOf(k))' = Failed(CallsOf(k)),
         \A i \in DOMAIN run.called : run'.called[i] = run.called[i]
  PROVE  Calling'
  <1> SUFFICES ASSUME run.type \notin late
               PROVE  /\ Len(run.todo) = Len(subs)
                      /\ \A k \in 1..Len(subs) : Through(k)' /\ Ordered(k)'
    BY DEF Calling
  <1>1. Len(run.todo) = Len(subs) /\ \A k \in 1..Len(subs) : Through(k) /\ Ordered(k)
    BY DEF Calling
  <1>2. ASSUME NEW k \in 1..Len(subs)
        PROVE  Through(k)' /\ Ordered(k)'
    <2>1. \A i \in CallsOf(k) : run'.called[i] = run.called[i]
      BY DEF CallsOf
    <2> QED BY <1>1, <2>1, SameThrough
  <1> QED BY <1>1, <1>2
-----------------------------------------------------------------------------
(* BotContext: the command that a message means.                            *)

Trimmed(k, m, words, plumbed) ==
    LET content == trimPrefix(words, NamesOf(subs[k])) IN
    IF plumbed THEN content ELSE trimPrefix(content, ToSet(m.names))
Own(words) == {<<1, m.name, 1>> : m \in {c \in ToSet(subs[1].Commands) : words[1] \in ToSet(c.names)}}
Hits(words) == {k \in 2..Len(subs) : words[1] \in NamesOf(subs[k])}
OfSub(k, words) ==
    LET given == {c \in ToSet(subs[k].Commands) : Len(words) > 1 /\ words[2] \in ToSet(c.names)} IN
    IF given # {} THEN {<<k, m.name, 2>> : m \in given}
    ELSE IF subs[k].plumbed # NoName THEN {<<k, subs[k].plumbed, 1>>} ELSE {}
MeantBy(words) == Own(words) \cup UNION {OfSub(k, words) : k \in Hits(words)}

LEMMA MeantIs ==
  ASSUME run.words # <<>>
  PROVE  Meant = MeantBy(run.words)
  BY Zenon DEF Meant, MeantBy, Own, OfSub, Hits, NoName

LEMMA TrimIs ==
  \A content, names : trimPrefix(content, names) =
      IF content # <<>> /\ Head(content) \in names \ {NoName} THEN Tail(content) ELSE content
  BY Zenon DEF trimPrefix, NoName

LEMMA MethodIs ==
  ASSUME SubsRight, NEW k \in 1..Len(subs), NEW i \in 1..Len(subs[k].Commands)
  PROVE  MethodOf(k, subs[k].Commands[i].name) = subs[k].Commands[i]
  <1>1. PICK cs \in Seq(Methods) : cs = subs[k].Commands /\ NamedOnce(cs)
    BY SubsFacts DEF Subcommands, Sound
  <1>2. DOMAIN cs = 1..Len(cs) /\ i \in 1..Len(cs)
    BY <1>1, LenProperties
  <1>3. \A j \in DOMAIN cs : cs[j].name = cs[i].name => j = i
    BY <1>1, <1>2 DEF NamedOnce
  <1>4. (CHOOSE j \in DOMAIN cs : cs[j].name = cs[i].name) = i
    BY <1>2, <1>3
  <1>5. MethodOf(k, cs[i].name) = cs[CHOOSE j \in DOMAIN cs : cs[j].name = cs[i].name]
    BY <1>1 DEF MethodOf
  <1> QED BY <1>1, <1>4, <1>5

LEMMA TailsOf ==
  ASSUME NEW words \in Seq(STRING), words # <<>>
  PROVE  /\ Len(words) \in Nat /\ Len(words) >= 1
         /\ Tail(words) = SubSeq(words, 1 + 1, Len(words)) /\ Tail(words) \in Seq(STRING)
         /\ Len(words) >= 2 => /\ Tail(words) # <<>> /\ Tail(words)[1] = words[2]
                               /\ Tail(Tail(words)) = SubSeq(words, 2 + 1, Len(words))
                               /\ SubSeq(words, 3, Len(words)) = SubSeq(words, 2 + 1, Len(words))
  <1>1. PICK N \in Nat : N = Len(words) /\ N >= 1
    BY LenProperties, EmptySeq
  <1>2. Tail(words) = SubSeq(words, 2, N) /\ Tail(words) \in Seq(STRING) /\ 1 + 1 = 2 /\ 2 + 1 = 3
    BY <1>1, TailIsSubSeq, HeadTailProperties
  <1>3. ASSUME N >= 2
        PROVE  /\ Tail(words) # <<>> /\ Tail(words)[1] = words[2]
               /\ Tail(Tail(words)) = SubSeq(words, 3, N)
    <2>1. Len(Tail(words)) = N - 1 /\ \A i \in 1..Len(Tail(words)) : Tail(words)[i] = words[i + 1]
      BY <1>1, HeadTailProperties
    <2>2. 2 \in 1..N /\ N \in 2..N /\ 1 \in 1..(N - 1)
      BY <1>1, <1>3
    <2>3. Tail(SubSeq(words, 2, N)) = SubSeq(words, 2 + 1, N)
      BY <1>1, <2>2, HeadTailOfSubSeq
    <2>4. Tail(words) # <<>>
      <3>1. Len(Tail(words)) # 0
        BY <1>3, <2>1
      <3> QED BY <1>2, <3>1, EmptySeq
    <2> QED BY <1>2, <2>1, <2>2, <2>3, <2>4
  <1> QED BY <1>1, <1>2, <1>3

LEMMA CommandFound ==
  ASSUME SubsRight, NEW words \in Seq(STRING), words # <<>>
  PROVE  /\ findCommand(words) = {} => MeantBy(words) = {}
         /\ \A f \in findCommand(words) :
                /\ f.sub \in 1..Len(subs)
                /\ \E i \in 1..Len(subs[f.sub].Commands) : subs[f.sub].Commands[i].name = f.method
                /\ \E n \in {1, 2} :
                       /\ <<f.sub, f.method, n>> \in MeantBy(words)
                       /\ f.parts = SubSeq(words, n + 1, Len(words))
                       /\ Trimmed(f.sub, MethodOf(f.sub, f.method), words, f.plumbed)
                              = SubSeq(words, n + 1, Len(words))
  <1> DEFINE Right(f) ==
                /\ f.sub \in 1..Len(subs)
                /\ \E i \in 1..Len(subs[f.sub].Commands) : subs[f.sub].Commands[i].name = f.method
                /\ \E n \in {1, 2} :
                       /\ <<f.sub, f.method, n>> \in MeantBy(words)
                       /\ f.parts = SubSeq(words, n + 1, Len(words))
                       /\ Trimmed(f.sub, MethodOf(f.sub, f.method), words, f.plumbed)
                              = SubSeq(words, n + 1, Len(words))
  <1>1. PICK N \in Nat : N = Len(subs) /\ N # 0 /\ subs[1].command = NoName
    <2>1. subs \in Seq(Subcommands) /\ subs # <<>> /\ subs[1].command = NoName
      BY DEF SubsRight
    <2> QED BY <2>1, LenProperties, EmptySeq
  <1>2. ASSUME NEW k \in 1..N
        PROVE  /\ NamesOf(subs[k]) = {subs[k].command} /\ subs[k].Commands \in Seq(Methods)
               /\ DOMAIN subs[k].Commands = 1..Len(subs[k].Commands)
               /\ \A i \in 1..Len(subs[k].Commands) :
                      /\ subs[k].Commands[i] \in ToSet(subs[k].Commands)
                      /\ NoName \notin ToSet(subs[k].Commands[i].names)
               /\ \A c \in ToSet(subs[k].Commands) :
                      \E i \in 1..Len(subs[k].Commands) : subs[k].Commands[i] = c
    <2>1. subs[k].aliases = <<>> /\ subs[k].Commands \in Seq(Methods)
      <3>1. subs[k] \in Subcommands
        BY <1>1, SubsFacts
      <3> QED BY <3>1 DEF Subcommands, NoAliases
    <2>2. ToSet(<<>>) = {}
      BY DEF ToSet
    <2>3. NamesOf(subs[k]) = {subs[k].command}
      BY <2>1, <2>2 DEF NamesOf
    <2>4. \A i \in 1..Len(subs[k].Commands) : NoName \notin ToSet(subs[k].Commands[i].names)
      <3> SUFFICES ASSUME NEW i \in 1..Len(subs[k].Commands), NoName \in ToSet(subs[k].Commands[i].names)
                   PROVE  FALSE
        OBVIOUS
      <3>1. subs[k].Commands[i] \in Methods
        BY <2>1
      <3>2. PICK names \in Seq(Alike) : names = subs[k].Commands[i].names
        BY <3>1 DEF Methods
      <3>3. NoName \in Alike
        BY <3>2, Places
      <3> QED BY <3>3 DEF Alike
    <2>5. PICK cs \in Seq(Methods) : cs = subs[k].Commands
      BY <2>1
    <2>6. /\ DOMAIN cs = 1..Len(cs)
          /\ \A i \in 1..Len(cs) : cs[i] \in ToSet(cs)
          /\ \A c \in ToSet(cs) : \E i \in 1..Len(cs) : cs[i] = c
      BY Places, LenProperties
    <2> QED BY <2>1, <2>3, <2>4, <2>5, <2>6
  <1>3. 1 \in 1..N /\ \A k \in 2..N : k \in 1..N /\ k \in Nat /\ subs[k].command # NoName
    BY <1>1 DEF SubsRight
  <1>4. \A x : trimPrefix(words, {x}) = IF words[1] = x /\ x # NoName THEN Tail(words) ELSE words
    BY TrimIs
  <1>5. /\ Len(words) \in Nat /\ Len(words) >= 1
        /\ Tail(words) = SubSeq(words, 1 + 1, Len(words)) /\ Tail(words) \in Seq(STRING)
        /\ Len(words) >= 2 => /\ Tail(words) # <<>> /\ Tail(words)[1] = words[2]
                              /\ Tail(Tail(words)) = SubSeq(words, 2 + 1, Len(words))
                              /\ SubSeq(words, 3, Len(words)) = SubSeq(words, 2 + 1, Len(words))
    BY TailsOf
  <1>6. ASSUME NEW k \in 1..N, NEW word, Named(subs[k], word) # {}
        PROVE  /\ First(Named(subs[k], word)) \in 1..Len(subs[k].Commands)
               /\ word \in ToSet(subs[k].Commands[First(Named(subs[k], word))].names)
    <2>1. PICK C \in Nat : C = Len(subs[k].Commands)
      BY <1>2, LenProperties
    <2>2. Named(subs[k], word) \subseteq 1..C
      BY <1>2, <2>1 DEF Named
    <2>3. Named(subs[k], word) \subseteq Nat
      BY <2>2
    <2>4. First(Named(subs[k], word)) \in Named(subs[k], word)
      BY <1>6, <2>3, FirstIs
    <2> QED BY <1>2, <2>1, <2>2, <2>4 DEF Named
  <1>7. ASSUME NEW k \in 1..N, NEW word, Named(subs[k], word) = {}
        PROVE  \A c \in ToSet(subs[k].Commands) : word \notin ToSet(c.names)
    BY <1>2, <1>7 DEF Named
  <1>8. Head(words) = words[1]
    OBVIOUS
  <1>9. \A names : words[1] \in names /\ words[1] # NoName => trimPrefix(words, names) = Tail(words)
    BY <1>8, TrimIs
  <1>10. CASE Named(subs[1], words[1]) # {}
    <2>1. PICK i \in 1..Len(subs[1].Commands) :
             i = First(Named(subs[1], words[1])) /\ words[1] \in ToSet(subs[1].Commands[i].names)
      BY <1>3, <1>6, <1>10
    <2>2. PICK m : m = subs[1].Commands[i] /\ m = MethodOf(1, m.name) /\ m \in ToSet(subs[1].Commands)
      BY <1>1, <1>2, <1>3, <2>1, MethodIs
    <2>3. findCommand(words) = {Found(1, m.name, Tail(words), FALSE)}
      BY <1>10, <2>1, <2>2 DEF findCommand
    <2>4. PICK f : f = Found(1, m.name, Tail(words), FALSE)
      OBVIOUS
    <2>5. f.sub = 1 /\ f.method = m.name /\ f.parts = Tail(words) /\ f.plumbed = FALSE
      BY <2>4 DEF Found
    <2>6. <<1, m.name, 1>> \in MeantBy(words)
      BY <2>1, <2>2 DEF MeantBy, Own
    <2>7. words[1] # NoName
      BY <1>2, <1>3, <2>1
    <2>8. trimPrefix(words, NamesOf(subs[1])) = words
      <3>1. NamesOf(subs[1]) = {NoName}
        <4>1. NamesOf(subs[1]) = {subs[1].command}
          BY <1>2, <1>3
        <4> QED BY <1>1, <4>1
      <3>2. trimPrefix(words, {NoName}) = words
        BY <1>4, <2>7
      <3> QED BY <3>1, <3>2
    <2>9. Trimmed(1, m, words, FALSE) = Tail(words)
      BY <1>9, <2>1, <2>2, <2>7, <2>8 DEF Trimmed
    <2>10. Right(f)
      BY <1>1, <1>3, <1>5, <2>1, <2>2, <2>5, <2>6, <2>9
    <2> HIDE DEF Right
    <2>11. findCommand(words) # {} /\ \A x \in findCommand(words) : Right(x)
      BY <2>3, <2>4, <2>10
    <2> QED BY <2>11 DEF Right
  <1>11. CASE Named(subs[1], words[1]) = {}
    <2>1. Own(words) = {}
      BY <1>3, <1>7, <1>11 DEF Own
    <2>2. Hits(words) = {k \in 2..N : words[1] \in NamesOf(subs[k])}
      BY <1>1 DEF Hits
    <2>3. CASE Hits(words) = {}
      <3>1. findCommand(words) = {}
        BY <1>11, <2>3 DEF findCommand, Hits
      <3>2. MeantBy(words) = {}
        BY <2>1, <2>3 DEF MeantBy
      <3> QED BY <3>1, <3>2
    <2>4. CASE Hits(words) # {}
      <3>1. PICK k \in Hits(words) : k = First(Hits(words))
        <4>1. Hits(words) \subseteq Nat
          BY <1>3, <2>2
        <4> QED BY <2>4, <4>1, FirstIs
      <3>2. k \in 2..N /\ k \in 1..N /\ subs[k].command = words[1] /\ words[1] # NoName
        BY <1>2, <1>3, <2>2, <3>1
      <3>3. Hits(words) = {k}
        <4>1. \A l \in Hits(words) : l \in 2..N /\ subs[l].command = words[1]
          <5> TAKE l \in Hits(words)
          <5>1. l \in 2..N /\ words[1] \in NamesOf(subs[l])
            BY <2>2
          <5>2. NamesOf(subs[l]) = {subs[l].command}
            <6>1. l \in 1..N
              BY <1>3, <5>1
            <6> QED BY <1>2, <6>1
          <5> QED BY <5>1, <5>2
        <4>2. \A l \in 2..N : subs[l].command = subs[k].command => l = k
          BY <1>1, <3>2 DEF SubsRight
        <4> QED BY <3>1, <3>2, <4>1, <4>2
      <3>4. MeantBy(words) = OfSub(k, words)
        BY <2>1, <3>3 DEF MeantBy
      <3>5. Trimmed(k, subs[k], words, TRUE) = Tail(words) /\ trimPrefix(words, NamesOf(subs[k])) = Tail(words)
        BY <1>2, <1>9, <3>2 DEF Trimmed
      <3>6. CASE Len(words) >= 2 /\ Named(subs[k], words[2]) # {}
        <4>1. PICK i \in 1..Len(subs[k].Commands) :
                 i = First(Named(subs[k], words[2])) /\ words[2] \in ToSet(subs[k].Commands[i].names)
          BY <1>6, <3>2, <3>6
        <4>2. PICK m : m = subs[k].Commands[i] /\ m = MethodOf(k, m.name) /\ m \in ToSet(subs[k].Commands)
          BY <1>1, <1>2, <3>2, <4>1, MethodIs
        <4>3. findCommand(words) = {Found(k, m.name, SubSeq(words, 3, Len(words)), FALSE)}
          BY <1>11, <2>4, <3>1, <3>6, <4>1, <4>2 DEF findCommand, Hits
        <4>4. PICK f : f = Found(k, m.name, SubSeq(words, 3, Len(words)), FALSE)
          OBVIOUS
        <4>5. f.sub = k /\ f.method = m.name /\ f.parts = SubSeq(words, 3, Len(words)) /\ f.plumbed = FALSE
          BY <4>4 DEF Found
        <4>6. <<k, m.name, 2>> \in MeantBy(words)
          <5>1. Len(words) > 1
            BY <1>5, <3>6
          <5> QED BY <3>4, <4>1, <4>2, <5>1 DEF OfSub
        <4>7. Trimmed(k, m, words, FALSE) = SubSeq(words, 2 + 1, Len(words))
          <5>1. words[2] # NoName
            BY <1>2, <3>2, <4>1
          <5>2. Head(Tail(words)) = words[2] /\ Tail(words) # <<>>
            BY <1>5, <3>6
          <5>3. trimPrefix(Tail(words), ToSet(m.names)) = Tail(Tail(words))
            BY <4>1, <4>2, <5>1, <5>2, TrimIs
          <5> QED BY <1>5, <3>5, <3>6, <5>3 DEF Trimmed
        <4>8. Right(f)
          BY <1>1, <1>5, <3>2, <3>6, <4>1, <4>2, <4>5, <4>6, <4>7
        <4> HIDE DEF Right
        <4>9. findCommand(words) # {} /\ \A x \in findCommand(words) : Right(x)
          BY <4>3, <4>4, <4>8
        <4> QED BY <4>9 DEF Right
      <3>7. CASE ~(Len(words) >= 2 /\ Named(subs[k], words[2]) # {})
        <4>1. {c \in ToSet(subs[k].Commands) : Len(words) > 1 /\ words[2] \in ToSet(c.names)} = {}
          <5>1. CASE Len(words) > 1
            <6>1. Named(subs[k], words[2]) = {}
              BY <1>5, <3>7, <5>1
            <6>2. \A c \in ToSet(subs[k].Commands) : words[2] \notin ToSet(c.names)
              BY <1>7, <3>2, <6>1
            <6> QED BY <6>2
          <5>2. CASE ~(Len(words) > 1)
            BY <5>2
          <5> QED BY <5>1, <5>2
        <4>2. OfSub(k, words) = IF subs[k].plumbed # NoName THEN {<<k, subs[k].plumbed, 1>>} ELSE {}
          BY <4>1 DEF OfSub
        <4>3. findCommand(words) = IF subs[k].plumbed # NoName
                                   THEN {Found(k, subs[k].plumbed, Tail(words), TRUE)} ELSE {}
          BY <1>11, <2>4, <3>1, <3>7, Zenon DEF findCommand, Hits, NoName
        <4>4. CASE subs[k].plumbed # NoName
          <5>1. PICK f : f = Found(k, subs[k].plumbed, Tail(words), TRUE)
            OBVIOUS
          <5>2. f.sub = k /\ f.method = subs[k].plumbed /\ f.parts = Tail(words) /\ f.plumbed = TRUE
            BY <5>1 DEF Found
          <5>3. \E i \in 1..Len(subs[k].Commands) : subs[k].Commands[i].name = f.method
            BY <1>1, <3>2, <4>4, <5>2, SubsFacts DEF Sound
          <5>4. <<k, f.method, 1>> \in MeantBy(words)
            BY <3>4, <4>2, <4>4, <5>2
          <5>5. Trimmed(k, MethodOf(k, f.method), words, TRUE) = Tail(words)
            BY <3>5 DEF Trimmed
          <5>6. Right(f)
            BY <1>1, <1>5, <3>2, <5>2, <5>3, <5>4, <5>5
          <5> HIDE DEF Right
          <5>7. findCommand(words) # {} /\ \A x \in findCommand(words) : Right(x)
            BY <4>3, <4>4, <5>1, <5>6
          <5> QED BY <5>7 DEF Right
        <4>5. CASE subs[k].plumbed = NoName
          BY <3>4, <4>2, <4>3, <4>5
        <4> QED BY <4>4, <4>5
      <3> QED BY <3>6, <3>7
    <2> QED BY <2>3, <2>4
  <1> QED BY <1>10, <1>11

LEMMA NextMeantIs ==
  ASSUME subs' = subs, run'.words # <<>>
  PROVE  Meant' = MeantBy(run'.words)
  BY Zenon DEF Meant, MeantBy, Own, Hits, OfSub, NamesOf, NoName
-----------------------------------------------------------------------------
(* BotContext: the steps of an event after its callers.                     *)

LEMMA Going ==
  ASSUME BotInv, run.at # "idle", Uncalled = {}, subs' = subs, typeCache' = typeCache, late' = late,
         DOMAIN run' = DOMAIN run, run'.type = run.type, run'.todo = run.todo, run'.failed = run.failed,
         run'.at \in {"walk", "done"}, run'.words \in Seq(STRING), run'.own \in Seq(OwnRecords),
         \/ run'.called = run.called
         \/ \E c \in Called : c.what \in {"own", "command"} /\ run'.called = Append(run.called, c)
  PROVE  /\ SubsRight' /\ RunIs' /\ CacheRight' /\ Calling' /\ run'.failed = (Errs' # {})
         /\ Errs' = Errs /\ \A k : CallsOf(k)' = CallsOf(k)
         /\ \A i \in DOMAIN run.called : i \in DOMAIN run'.called /\ run'.called[i] = run.called[i]
  <1>1. /\ SubsRight /\ RunIs /\ CacheRight /\ Calling /\ Commanding
    BY DEF BotInv
  <1>2. /\ run'.called \in Seq(Called) /\ Errs' = Errs
        /\ \A k : CallsOf(k)' = CallsOf(k) /\ Failed(CallsOf(k))' = Failed(CallsOf(k))
        /\ \A i \in DOMAIN run.called : i \in DOMAIN run'.called /\ run'.called[i] = run.called[i]
    <2>1. CASE run'.called = run.called
      BY <1>1, <2>1 DEF RunIs, Errs, CallsOf, Failed
    <2>2. CASE \E c \in Called : c.what \in {"own", "command"} /\ run'.called = Append(run.called, c)
      <3>1. PICK c \in Called : c.what \in {"own", "command"} /\ run'.called = Append(run.called, c)
        BY <2>2
      <3>2. PICK L \in Nat :
               /\ L = Len(run.called) /\ DOMAIN run.called = 1..L /\ run'.called \in Seq(Called)
               /\ DOMAIN run'.called = 1..(L + 1)
               /\ \A i \in 1..L : run'.called[i] = run.called[i]
               /\ \A k : CallsOf(k)' = CallsOf(k) \cup
                      {i \in {L + 1} : c.sub = k /\ c.what \in {"mw", "method"}}
               /\ \A k : Failed(CallsOf(k))' = Failed(CallsOf(k)) \cup
                      {i \in {L + 1} : (c.sub = k /\ c.what \in {"mw", "method"}) /\ c.out # "ok"}
               /\ Errs' = Errs \cup {i \in {L + 1} : c.what \in {"mw", "method"} /\ c.out = "err"}
        BY <1>1, <3>1, OneMoreCall
      <3>3. c.what \notin {"mw", "method"}
        BY <3>1
      <3>4. \A i \in 1..L : i \in 1..(L + 1)
        OBVIOUS
      <3> QED BY <3>2, <3>3, <3>4
    <2> QED BY <2>1, <2>2
  <1>3. SubsRight'
    BY <1>1 DEF SubsRight
  <1>4. CacheRight'
    BY <1>1, SameCache
  <1>5. Calling'
    BY <1>1, <1>2, KeptCalling
  <1>6. Uncalled' = {}
    BY DEF Uncalled
  <1>7. RunIs'
    BY <1>1, <1>2, <1>6 DEF RunIs
  <1>8. run'.failed = (Errs' # {})
    BY <1>1, <1>2 DEF Commanding
  <1> QED BY <1>2, <1>3, <1>4, <1>5, <1>7, <1>8

(* What CommandCalled asks when no command runs.                            *)
Refusing(meant) ==
    LET m == MethodOf(meant[1], meant[2])
        rest == Restof(meant[3]) IN
    /\ m.args # <<>>
    /\ \/ Last(m.args) = "manual"
       \/ \E i \in DOMAIN rest : ~newArgument(KindOf(m, i), rest[i])
       \/ Len(rest) # Len(m.args)
Unserved == Meant = {} \/ \E meant \in Meant : Refusing(meant)

(* ... and when one does.                                                   *)
RanRight ==
    /\ \E meant \in Meant :
           /\ meant[1] = run.sub /\ meant[2] = run.method
           /\ Len(Method.args) # 0 =>
                  run.argv = IF Last(Method.args) = "raw"
                             THEN Append(SubSeq(Restof(meant[3]), 1, Len(Method.args) - 1), Restof(meant[3]))
                             ELSE Restof(meant[3])
    /\ \A mw \in ToSet(Method.middlewares) :
           \E i \in DOMAIN run.called :
               run.called[i].what = "own" /\ run.called[i].id = mw.id /\ run.called[i].out = "ok"
    /\ run.type = "create" /\ "create" \notin late =>
           \A mw \in ToSet(subs[run.sub].globalmws) : isEvent(mw, "create") =>
               \E i \in CallsOf(run.sub) :
                   LET c == run.called[i] IN
                   \/ c.what = "mw" /\ c.id = mw.id /\ c.out = "ok"
                   \/ c.out = "break"

LEMMA NotRun ==
  ASSUME (Commanded = {})',
         (run.type = "create" /\ ~run.unclosed /\ Failed(DOMAIN run.called) = {} => Unserved)'
  PROVE  CommandCalled'
  BY DEF CommandCalled, Commanded, Unserved, Refusing, Restof

LEMMA NotRunEnds ==
  ASSUME BotInv, run.at # "idle", run.at # "done", Uncalled = {},
         subs' = subs, typeCache' = typeCache, late' = late,
         DOMAIN run' = DOMAIN run, run'.type = run.type, run'.todo = run.todo, run'.failed = run.failed,
         run'.at = "done", run'.words \in Seq(STRING), run'.own = run.own, run'.called = run.called,
         (run.type = "create" /\ ~run.unclosed /\ Failed(DOMAIN run.called) = {} => Unserved)'
  PROVE  BotInv'
  <1>1. run.own \in Seq(OwnRecords) /\ Commanded = {}
    BY DEF BotInv, RunIs, Commanding
  <1>2. /\ SubsRight' /\ RunIs' /\ CacheRight' /\ Calling' /\ run'.failed = (Errs' # {})
    BY <1>1, Going
  <1>3. (Commanded = {})'
    BY <1>1 DEF Commanded
  <1>4. CommandCalled'
    BY <1>3, NotRun
  <1> QED BY <1>2, <1>4 DEF BotInv, Commanding

LEMMA AfterNoMessage ==
  ASSUME BotInv, NoMessage
  PROVE  BotInv'
  <1>1. /\ SubsRight /\ RunIs /\ Commanding /\ run.at = "call" /\ Uncalled = {}
        /\ subs' = subs /\ typeCache' = typeCache /\ late' = late
    BY DEF BotInv, NoMessage
  <1>2. PICK result : run' = [run EXCEPT !.at = "done", !.result = result]
    BY DEF NoMessage, Ends
  <1>3. run.failed \/ run.type # "create"
    BY DEF NoMessage
  <1>4. "at" \in DOMAIN run
    BY <1>1 DEF RunIs, Idle
  <1>5. /\ DOMAIN run' = DOMAIN run /\ run'.at = "done" /\ run'.type = run.type /\ run'.todo = run.todo
        /\ run'.failed = run.failed /\ run'.words = run.words /\ run'.own = run.own
        /\ run'.called = run.called
    BY <1>2, <1>4
  <1>6. run.failed => Failed(DOMAIN run.called) # {}
    <2>1. Errs \subseteq Failed(DOMAIN run.called)
      BY DEF Errs, Failed
    <2> QED BY <1>1, <2>1 DEF Commanding
  <1>7. (run.type = "create" /\ ~run.unclosed /\ Failed(DOMAIN run.called) = {} => Unserved)'
    BY <1>3, <1>5, <1>6 DEF Failed
  <1>8. run.words \in Seq(STRING)
    BY <1>1 DEF RunIs
  <1> QED BY <1>1, <1>5, <1>7, <1>8, NotRunEnds

LEMMA AfterRefusing ==
  ASSUME BotInv, RefuseArguments \/ RefuseManual
  PROVE  BotInv'
  <1>1. /\ SubsRight /\ RunIs /\ Walking /\ run.at = "walk" /\ Uncalled = {}
        /\ subs' = subs /\ typeCache' = typeCache /\ late' = late
    BY DEF BotInv, RefuseArguments, RefuseManual, Walked, Commanding, RunIs
  <1>2. \E result, index : run' = [run EXCEPT !.at = "done", !.result = result, !.index = index]
    <2>1. CASE RefuseArguments
      BY <2>1 DEF RefuseArguments
    <2>2. CASE RefuseManual
      <3>1. PICK result : run' = [run EXCEPT !.at = "done", !.result = result]
        BY <2>2 DEF RefuseManual, Fails, Ends
      <3>2. run' = [run EXCEPT !.at = "done", !.result = result, !.index = run.index]
        BY <1>1, <3>1 DEF RunIs, Idle
      <3> QED BY <3>2
    <2> QED BY <2>1, <2>2
  <1>3. PICK result, index : run' = [run EXCEPT !.at = "done", !.result = result, !.index = index]
    BY <1>2
  <1>4. "at" \in DOMAIN run
    BY <1>1 DEF RunIs, Idle
  <1>5. /\ DOMAIN run' = DOMAIN run /\ run'.at = "done" /\ run'.type = run.type /\ run'.todo = run.todo
        /\ run'.failed = run.failed /\ run'.words = run.words /\ run'.own = run.own
        /\ run'.called = run.called /\ run'.unclosed = run.unclosed
    BY <1>3, <1>4
  <1>6. PICK n \in {1, 2} : <<run.sub, run.method, n>> \in Meant /\ run.parts = Restof(n)
    BY <1>1 DEF Walking
  <1>7. ~run.unclosed => Refusing(<<run.sub, run.method, n>>)
    <2> SUFFICES ASSUME ~run.unclosed
                 PROVE  Refusing(<<run.sub, run.method, n>>)
      OBVIOUS
    <2>1. PICK m : m = Method
      OBVIOUS
    <2>2. /\ m.args # <<>>
          /\ Last(m.args) = "manual" \/ BadCount(m) \/ BadParts(m) # {}
      BY <2>1 DEF RefuseArguments, RefuseManual, Refused, BadCount, BadParts
    <2>3. BadCount(m) => Len(run.parts) # Len(m.args)
      <3> SUFFICES ASSUME Len(run.parts) = Len(m.args), argdelta(m) # 0
                   PROVE  FALSE
        BY DEF BadCount
      <3>1. Len(run.parts) - Len(m.args) = 0
        <4>1. run.words \in Seq(STRING) /\ n \in Nat
          BY <1>1 DEF RunIs
        <4>2. PICK N : N = Len(run.words) /\ N \in Nat
          BY <4>1, LenProperties
        <4>3. Len(run.parts) \in Int
          BY <1>6, <4>1, <4>2, SubSeqProperties DEF Restof
        <4> QED BY <4>3
      <3> QED BY <3>1 DEF argdelta
    <2>4. BadParts(m) # {} => \E i \in DOMAIN run.parts : ~newArgument(KindOf(m, i), run.parts[i])
      BY DEF BadParts
    <2>5. m = MethodOf(run.sub, run.method)
      BY <2>1 DEF Method
    <2> QED BY <1>6, <2>2, <2>3, <2>4, <2>5 DEF Refusing
  <1>8. Meant' = Meant
    BY <1>1, <1>5, MeantIs, NextMeantIs DEF Walking
  <1>9. \A meant : Refusing(meant)' = Refusing(meant)
    <2>1. \A k, name : MethodOf(k, name)' = MethodOf(k, name)
      BY <1>1 DEF MethodOf
    <2>2. \A l : Restof(l)' = Restof(l)
      BY <1>5 DEF Restof
    <2> QED BY <2>1, <2>2 DEF Refusing
  <1>10. (~run.unclosed => Unserved)'
    <2> SUFFICES ASSUME ~run.unclosed
                 PROVE  Unserved'
      BY <1>5
    <2> QED BY <1>6, <1>7, <1>8, <1>9 DEF Unserved
  <1>11. run.words \in Seq(STRING)
    BY <1>1 DEF RunIs
  <1> QED BY <1>1, <1>5, <1>10, <1>11, NotRunEnds

LEMMA AfterFindCommand ==
  ASSUME BotInv, NEW words \in Contents, NEW unclosed \in BOOLEAN, FindCommand(words, unclosed)
  PROVE  BotInv'
  <1>1. /\ SubsRight /\ RunIs /\ Commanding /\ run.at = "call" /\ Uncalled = {} /\ Commanded = {}
        /\ subs' = subs /\ typeCache' = typeCache /\ late' = late
    BY DEF BotInv, FindCommand, Commanding
  <1>2. words \in Seq(STRING) /\ run.own \in Seq(OwnRecords)
    BY <1>1, BotAssumption DEF RunIs
  <1>3. \A f \in {"at", "words", "unclosed", "result", "sub", "method", "parts", "plumbed", "own"} : f \in DOMAIN run
    BY <1>1 DEF RunIs, Idle
  <1>4. CASE words = <<>> \/ findCommand(words) = {}
    <2>1. \/ run' = [run EXCEPT !.words = words, !.unclosed = unclosed, !.at = "done"]
          \/ \E result : run' = [run EXCEPT !.words = words, !.unclosed = unclosed, !.at = "done",
                                    !.result = result]
      BY <1>4 DEF FindCommand
    <2>2. /\ DOMAIN run' = DOMAIN run /\ run'.at = "done" /\ run'.type = run.type /\ run'.todo = run.todo
          /\ run'.failed = run.failed /\ run'.words = words /\ run'.own = run.own
          /\ run'.called = run.called
      <3>1. CASE run' = [run EXCEPT !.words = words, !.unclosed = unclosed, !.at = "done"]
        BY <1>3, <3>1
      <3>2. CASE \E result : run' = [run EXCEPT !.words = words, !.unclosed = unclosed, !.at = "done",
                                         !.result = result]
        <4>1. PICK result : run' = [run EXCEPT !.words = words, !.unclosed = unclosed, !.at = "done",
                                       !.result = result]
          BY <3>2
        <4> QED BY <1>3, <4>1
      <3> QED BY <2>1, <3>1, <3>2
    <2>3. Meant' = {}
      <3>1. CASE words = <<>>
        BY <2>2, <3>1, Zenon DEF Meant
      <3>2. CASE words # <<>>
        BY <1>1, <1>2, <1>4, <2>2, <3>2, CommandFound, NextMeantIs
      <3> QED BY <3>1, <3>2
    <2>4. Unserved'
      BY <2>3 DEF Unserved
    <2> QED BY <1>1, <1>2, <2>2, <2>4, NotRunEnds
  <1>5. CASE words # <<>> /\ findCommand(words) # {}
    <2>1. PICK f \in findCommand(words) :
             LET mws == MethodOf(f.sub, f.method).middlewares IN
             run' = [run EXCEPT !.words = words, !.unclosed = unclosed, !.at = "walk", !.sub = f.sub,
                           !.method = f.method, !.parts = f.parts, !.plumbed = f.plumbed,
                           !.own = [i \in DOMAIN mws |-> Call(f.sub, "own", [name |-> mws[i].id])]]
      BY <1>5 DEF FindCommand
    <2>2. PICK mws : mws = MethodOf(f.sub, f.method).middlewares
      OBVIOUS
    <2>3. PICK own : own = [i \in DOMAIN mws |-> Call(f.sub, "own", [name |-> mws[i].id])]
      OBVIOUS
    <2>4. run' = [run EXCEPT !.words = words, !.unclosed = unclosed, !.at = "walk", !.sub = f.sub,
                      !.method = f.method, !.parts = f.parts, !.plumbed = f.plumbed, !.own = own]
      BY <2>1, <2>2, <2>3
    <2>5. /\ DOMAIN run' = DOMAIN run /\ run'.at = "walk" /\ run'.type = run.type /\ run'.todo = run.todo
          /\ run'.failed = run.failed /\ run'.words = words /\ run'.called = run.called
          /\ run'.sub = f.sub /\ run'.method = f.method /\ run'.parts = f.parts /\ run'.plumbed = f.plumbed
          /\ run'.own = own
      <3>1. PICK sub, method, parts, plumbed :
               sub = f.sub /\ method = f.method /\ parts = f.parts /\ plumbed = f.plumbed
        OBVIOUS
      <3>2. run' = [run EXCEPT !.words = words, !.unclosed = unclosed, !.at = "walk", !.sub = sub,
                       !.method = method, !.parts = parts, !.plumbed = plumbed, !.own = own]
        BY <2>4, <3>1
      <3>3. /\ DOMAIN run' = DOMAIN run /\ run'.at = "walk" /\ run'.words = words
            /\ run'.sub = sub /\ run'.method = method /\ run'.parts = parts /\ run'.plumbed = plumbed
            /\ run'.own = own
        BY <1>3, <3>2
      <3>4. /\ run'.type = run.type /\ run'.todo = run.todo /\ run'.failed = run.failed
            /\ run'.called = run.called
        BY <1>3, <3>2
      <3> QED BY <3>1, <3>3, <3>4
    <2>6. /\ f.sub \in 1..Len(subs)
          /\ \E i \in 1..Len(subs[f.sub].Commands) : subs[f.sub].Commands[i].name = f.method
          /\ \E n \in {1, 2} :
                 /\ <<f.sub, f.method, n>> \in MeantBy(words) /\ f.parts = SubSeq(words, n + 1, Len(words))
                 /\ Trimmed(f.sub, MethodOf(f.sub, f.method), words, f.plumbed)
                        = SubSeq(words, n + 1, Len(words))
      BY <1>1, <1>2, <1>5, CommandFound
    <2>7. PICK m \in Methods : m = MethodOf(f.sub, f.method)
      <3>1. PICK i \in 1..Len(subs[f.sub].Commands) : subs[f.sub].Commands[i].name = f.method
        BY <2>6
      <3>2. MethodOf(f.sub, f.method) = subs[f.sub].Commands[i]
        BY <1>1, <2>6, <3>1, MethodIs
      <3>3. subs[f.sub].Commands \in Seq(Methods)
        <4>1. subs[f.sub] \in Subcommands
          BY <1>1, <2>6, SubsFacts
        <4> QED BY <4>1 DEF Subcommands
      <3> QED BY <3>2, <3>3
    <2>8. Method' = m
      BY <1>1, <2>5, <2>7 DEF Method, MethodOf
    <2>9. mws \in Seq(Middlewares) /\ mws = m.middlewares
      BY <2>7, <2>2 DEF Methods
    <2>10. PICK M \in Nat : M = Len(mws) /\ DOMAIN mws = 1..M
      BY <2>9, LenProperties
    <2>11. \A i \in 1..M : /\ run'.own[i] = [sub |-> f.sub, what |-> "own", id |-> mws[i].id]
                          /\ run'.own[i].id = mws[i].id
      BY <2>5, <2>10, <2>3 DEF Call
    <2>12. f.sub \in Nat
      BY <1>1, <2>6, SubsFacts
    <2>13. run'.own \in Seq(OwnRecords) /\ DOMAIN run'.own = 1..M
      <3>1. ASSUME NEW i \in 1..M
            PROVE  run'.own[i] \in OwnRecords
        <4>1. mws[i] \in Middlewares
          BY <2>9, <2>10
        <4>2. mws[i].id \in IDs
          BY <4>1 DEF IDs
        <4>3. run'.own[i] = [sub |-> f.sub, what |-> "own", id |-> mws[i].id]
          BY <2>11
        <4> QED BY <2>12, <4>2, <4>3 DEF OwnRecords
      <3>2. run'.own = [i \in 1..M |-> run'.own[i]]
        BY <2>5, <2>10, <2>3
      <3> QED BY <3>1, <3>2, IsASeq
    <2>14. /\ SubsRight' /\ RunIs' /\ CacheRight' /\ Calling' /\ run'.failed = (Errs' # {})
      BY <1>1, <1>2, <2>5, <2>13, Going
    <2>15. (run'.at # "done" => Commanded' = {}) /\ CommandCalled'
      BY <1>1, <2>5 DEF Commanded, CommandCalled
    <2>16. ~run'.failed
      BY <2>5 DEF FindCommand
    <2>17. Walking'
      <3>1. run'.sub \in 1..Len(subs') /\ run'.words # <<>>
        BY <1>1, <1>5, <2>5, <2>6
      <3>2. \E i \in 1..Len(subs'[run'.sub].Commands) : subs'[run'.sub].Commands[i].name = run'.method
        BY <1>1, <2>5, <2>6
      <3>3. \E n \in {1, 2} : /\ <<run'.sub, run'.method, n>> \in Meant'
                              /\ run'.parts = Restof(n)' /\ RawContent(Method)' = Restof(n)'
        <4>1. Meant' = MeantBy(words)
          BY <1>1, <1>5, <2>5, NextMeantIs
        <4>2. \A n : Restof(n)' = SubSeq(words, n + 1, Len(words))
          BY <2>5 DEF Restof
        <4>3. RawContent(Method)' = Trimmed(f.sub, m, words, f.plumbed)
          <5>1. RawContent(Method)' =
                   LET content == trimPrefix(words, NamesOf(subs[f.sub])) IN
                   IF f.plumbed THEN content ELSE trimPrefix(content, ToSet(m.names))
            BY <1>1, <2>5, <2>8 DEF RawContent, NamesOf
          <5> QED BY <5>1 DEF Trimmed
        <4> QED BY <2>5, <2>6, <2>7, <4>1, <4>2, <4>3
      <3>4. \A mw \in ToSet(m.middlewares) : \E j \in DOMAIN run'.own : run'.own[j].id = mw.id
        <4> TAKE mw \in ToSet(m.middlewares)
        <4>1. PICK i \in 1..M : mws[i] = mw
          BY <2>9, <2>10, Places
        <4> QED BY <2>11, <2>13, <4>1
      <3> QED BY <2>8, <3>1, <3>2, <3>3, <3>4 DEF Walking
    <2> QED BY <2>5, <2>14, <2>15, <2>16, <2>17 DEF BotInv, Commanding
  <1> QED BY <1>4, <1>5

(* The command that walks is still the one meant.                           *)
LEMMA SameMeant ==
  ASSUME run.words # <<>>, subs' = subs, run'.words = run.words, run'.sub = run.sub,
         run'.method = run.method, run'.plumbed = run.plumbed
  PROVE  /\ Meant' = Meant /\ Method' = Method /\ RawContent(Method)' = RawContent(Method)
         /\ \A n : Restof(n)' = Restof(n)
  <1>1. Meant' = Meant
    BY MeantIs, NextMeantIs
  <1>2. Method' = Method
    BY DEF Method, MethodOf
  <1>3. PICK m : m = Method /\ m = Method'
    BY <1>2
  <1>4. NamesOf(subs[run.sub])' = NamesOf(subs[run.sub])
    BY DEF NamesOf
  <1>5. RawContent(Method)' = RawContent(Method)
    BY <1>3, <1>4 DEF RawContent
  <1>6. \A n : Restof(n)' = Restof(n)
    BY DEF Restof
  <1> QED BY <1>1, <1>2, <1>5, <1>6

LEMMA AfterWalk ==
  ASSUME BotInv, walkMiddlewares
  PROVE  BotInv'
  <1>1. /\ SubsRight /\ RunIs /\ Commanding /\ Walking /\ run.at = "walk" /\ Uncalled = {}
        /\ Commanded = {} /\ ~run.failed /\ run.own # <<>>
        /\ subs' = subs /\ typeCache' = typeCache /\ late' = late
    BY DEF BotInv, walkMiddlewares, Commanding, RunIs
  <1>2. run.own \in Seq(OwnRecords) /\ run.words \in Seq(STRING)
    BY <1>1 DEF RunIs
  <1>3. Head(run.own) \in OwnRecords /\ Tail(run.own) \in Seq(OwnRecords)
    BY <1>1, <1>2, HeadTailProperties
  <1>4. PICK out \in Outcomes :
           run' = CASE out = "ok" -> [run EXCEPT !.called = Append(run.called, Out(Head(run.own), out)),
                                         !.own = Tail(@)]
                    [] out = "break" -> [run EXCEPT !.called = Append(run.called, Out(Head(run.own), out)),
                                            !.at = "done", !.result = ""]
                    [] out = "err" -> [run EXCEPT !.called = Append(run.called, Out(Head(run.own), out)),
                                          !.at = "done", !.result = IF ReplyError THEN "replied" ELSE "logged"]
    BY DEF walkMiddlewares
  <1>5. PICK h \in OwnRecords : h = Head(run.own)
    BY <1>3
  <1>6. PICK c \in Called : /\ c = Out(h, out) /\ c.what = "own" /\ c.id = h.id /\ c.out = out
    BY OutIs DEF OwnRecords
  <1>7. PICK called : called = Append(run.called, c)
    OBVIOUS
  <1>8. \A f \in {"at", "called", "result", "own"} : f \in DOMAIN run
    BY <1>1 DEF RunIs, Idle
  <1>9. CASE out = "ok"
    <2>1. PICK own \in Seq(OwnRecords) : own = Tail(run.own)
      BY <1>3
    <2>2. run' = [run EXCEPT !.called = called, !.own = own]
      BY <1>4, <1>5, <1>6, <1>7, <1>9, <2>1
    <2>3. /\ DOMAIN run' = DOMAIN run /\ run'.at = "walk" /\ run'.type = run.type /\ run'.todo = run.todo
          /\ run'.failed = run.failed /\ run'.words = run.words /\ run'.own = own /\ run'.called = called
          /\ run'.sub = run.sub /\ run'.method = run.method /\ run'.parts = run.parts
          /\ run'.plumbed = run.plumbed
      BY <1>1, <1>8, <2>2
    <2>4. /\ SubsRight' /\ RunIs' /\ CacheRight' /\ Calling' /\ run'.failed = (Errs' # {})
          /\ \A i \in DOMAIN run.called : i \in DOMAIN run'.called /\ run'.called[i] = run.called[i]
      BY <1>1, <1>2, <1>6, <1>7, <2>3, Going
    <2>5. PICK L \in Nat : /\ DOMAIN run'.called = 1..(L + 1) /\ run'.called[L + 1] = c
                           /\ Commanded' = Commanded \cup {i \in {L + 1} : c.what = "command"}
      BY <1>1, <1>7, <2>3, OneMoreCall
    <2>6. Commanded' = {}
      BY <1>1, <1>6, <2>5
    <2>7. CommandCalled'
      BY <2>3 DEF CommandCalled
    <2>8. /\ Meant' = Meant /\ Method' = Method /\ RawContent(Method)' = RawContent(Method)
          /\ \A n : Restof(n)' = Restof(n)
      BY <1>1, <2>3, SameMeant DEF Walking
    <2>9. ASSUME NEW mw \in ToSet(Method.middlewares)
          PROVE  \/ \E i \in DOMAIN run'.called : /\ run'.called[i].what = "own" /\ run'.called[i].id = mw.id
                                                  /\ run'.called[i].out = "ok"
                 \/ \E j \in DOMAIN run'.own : run'.own[j].id = mw.id
      <3>1. CASE \E i \in DOMAIN run.called : /\ run.called[i].what = "own" /\ run.called[i].id = mw.id
                                              /\ run.called[i].out = "ok"
        BY <2>4, <3>1
      <3>2. CASE \E j \in DOMAIN run.own : run.own[j].id = mw.id
        <4>1. PICK N \in Nat : N = Len(run.own) /\ DOMAIN run.own = 1..N /\ N >= 1
          BY <1>1, <1>2, LenProperties, EmptySeq
        <4>2. PICK j \in 1..N : run.own[j].id = mw.id
          BY <3>2, <4>1
        <4>3. CASE j = 1
          <5>1. run'.called[L + 1].id = mw.id /\ L + 1 \in DOMAIN run'.called
            BY <1>5, <1>6, <2>5, <4>2, <4>3
          <5> QED BY <1>6, <1>9, <2>5, <5>1
        <4>4. CASE j # 1
          <5>1. DOMAIN own = 1..(N - 1) /\ \A i \in 1..(N - 1) : own[i] = run.own[i + 1]
            BY <1>1, <1>2, <2>1, <4>1, HeadTailProperties, LenProperties
          <5>2. j - 1 \in 1..(N - 1) /\ (j - 1) + 1 = j
            BY <4>1, <4>4
          <5> QED BY <2>3, <4>2, <5>1, <5>2
        <4> QED BY <4>3, <4>4
      <3> QED BY <1>1, <3>1, <3>2 DEF Walking
    <2>10. Walking'
      <3>1. run'.sub \in 1..Len(subs') /\ run'.words # <<>>
        BY <1>1, <2>3 DEF Walking
      <3>2. \E i \in 1..Len(subs'[run'.sub].Commands) : subs'[run'.sub].Commands[i].name = run'.method
        BY <1>1, <2>3 DEF Walking
      <3>3. \E n \in {1, 2} : /\ <<run'.sub, run'.method, n>> \in Meant'
                              /\ run'.parts = Restof(n)' /\ RawContent(Method)' = Restof(n)'
        BY <1>1, <2>3, <2>8 DEF Walking
      <3> QED BY <2>8, <2>9, <3>1, <3>2, <3>3 DEF Walking
    <2> QED BY <1>1, <2>3, <2>4, <2>6, <2>7, <2>10 DEF BotInv, Commanding
  <1>10. CASE out # "ok"
    <2>1. \E result : run' = [run EXCEPT !.called = called, !.at = "done", !.result = result]
      <3>1. CASE out = "break"
        BY <1>4, <1>5, <1>6, <1>7, <3>1
      <3>2. CASE out = "err"
        BY <1>4, <1>5, <1>6, <1>7, <3>2
      <3> QED BY <1>10, <3>1, <3>2 DEF Outcomes
    <2>2. PICK result : run' = [run EXCEPT !.called = called, !.at = "done", !.result = result]
      BY <2>1
    <2>3. /\ DOMAIN run' = DOMAIN run /\ run'.at = "done" /\ run'.type = run.type /\ run'.todo = run.todo
          /\ run'.failed = run.failed /\ run'.words = run.words /\ run'.own = run.own /\ run'.called = called
      BY <1>8, <2>2
    <2>4. /\ SubsRight' /\ RunIs' /\ CacheRight' /\ Calling' /\ run'.failed = (Errs' # {})
      BY <1>1, <1>2, <1>6, <1>7, <2>3, Going
    <2>5. PICK L \in Nat : /\ DOMAIN run'.called = 1..(L + 1) /\ run'.called[L + 1] = c
                           /\ Commanded' = Commanded \cup {i \in {L + 1} : c.what = "command"}
      BY <1>1, <1>7, <2>3, OneMoreCall
    <2>6. (Commanded = {})'
      BY <1>1, <1>6, <2>5
    <2>7. L + 1 \in Failed(DOMAIN run.called)'
      BY <1>6, <1>10, <2>5 DEF Failed
    <2>8. CommandCalled'
      BY <2>6, <2>7, NotRun
    <2> QED BY <2>3, <2>4, <2>8 DEF BotInv, Commanding
  <1> QED BY <1>9, <1>10

(* The middlewares for all of the Subcommand whose command runs.            *)
LEMMA GlobalsCalled ==
  ASSUME BotInv, run.at # "idle", Uncalled = {}, ~run.failed, NEW k \in 1..Len(subs),
         run.type = "create", "create" \notin late,
         NEW mw \in ToSet(subs[k].globalmws), isEvent(mw, "create")
  PROVE  \E i \in CallsOf(k) :
             LET c == run.called[i] IN
             \/ c.what = "mw" /\ c.id = mw.id /\ c.out = "ok"
             \/ c.out = "break"
  <1>1. SubsRight /\ RunIs /\ Calling /\ Errs = {}
    BY DEF BotInv, Commanding
  <1>2. Len(run.todo) = Len(subs) /\ Through(k)
    BY <1>1 DEF Calling
  <1>3. run.todo[k] = <<>>
    <2>1. run.todo \in Seq(Seq(CallRecords))
      BY <1>1 DEF RunIs
    <2>2. DOMAIN run.todo = 1..Len(subs)
      BY <1>2, <2>1, LenProperties
    <2> QED BY <2>2 DEF Uncalled
  <1>4. PICK t, w : t = run.type /\ w = eventCallers(k, t) /\ AllCallers(w, k, t)
    BY <1>1, CallersRight
  <1>5. PICK W \in Nat : W = Len(w) /\ w \in Seq(CallRecords)
    BY <1>4, LenProperties DEF AllCallers
  <1>6. \A i \in CallsOf(k) : /\ run.called[i].what \in {"mw", "method"} /\ run.called[i].out # "err"
                              /\ run.called[i].out \in {"ok", "break", "err"}
    <2>1. run.called \in Seq(Called)
      BY <1>1 DEF RunIs
    <2>2. \A i \in DOMAIN run.called : run.called[i] \in Called
      BY <2>1
    <2> QED BY <1>1, <2>2 DEF CallsOf, Errs, Called, Outcomes
  <1>7. PICK n \in 0..W :
           /\ \A x \in 1..n : \E i \in CallsOf(k) :
                  run.called[i].what = w[x].what /\ run.called[i].id = w[x].id
           /\ Failed(CallsOf(k)) = {} => run.todo[k] = SubSeq(w, n + 1, Len(w))
    <2>1. Reached(k, w)
      BY <1>2, <1>4 DEF Through
    <2> QED BY <1>5, <2>1 DEF Reached
  <1>8. CASE Failed(CallsOf(k)) = {}
    <2>1. n = W
      BY <1>3, <1>5, <1>7, <1>8, Suffix
    <2>2. PICK x \in 1..W : w[x].what = "mw" /\ w[x].id = mw.id
      <3>1. mw \in Global(k, t)
        BY <1>4 DEF Global
      <3>2. \A v \in Global(k, t) : \E i \in 1..Len(w) : w[i].what = "mw" /\ w[i].id = v.id
        BY <1>4 DEF AllCallers
      <3> QED BY <1>5, <3>1, <3>2
    <2>3. PICK i \in CallsOf(k) : run.called[i].what = "mw" /\ run.called[i].id = mw.id
      BY <1>7, <2>1, <2>2
    <2>4. run.called[i].out = "ok"
      BY <1>8, <2>3 DEF Failed
    <2> QED BY <2>3, <2>4
  <1>9. CASE Failed(CallsOf(k)) # {}
    <2>1. PICK i \in CallsOf(k) : run.called[i].out # "ok"
      BY <1>9 DEF Failed
    <2>2. run.called[i].out = "break"
      BY <1>6, <2>1
    <2> QED BY <2>2
  <1> QED BY <1>8, <1>9

LEMMA AfterRunCommand ==
  ASSUME BotInv, RunCommand
  PROVE  BotInv'
  <1>1. /\ SubsRight /\ RunIs /\ Commanding /\ Walking /\ run.at = "walk" /\ Uncalled = {}
        /\ Commanded = {} /\ ~run.failed /\ run.own = <<>>
        /\ subs' = subs /\ typeCache' = typeCache /\ late' = late
    BY DEF BotInv, RunCommand, Walked, Commanding, RunIs
  <1>2. PICK c : c = [sub |-> run.sub, what |-> "command", id |-> run.method, out |-> "ok"]
    OBVIOUS
  <1>3. c \in Called /\ c.what = "command"
    <2>1. run.sub \in Nat
      BY <1>1, SubsFacts DEF Walking
    <2>2. run.method \in STRING
      <3>1. PICK i \in 1..Len(subs[run.sub].Commands) : subs[run.sub].Commands[i].name = run.method
        BY <1>1 DEF Walking
      <3>2. subs[run.sub] \in Subcommands
        BY <1>1, SubsFacts DEF Walking
      <3>3. subs[run.sub].Commands \in Seq(Methods)
        BY <3>2 DEF Subcommands
      <3>4. subs[run.sub].Commands[i] \in Methods
        BY <3>3
      <3> QED BY <3>1, <3>4 DEF Methods
    <2> QED BY <1>2, <2>1, <2>2 DEF Called, IDs, Outcomes
  <1>4. PICK argv, called, result :
           /\ argv = Taken(Method) /\ called = Append(run.called, c)
           /\ run' = [run EXCEPT !.at = "done", !.result = result, !.argv = argv, !.called = called]
    BY <1>2 DEF RunCommand
  <1>5. \A f \in {"at", "called", "result", "argv"} : f \in DOMAIN run
    BY <1>1 DEF RunIs, Idle
  <1>6. /\ DOMAIN run' = DOMAIN run /\ run'.at = "done" /\ run'.type = run.type /\ run'.todo = run.todo
        /\ run'.failed = run.failed /\ run'.words = run.words /\ run'.own = run.own /\ run'.called = called
        /\ run'.sub = run.sub /\ run'.method = run.method /\ run'.parts = run.parts
        /\ run'.plumbed = run.plumbed /\ run'.argv = argv
    BY <1>4, <1>5
  <1>7. run.own \in Seq(OwnRecords) /\ run.words \in Seq(STRING)
    BY <1>1 DEF RunIs
  <1>8. /\ SubsRight' /\ RunIs' /\ CacheRight' /\ Calling' /\ run'.failed = (Errs' # {})
        /\ \A k : CallsOf(k)' = CallsOf(k)
        /\ \A i \in DOMAIN run.called : i \in DOMAIN run'.called /\ run'.called[i] = run.called[i]
    BY <1>1, <1>3, <1>4, <1>6, <1>7, Going
  <1>9. PICK L \in Nat : Commanded' = {L + 1}
    <2>1. PICK L \in Nat : Commanded' = Commanded \cup {i \in {L + 1} : c.what = "command"}
      BY <1>1, <1>3, <1>4, <1>6, OneMoreCall
    <2> QED BY <1>1, <1>3, <2>1
  <1>10. /\ Meant' = Meant /\ Method' = Method /\ RawContent(Method)' = RawContent(Method)
         /\ \A n : Restof(n)' = Restof(n)
    BY <1>1, <1>6, SameMeant DEF Walking
  <1>11. PICK m : m = Method
    OBVIOUS
  <1>12. \E meant \in Meant' :
            /\ meant[1] = run.sub /\ meant[2] = run.method
            /\ Len(m.args) # 0 =>
                   argv = IF Last(m.args) = "raw"
                          THEN Append(SubSeq(Restof(meant[3]), 1, Len(m.args) - 1), Restof(meant[3]))
                          ELSE Restof(meant[3])
    <2>1. PICK n \in {1, 2} : /\ <<run.sub, run.method, n>> \in Meant
                              /\ run.parts = Restof(n) /\ RawContent(m) = Restof(n)
      BY <1>1, <1>11 DEF Walking
    <2>2. Len(m.args) # 0 => m.args # <<>>
      OBVIOUS
    <2>3. Len(m.args) # 0 => argv = IF Last(m.args) = "raw"
                                    THEN Append(SubSeq(Restof(n), 1, Len(m.args) - 1), Restof(n))
                                    ELSE Restof(n)
      BY <1>4, <1>11, <2>1, <2>2 DEF Taken
    <2> QED BY <1>10, <2>1, <2>3
  <1>13. \A mw \in ToSet(m.middlewares) : \E i \in DOMAIN run'.called :
             run'.called[i].what = "own" /\ run'.called[i].id = mw.id /\ run'.called[i].out = "ok"
    <2> TAKE mw \in ToSet(m.middlewares)
    <2>1. PICK i \in DOMAIN run.called :
             run.called[i].what = "own" /\ run.called[i].id = mw.id /\ run.called[i].out = "ok"
      BY <1>1, <1>11 DEF Walking
    <2> QED BY <1>8, <2>1
  <1>14. run'.type = "create" /\ "create" \notin late' =>
            \A mw \in ToSet(subs'[run'.sub].globalmws) : isEvent(mw, "create") =>
                \E i \in CallsOf(run.sub)' :
                    LET d == run'.called[i] IN
                    \/ d.what = "mw" /\ d.id = mw.id /\ d.out = "ok"
                    \/ d.out = "break"
    <2> SUFFICES ASSUME run.type = "create", "create" \notin late,
                        NEW mw \in ToSet(subs[run.sub].globalmws), isEvent(mw, "create")
                 PROVE  \E i \in CallsOf(run.sub)' :
                            LET d == run'.called[i] IN
                            \/ d.what = "mw" /\ d.id = mw.id /\ d.out = "ok"
                            \/ d.out = "break"
      BY <1>1, <1>6
    <2>1. PICK k \in 1..Len(subs) : k = run.sub
      BY <1>1 DEF Walking
    <2>2. PICK i \in CallsOf(k) :
             LET d == run.called[i] IN
             \/ d.what = "mw" /\ d.id = mw.id /\ d.out = "ok"
             \/ d.out = "break"
      BY <1>1, <2>1, GlobalsCalled
    <2>3. i \in DOMAIN run.called /\ run'.called[i] = run.called[i]
      BY <1>8, <2>2 DEF CallsOf
    <2>4. CallsOf(run.sub)' = CallsOf(k)'
      BY <1>6, <2>1 DEF CallsOf
    <2>5. CallsOf(k)' = CallsOf(k)
      BY <1>8
    <2>6. i \in CallsOf(run.sub)'
      BY <2>4, <2>5
    <2> QED BY <2>2, <2>3, <2>6
  <1>15. CommandCalled'
    <2>1. m = Method'
      BY <1>10, <1>11
    <2>2. \A i, j \in Commanded' : i = j
      BY <1>9
    <2>3. \E meant \in Meant' :
             /\ meant[1] = run'.sub /\ meant[2] = run'.method
             /\ Len(Method'.args) # 0 =>
                    run'.argv = IF Last(Method'.args) = "raw"
                                THEN Append(SubSeq(Restof(meant[3])', 1, Len(Method'.args) - 1), Restof(meant[3])')
                                ELSE Restof(meant[3])'
      BY <1>6, <1>10, <1>12, <2>1
    <2>4. Commanded' # {}
      BY <1>9
    <2> QED BY <1>6, <1>13, <1>14, <2>1, <2>2, <2>3, <2>4 DEF CommandCalled, Commanded, Restof
  <1> QED BY <1>6, <1>8, <1>15 DEF BotInv, Commanding

LEMMA BotStep ==
  ASSUME BotInv, [BotNext]_botVars
  PROVE  BotInv'
  <1>1. SubsRight /\ DOMAIN subs = 1..Len(subs)
    <2>1. SubsRight /\ subs \in Seq(Subcommands)
      BY DEF BotInv, SubsRight
    <2> QED BY <2>1, LenProperties
  <1>2. CASE UNCHANGED botVars
    <2>1. subs' = subs /\ typeCache' = typeCache /\ run' = run /\ late' = late
      BY <1>2 DEF botVars
    <2>2. SubsRight /\ RunIs /\ CacheRight /\ Calling /\ Commanding
      BY DEF BotInv
    <2>3. SubsRight'
      BY <2>1, <2>2 DEF SubsRight
    <2>4. RunIs'
      BY <2>1, <2>2 DEF RunIs, Uncalled
    <2>5. CacheRight'
      BY <2>1, <2>2, SameCache
    <2>6. /\ \A k : CallsOf(k)' = CallsOf(k) /\ Failed(CallsOf(k))' = Failed(CallsOf(k))
          /\ Failed(DOMAIN run.called)' = Failed(DOMAIN run.called) /\ Errs' = Errs
          /\ Commanded' = Commanded
      BY <2>1 DEF CallsOf, Failed, Errs, Commanded
    <2>7. Calling'
      <3>1. CASE run.at # "idle"
        BY <2>1, <2>2, <2>6, <3>1, KeptCalling
      <3>2. CASE run.at = "idle"
        BY <2>1, <3>2 DEF Calling
      <3> QED BY <3>1, <3>2
    <2>8. Meant' = Meant
      <3>1. CASE run.words # <<>>
        BY <2>1, <3>1, MeantIs, NextMeantIs
      <3>2. CASE run.words = <<>>
        <4>1. Meant = {}
          BY <3>2, Zenon DEF Meant
        <4>2. run'.words = <<>>
          BY <2>1, <3>2
        <4>3. Meant' = {}
          BY <4>2, Zenon DEF Meant
        <4> QED BY <4>1, <4>3
      <3> QED BY <3>1, <3>2
    <2>9. /\ Method' = Method /\ \A m : RawContent(m)' = RawContent(m)
          /\ \A k, name : MethodOf(k, name)' = MethodOf(k, name)
          /\ \A n : Restof(n)' = Restof(n)
      <3>1. \A k, name : MethodOf(k, name)' = MethodOf(k, name)
        BY <2>1 DEF MethodOf
      <3>2. Method' = Method
        BY <2>1 DEF Method, MethodOf
      <3>3. \A m : RawContent(m)' = RawContent(m)
        BY <2>1 DEF RawContent, NamesOf
      <3>4. \A n : Restof(n)' = Restof(n)
        BY <2>1 DEF Restof
      <3> QED BY <3>1, <3>2, <3>3, <3>4
    <2>10. Walking => Walking'
      BY <2>1, <2>8, <2>9 DEF Walking
    <2>11. CommandCalled'
      <3>1. CommandCalled
        BY <2>2 DEF Commanding
      <3>2. run.at = "done" => /\ \A i, j \in Commanded : i = j
                               /\ Commanded # {} => RanRight
                               /\ /\ Commanded = {} /\ run.type = "create" /\ ~run.unclosed
                                  /\ Failed(DOMAIN run.called) = {}
                                  => Unserved
        BY <3>1 DEF CommandCalled, Commanded, RanRight, Unserved, Refusing, Restof
      <3>3. Unserved => Unserved'
        BY <2>8, <2>9 DEF Unserved, Refusing
      <3>4. RanRight => RanRight'
        BY <2>1, <2>6, <2>8, <2>9 DEF RanRight
      <3>5. run'.at = "done" => /\ \A i, j \in Commanded' : i = j
                                /\ Commanded' # {} => RanRight'
                                /\ /\ Commanded' = {} /\ run'.type = "create" /\ ~run'.unclosed
                                   /\ Failed(DOMAIN run.called)' = {}
                                   => Unserved'
        BY <2>1, <2>6, <3>2, <3>3, <3>4
      <3> QED BY <3>5 DEF CommandCalled, Commanded, RanRight, Unserved, Refusing, Restof
    <2>12. Commanding'
      BY <2>1, <2>2, <2>6, <2>10, <2>11 DEF Commanding
    <2> QED BY <2>3, <2>4, <2>5, <2>7, <2>12 DEF BotInv
  <1>3. ASSUME NEW st \in DOMAIN Structs \ {Main}, NEW name \in CommandNames, RegisterSubcommand(st, name)
        PROVE  BotInv'
    BY <1>1, <1>3, RegisteredSub, AfterRegistering DEF RegisterSubcommand
  <1>4. ASSUME NEW k \in 1..Len(subs), NEW mw \in Middlewares, AddGlobal(k, mw)
        PROVE  BotInv'
    BY <1>1, <1>4, AddedGlobal, AfterRegistering DEF AddGlobal
  <1>5. ASSUME NEW k \in 1..Len(subs), NEW mw \in Middlewares, NEW name, AddMiddleware(k, name, mw)
        PROVE  BotInv'
    BY <1>1, <1>5, AddedMiddleware, AfterRegistering DEF AddMiddleware
  <1>6. ASSUME NEW k \in 1..Len(subs), NEW name, SetPlumb(k, name)
        PROVE  BotInv'
    BY <1>1, <1>6, PlumbSet, AfterRegistering DEF SetPlumb
  <1>7. ASSUME NEW k \in 1..Len(subs), NEW name, NEW alias \in CommandNames, AddAliases(k, name, alias)
        PROVE  BotInv'
    BY <1>1, <1>7, AliasesAdded, AfterRegistering DEF AddAliases
  <1>8. ASSUME NEW k \in 1..Len(subs), HideSubcommand(k)
        PROVE  BotInv'
    BY <1>1, <1>8, SubHidden, AfterRegistering DEF HideSubcommand
  <1>9. ASSUME NEW t \in EventTypes, callCmd(t)
        PROVE  BotInv'
    BY <1>9, AfterCallCmd
  <1>10. ASSUME NEW words \in Contents, NEW unclosed \in BOOLEAN, FindCommand(words, unclosed)
         PROVE  BotInv'
    BY <1>10, AfterFindCommand
  <1>11. CASE CallNext
    BY <1>11, AfterCallNext
  <1>12. CASE NoMessage
    BY <1>12, AfterNoMessage
  <1>13. CASE walkMiddlewares
    BY <1>13, AfterWalk
  <1>14. CASE RefuseArguments \/ RefuseManual
    BY <1>14, AfterRefusing
  <1>15. CASE RunCommand
    BY <1>15, AfterRunCommand
  <1>16. CASE FinishEvent
    BY <1>16, AfterFinish
  <1> QED BY <1>1, <1>2, <1>3, <1>4, <1>5, <1>6, <1>7, <1>8, <1>9, <1>10, <1>11, <1>12, <1>13, <1>14, <1>15, <1>16
         DEF BotNext

LEMMA AllEachCalled ==
  ASSUME BotInv
  PROVE  EachCalled
  <1> SUFFICES ASSUME run.at \in {"walk", "done"}, run.type \notin late, NEW k \in 1..Len(subs)
               PROVE  /\ \A m \in Handlers(k) :
                             LET mine == {i \in CallsOf(k) :
                                             run.called[i].what = "method" /\ run.called[i].id = m.name} IN
                             /\ \A i, j \in mine : i = j
                             /\ Failed(CallsOf(k)) = {} => mine # {}
                             /\ \A i \in mine, x \in Guards(k, m) :
                                    \E j \in CallsOf(k) :
                                        j < i /\ run.called[j].what = "mw" /\ run.called[j].id = x
                      /\ \A i \in Failed(CallsOf(k)), j \in CallsOf(k) : j <= i
    <2>1. DOMAIN subs = 1..Len(subs)
      <3>1. subs \in Seq(Subcommands)
        BY DEF BotInv, SubsRight
      <3> QED BY <3>1, LenProperties
    <2> QED BY <2>1 DEF EachCalled
  <1>1. /\ SubsRight /\ RunIs /\ Uncalled = {} /\ run.todo \in Seq(Seq(CallRecords))
        /\ Len(run.todo) = Len(subs) /\ Through(k) /\ Ordered(k)
    BY DEF BotInv, RunIs, Calling
  <1>2. run.todo[k] = <<>>
    <2>1. DOMAIN run.todo = 1..Len(subs)
      BY <1>1, LenProperties
    <2> QED BY <1>1, <2>1 DEF Uncalled
  <1>3. PICK t, w : t = run.type /\ w = eventCallers(k, t) /\ AllCallers(w, k, t)
    BY <1>1, CallersRight
  <1>4. PICK W \in Nat : W = Len(w) /\ w \in Seq(CallRecords)
    BY <1>3, LenProperties DEF AllCallers
  <1>5. ASSUME NEW m \in Handlers(k), Failed(CallsOf(k)) = {}
        PROVE  \E i \in CallsOf(k) : run.called[i].what = "method" /\ run.called[i].id = m.name
    <2>1. PICK n \in 0..W :
             /\ \A x \in 1..n : \E i \in CallsOf(k) :
                    run.called[i].what = w[x].what /\ run.called[i].id = w[x].id
             /\ run.todo[k] = SubSeq(w, n + 1, Len(w))
      <3>1. Reached(k, w)
        BY <1>1, <1>3 DEF Through
      <3> QED BY <1>4, <1>5, <3>1 DEF Reached
    <2>2. n = W
      BY <1>2, <1>4, <2>1, Suffix
    <2>3. PICK x \in 1..W : w[x].what = "method" /\ w[x].id = m.name
      <3>1. m \in ToSet(subs[k].Events) /\ isEvent(m, t)
        BY <1>3, <1>5 DEF Handlers
      <3>2. \A l \in ToSet(subs[k].Events) :
               isEvent(l, t) => \E i \in 1..Len(w) : w[i].what = "method" /\ w[i].id = l.name
        BY <1>3 DEF AllCallers
      <3> QED BY <1>4, <3>1, <3>2
    <2> QED BY <2>1, <2>2, <2>3
  <1> QED BY <1>1, <1>5 DEF Ordered

(* Each Subcommand has its handlers of an event called once, after the      *)
(* middlewares that guard them, up to its first failure (callCmd,           *)
(* eventCallers).                                                           *)
THEOREM HandlersCalled == BotSpec => []EachCalled
  <1>1. BotInit => BotInv
    BY BotStarts
  <1>2. BotInv /\ [BotNext]_botVars => BotInv'
    BY BotStep
  <1>3. BotInv => EachCalled
    BY AllEachCalled
  <1> QED BY <1>1, <1>2, <1>3, PTL DEF BotSpec

(* A message runs one command at most, and one it means, behind its         *)
(* middlewares and with the words after its name, and one that fails in     *)
(* nothing runs what it means unless the arguments do not fit               *)
(* (callMessageCreateNoReply, findCommand).                                 *)
THEOREM CommandsCalled == BotSpec => []CommandCalled
  <1>1. BotInit => BotInv
    BY BotStarts
  <1>2. BotInv /\ [BotNext]_botVars => BotInv'
    BY BotStep
  <1>3. BotInv => CommandCalled
    BY DEF BotInv, Commanding
  <1> QED BY <1>1, <1>2, <1>3, PTL DEF BotSpec

-----------------------------------------------------------------------------
(* CommandRouter.  A tree of scopes, which the registrations so far went    *)
(* through: scope 1 is the root's, and every other lies within an earlier   *)
(* one.  t.of tells which scope a place in memory belongs to.               *)

ScopeKinds == {"root", "sub", "group"}
CommandNodes == [kind : {"command"}, handler : Nat, autocomplete : Nat]
SubNodes == [kind : {"sub"}, router : Nat]
ComponentNodes == [kind : {"component"}, handler : Nat]
NodeTypes == CommandNodes \cup SubNodes \cup ComponentNodes
NodeMaps == UNION {[D -> NodeTypes] : D \in SUBSET Names}
Routers == [nodes : Nat, mws : Seq(Nat), parent : Nat, groups : Seq(Nat), cap : Nat]
Opened == [at : Nat, kind : ScopeKinds, path : Seq(Names), scope : Nat]
Routes == [kind : Kinds, path : Seq(Names), scopes : Seq(Nat)]
RouterTypes ==
    /\ place \in Seq(Routers) /\ nodes \in Seq(NodeMaps) /\ open \in Seq(Opened)
    /\ routes \in Seq(Routes) /\ uses \in Seq(Seq(Nat))
    /\ Len(place) > 0 /\ Len(open) > 0 /\ Len(uses) > 0

PlaceSet == 1..Len(place)
ScopeSet == 1..Len(uses)
Opening(s) == \E i \in 1..Len(open) : open[i].scope = s

Tree(t) ==
    /\ t.of \in [PlaceSet -> ScopeSet]
    /\ t.kind \in [ScopeSet -> ScopeKinds] /\ t.within \in [ScopeSet -> Nat]
    /\ t.path \in [ScopeSet -> Seq(Names)] /\ t.chain \in [ScopeSet -> Seq(Nat)]
    /\ t.kind[1] = "root" /\ t.path[1] = <<>> /\ t.chain[1] = <<1>>
    /\ \A s \in ScopeSet : Len(t.path[s]) < MaxDepth
    /\ \A s \in ScopeSet \ {1} :
           /\ t.within[s] \in 1..(s - 1) /\ t.chain[s] = Append(t.chain[t.within[s]], s)
           /\ \/ /\ t.kind[s] = "group" /\ t.kind[t.within[s]] # "group"
                 /\ t.path[s] = t.path[t.within[s]]
              \/ /\ t.kind[s] = "sub"
                 /\ \E n \in Names : t.path[s] = Append(t.path[t.within[s]], n)

(* Each place has the middlewares of its scope, and its groups and its      *)
(* parent are where the tree has them.  Only a group that nobody works on   *)
(* any more has several places, with one map among them.                    *)
PlaceRight(t, q) ==
    /\ t.of[q] = 1 <=> q = 1
    /\ q = 1 => place[q].parent = 0 /\ place[q].nodes # 0
    /\ q # 1 => place[q].parent \in 1..(q - 1) /\ t.of[place[q].parent] = t.within[t.of[q]]
    /\ place[q].mws = uses[t.of[q]] /\ place[q].nodes \in 0..Len(nodes)
    /\ \A i \in 1..Len(place[q].groups) :
           LET gr == place[q].groups[i] IN
           gr \in PlaceSet /\ t.kind[t.of[gr]] = "group" /\ t.within[t.of[gr]] = t.of[q]
PlacesRight(t) ==
    /\ \A q \in PlaceSet : PlaceRight(t, q)
    /\ \A s \in ScopeSet : \E q \in PlaceSet : t.of[q] = s
    /\ \A p, q \in PlaceSet :
           t.of[p] = t.of[q] => \/ p = q
                                \/ /\ t.kind[t.of[q]] = "group" /\ ~Opening(t.of[q])
                                   /\ place[p].nodes = place[q].nodes
    /\ \A p, q \in PlaceSet : place[p].nodes = place[q].nodes /\ place[p].nodes # 0 => t.of[p] = t.of[q]

(* The callbacks that are running are a way down the tree.                  *)
StackRight(t) ==
    /\ open[1].scope = 1
    /\ \A i \in 1..Len(open) :
           LET o == open[i] IN
           /\ o.at \in PlaceSet /\ o.scope \in ScopeSet /\ t.of[o.at] = o.scope
           /\ o.kind = t.kind[o.scope] /\ o.path = t.path[o.scope]
           /\ t.chain[o.scope] = [k \in 1..i |-> open[k].scope]
    /\ \A i \in 2..Len(open) : t.within[open[i].scope] = open[i - 1].scope

(* What is in the maps was registered there, ...                            *)
RouteAt(t, i, kind, name, s) ==
    /\ i \in 1..Len(routes) /\ routes[i].kind = kind
    /\ routes[i].path = Append(t.path[s], name) /\ routes[i].scopes = t.chain[s]
NodeRight(t, node, name, s) ==
    \/ /\ node.kind = "command" /\ RouteAt(t, node.handler, "command", name, s)
       /\ node.autocomplete # 0 => RouteAt(t, node.autocomplete, "autocomplete", name, s)
    \/ /\ node.kind = "component" /\ s = 1 /\ RouteAt(t, node.handler, "component", name, s)
    \/ /\ node.kind = "sub" /\ node.router \in PlaceSet /\ t.kind[t.of[node.router]] = "sub"
       /\ t.within[t.of[node.router]] = s
       /\ t.path[t.of[node.router]] = Append(t.path[s], name)
NodesRight(t) ==
    \A q \in PlaceSet : \A name \in DOMAIN NodesOf(q) : NodeRight(t, NodesOf(q)[name], name, t.of[q])

(* ... and what was registered can be reached in them.                      *)
SubAt(t, q, s) == \E name \in DOMAIN NodesOf(q) : NodesOf(q)[name].kind = "sub" /\ t.of[NodesOf(q)[name].router] = s
GroupAt(t, q, s) == \E i \in 1..Len(place[q].groups) : t.of[place[q].groups[i]] = s
ScopesReached(t) ==
    \A s \in ScopeSet \ {1} :
        IF t.kind[s] = "group" THEN \E q \in PlaceSet : t.of[q] = t.within[s] /\ GroupAt(t, q, s)
        ELSE Opening(s) \/ \E q \in PlaceSet : t.of[q] = t.within[s] /\ SubAt(t, q, s)
Serves(node, kind) ==
    IF kind = "component" THEN node.kind = "component"
    ELSE node.kind = "command" /\ HandlerOf(node, kind) # 0
ServedAt(t, r, q) ==
    \E name \in DOMAIN NodesOf(q) : r.path = Append(t.path[t.of[q]], name) /\ Serves(NodesOf(q)[name], r.kind)
Served(t) == \A i \in 1..Len(routes) : \E q \in PlaceSet : ServedAt(t, routes[i], q)

RouterIs(t) ==
    /\ RouterTypes /\ Tree(t) /\ PlacesRight(t) /\ StackRight(t) /\ NodesRight(t) /\ ScopesReached(t) /\ Served(t)

-----------------------------------------------------------------------------
(* How the tree grows.                                                      *)
More(f, n, x) == [i \in 1..(n + 1) |-> IF i = n + 1 THEN x ELSE f[i]]
FirstTree ==
    [of |-> <<1>>, kind |-> <<"root">>, within |-> <<0>>, path |-> <<<<>>>>, chain |-> <<<<1>>>>]
-----------------------------------------------------------------------------
(* Dispatch.  What findHandler computes, one name after the other.          *)

LEMMA PathsAre == \A p : p \in Paths <=> p \in Seq(Names) /\ Len(p) \in 1..MaxDepth
  <1>1. ASSUME NEW p \in Paths PROVE p \in Seq(Names) /\ Len(p) \in 1..MaxDepth
    <2>1. PICK n \in 1..MaxDepth : p \in [1..n -> Names]
      BY DEF Paths
    <2>2. n \in Nat
      BY RouterAssumption
    <2> QED BY <2>1, <2>2
  <1>2. ASSUME NEW p \in Seq(Names), Len(p) \in 1..MaxDepth PROVE p \in Paths
    <2>1. p \in [1..Len(p) -> Names]
      OBVIOUS
    <2> QED BY <1>2, <2>1 DEF Paths
  <1> QED BY <1>1, <1>2

LEMMA PathLen ==
  ASSUME NEW p \in Paths
  PROVE  Len(p) \in Nat /\ Len(p) <= MaxDepth /\ (Len(p) > 1 \/ Len(p) = 1)
  <1>1. PICK n \in 1..MaxDepth : n = Len(p)
    BY PathsAre
  <1>2. n \in Nat /\ n <= MaxDepth /\ (n > 1 \/ n = 1)
    BY RouterAssumption
  <1> QED BY <1>1, <1>2

LEMMA TailIn ==
  ASSUME NEW p \in Paths
  PROVE  /\ p # <<>> /\ Head(p) \in Names /\ Head(p) = p[1]
         /\ Len(p) > 1 => Tail(p) \in Paths /\ Len(Tail(p)) = Len(p) - 1
  <1>1. p \in Seq(Names) /\ Len(p) \in 1..MaxDepth
    BY PathsAre
  <1>2. p # <<>> /\ Tail(p) \in Seq(Names) /\ Len(Tail(p)) = Len(p) - 1 /\ Head(p) = p[1] /\ p[1] \in Names
    BY <1>1
  <1>3. Len(p) > 1 => Len(Tail(p)) \in 1..MaxDepth
    BY <1>1, <1>2, RouterAssumption
  <1> QED BY <1>2, <1>3, PathsAre

FindTurn(kind, p, deeper) ==
    [q \in DOMAIN place |->
        FirstHit([i \in DOMAIN Searched(q) |-> findOnce(kind, Searched(q)[i], p, deeper)])]
FoundBy(kind) == CHOOSE f : f = [p \in Paths |-> FindTurn(kind, p, f[Tail(p)])]

LEMMA FindFound ==
  ASSUME NEW kind, NEW r, NEW path
  PROVE  findHandler(kind, r, path) = FoundBy(kind)[path][r]
  BY Zenon DEF findHandler, FoundBy, FindTurn

LEMMA LastName ==
  ASSUME NEW kind, NEW p \in Paths, Len(p) = 1, NEW d, NEW e
  PROVE  FindTurn(kind, p, d) = FindTurn(kind, p, e)
  <1>1. ~(Len(p) > 1)
    OBVIOUS
  <1>2. \A r : findOnce(kind, r, p, d) = findOnce(kind, r, p, e)
    BY <1>1, Zenon DEF findOnce
  <1> QED BY <1>2, Zenon DEF FindTurn

LEMMA FoundIs ==
  ASSUME NEW kind
  PROVE  FoundBy(kind) = [p \in Paths |-> FindTurn(kind, p, FoundBy(kind)[Tail(p)])]
  <1> DEFINE Upto(f, m) == /\ f = [p \in Paths |-> f[p]]
                           /\ \A p \in Paths : Len(p) <= m => f[p] = FindTurn(kind, p, f[Tail(p)])
             G == {m \in Nat : \E f : Upto(f, m)}
  <1>1. 0 \in G
    <2>1. Upto([p \in Paths |-> 0], 0)
      BY PathsAre
    <2> QED BY <2>1
  <1>2. ASSUME NEW m \in Nat, m \in G
        PROVE  m + 1 \in G
    <2>1. PICK f : Upto(f, m)
      BY <1>2
    <2> DEFINE h == [p \in Paths |-> IF Len(p) = m + 1 THEN FindTurn(kind, p, f[Tail(p)]) ELSE f[p]]
    <2>2. \A p \in Paths : h[p] = IF Len(p) = m + 1 THEN FindTurn(kind, p, f[Tail(p)]) ELSE f[p]
      OBVIOUS
    <2>3. h = [p \in Paths |-> h[p]]
      OBVIOUS
    <2> HIDE DEF h
    <2>4. ASSUME NEW p \in Paths, Len(p) <= m + 1
          PROVE  FindTurn(kind, p, h[Tail(p)]) = FindTurn(kind, p, f[Tail(p)])
      <3>1. CASE Len(p) > 1
        <4>1. Tail(p) \in Paths /\ Len(Tail(p)) # m + 1
          BY <2>4, <3>1, TailIn, PathsAre
        <4>2. h[Tail(p)] = f[Tail(p)]
          BY <2>2, <4>1
        <4> QED BY <4>2
      <3>2. CASE ~(Len(p) > 1)
        <4>1. Len(p) = 1
          BY <3>2, PathLen
        <4> QED BY <4>1, LastName
      <3> QED BY <3>1, <3>2
    <2>5. ASSUME NEW p \in Paths, Len(p) <= m + 1
          PROVE  h[p] = FindTurn(kind, p, h[Tail(p)])
      <3>1. CASE Len(p) = m + 1
        BY <2>2, <2>4, <3>1
      <3>2. CASE Len(p) # m + 1
        <4>1. Len(p) <= m
          BY <2>5, <3>2, PathsAre
        <4> QED BY <2>1, <2>2, <2>4, <2>5, <3>2, <4>1
      <3> QED BY <3>1, <3>2
    <2>6. Upto(h, m + 1)
      BY <2>3, <2>5
    <2> HIDE DEF Upto
    <2> QED BY <2>6
  <1> HIDE DEF G
  <1>3. MaxDepth \in G
    BY <1>1, <1>2, UpFromZero, RouterAssumption
  <1>4. PICK f : Upto(f, MaxDepth)
    BY <1>3 DEF G
  <1>5. f = [p \in Paths |-> FindTurn(kind, p, f[Tail(p)])]
    <2>1. ASSUME NEW p \in Paths PROVE f[p] = FindTurn(kind, p, f[Tail(p)])
      <3>1. Len(p) <= MaxDepth
        BY PathLen
      <3> QED BY <1>4, <3>1
    <2>2. f = [p \in Paths |-> f[p]]
      BY <1>4
    <2> QED BY <2>1, <2>2, Zenon
  <1> QED BY <1>5, Zenon DEF FoundBy

(* The places that a router answers for.                                    *)
Around(q) == {q} \cup {place[q].groups[i] : i \in 1..Len(place[q].groups)}

LEMMA FirstHitIs ==
  ASSUME NEW n \in Nat, NEW found, DOMAIN found = 0..n
  PROVE  \/ FirstHit(found) = Nobody /\ \A i \in 0..n : found[i] = Nobody
         \/ FirstHit(found) # Nobody /\ \E i \in 0..n : FirstHit(found) = found[i]
  <1> DEFINE hits == {i \in DOMAIN found : found[i] # Nobody}
             first == CHOOSE i \in hits : \A j \in hits : i <= j
  <1>1. FirstHit(found) = IF hits = {} THEN Nobody ELSE found[first]
    BY DEF FirstHit
  <1>2. CASE hits = {}
    BY <1>1, <1>2
  <1>3. CASE hits # {}
    <2>1. hits \subseteq Nat
      OBVIOUS
    <2>2. \E i \in hits : \A j \in hits : i <= j
      <3> HIDE DEF hits
      <3> QED BY <1>3, <2>1, Least
    <2>3. first \in hits
      <3> HIDE DEF hits
      <3> QED BY <2>2
    <2>4. first \in 0..n /\ found[first] # Nobody
      BY <2>3
    <2> HIDE DEF hits, first
    <2> QED BY <1>1, <1>3, <2>4
  <1> QED BY <1>2, <1>3

(* A router finds what one of those around it finds by itself.              *)
OwnFind(kind, c, p) == findOnce(kind, c, p, FoundBy(kind)[Tail(p)])

LEMMA PlaceTypes ==
  ASSUME place \in Seq(Routers), NEW q \in PlaceSet
  PROVE  /\ place[q] \in Routers /\ place[q].groups \in Seq(Nat) /\ place[q].mws \in Seq(Nat)
         /\ place[q].nodes \in Nat /\ place[q].parent \in Nat /\ place[q].cap \in Nat
  <1>1. place[q] \in Routers
    BY DEF PlaceSet
  <1> QED BY <1>1 DEF Routers

LEMMA FindStep ==
  ASSUME place \in Seq(Routers), NEW q \in PlaceSet, NEW kind, NEW p \in Paths
  PROVE  LET hit == findHandler(kind, q, p) IN
         \/ hit = Nobody /\ \A c \in Around(q) : OwnFind(kind, c, p) = Nobody
         \/ hit # Nobody /\ \E c \in Around(q) : hit = OwnFind(kind, c, p)
  <1>1. place[q].groups \in Seq(Nat)
    BY PlaceTypes
  <1>2. PICK n \in Nat : n = Len(place[q].groups)
    BY <1>1
  <1> DEFINE found == [i \in DOMAIN Searched(q) |-> OwnFind(kind, Searched(q)[i], p)]
  <1>3. DOMAIN Searched(q) = 0..n /\ \A i \in 0..n : Searched(q)[i] = IF i = 0 THEN q ELSE place[q].groups[i]
    BY <1>2 DEF Searched
  <1>4. findHandler(kind, q, p) = FirstHit(found)
    <2>1. findHandler(kind, q, p) = FindTurn(kind, p, FoundBy(kind)[Tail(p)])[q]
      BY FindFound, FoundIs
    <2>2. q \in DOMAIN place
      BY DEF PlaceSet
    <2> QED BY <2>1, <2>2 DEF FindTurn, OwnFind
  <1>5. DOMAIN found = 0..n /\ \A i \in 0..n : found[i] = OwnFind(kind, Searched(q)[i], p)
    BY <1>3
  <1>6. /\ \A i \in 0..n : Searched(q)[i] \in Around(q)
        /\ \A c \in Around(q) : \E i \in 0..n : c = Searched(q)[i]
    <2>1. \A i \in 0..n : Searched(q)[i] \in Around(q)
      BY <1>2, <1>3 DEF Around
    <2>2. ASSUME NEW c \in Around(q)
          PROVE  \E i \in 0..n : c = Searched(q)[i]
      <3>1. CASE c = q
        BY <1>3, <3>1
      <3>2. CASE \E i \in 1..n : c = place[q].groups[i]
        BY <1>3, <3>2
      <3> QED BY <1>2, <3>1, <3>2 DEF Around
    <2> QED BY <2>1, <2>2
  <1> HIDE DEF found
  <1>7. \/ FirstHit(found) = Nobody /\ \A i \in 0..n : found[i] = Nobody
        \/ FirstHit(found) # Nobody /\ \E i \in 0..n : FirstHit(found) = found[i]
    BY <1>5, FirstHitIs
  <1> QED BY <1>4, <1>5, <1>6, <1>7

LEMMA OwnIs ==
  ASSUME NEW c, NEW kind, NEW p \in Paths
  PROVE  LET node == NodesOf(c)[p[1]] IN
         OwnFind(kind, c, p) =
             IF p[1] \in DOMAIN NodesOf(c) /\ node.kind = "sub" /\ Len(p) > 1
             THEN findHandler(kind, node.router, Tail(p))
             ELSE IF /\ p[1] \in DOMAIN NodesOf(c) /\ node.kind = "command"
                     /\ HandlerOf(node, kind) # 0 /\ Len(p) = 1
             THEN [router |-> c, handler |-> HandlerOf(node, kind)]
             ELSE Nobody
  <1>1. Head(p) = p[1]
    BY TailIn
  <1>2. \A r : FoundBy(kind)[Tail(p)][r] = findHandler(kind, r, Tail(p))
    BY FindFound
  <1>3. Len(p) > 1 \/ Len(p) = 1
    BY PathLen
  <1>4. ~(Len(p) > 1 /\ Len(p) = 1)
    <2>1. ASSUME Len(p) = 1
          PROVE  ~(Len(p) > 1)
      BY <2>1
    <2> QED BY <2>1
  <1>5. "sub" # "command"
    OBVIOUS
  <1>6. PICK ns, node, d : ns = NodesOf(c) /\ node = ns[p[1]] /\ d = FoundBy(kind)[Tail(p)]
    OBVIOUS
  <1>7. PICK direct : direct = [router |-> c, handler |-> HandlerOf(node, kind)]
    OBVIOUS
  <1>8. OwnFind(kind, c, p) =
            IF p[1] \notin DOMAIN ns THEN Nobody
            ELSE CASE node.kind = "sub" /\ Len(p) > 1 -> d[node.router]
                   [] node.kind = "command" /\ HandlerOf(node, kind) # 0 /\ Len(p) = 1 -> direct
                   [] OTHER -> Nobody
    BY <1>1, <1>6, <1>7, Zenon DEF OwnFind, findOnce
  <1>9. CASE p[1] \in DOMAIN ns /\ node.kind = "sub" /\ Len(p) > 1
    <2>1. OwnFind(kind, c, p) = d[node.router]
      BY <1>4, <1>8, <1>9
    <2> QED BY <1>2, <1>6, <1>9, <2>1, Zenon
  <1>10. CASE p[1] \in DOMAIN ns /\ node.kind = "command" /\ HandlerOf(node, kind) # 0 /\ Len(p) = 1
    <2>1. OwnFind(kind, c, p) = direct
      BY <1>4, <1>8, <1>10
    <2> QED BY <1>4, <1>6, <1>7, <1>10, <2>1, Zenon
  <1>11. CASE /\ ~(p[1] \in DOMAIN ns /\ node.kind = "sub" /\ Len(p) > 1)
              /\ ~(p[1] \in DOMAIN ns /\ node.kind = "command" /\ HandlerOf(node, kind) # 0 /\ Len(p) = 1)
    <2>1. OwnFind(kind, c, p) = Nobody
      BY <1>8, <1>11
    <2> QED BY <1>6, <1>11, <2>1, Zenon
  <1> QED BY <1>9, <1>10, <1>11

LEMMA ScopeOf ==
  ASSUME NEW t, RouterIs(t), NEW q \in PlaceSet
  PROVE  /\ t.of[q] \in ScopeSet /\ t.path[t.of[q]] \in Seq(Names) /\ t.chain[t.of[q]] \in Seq(Nat)
         /\ t.kind[t.of[q]] \in ScopeKinds
  BY DEF RouterIs, Tree

LEMMA AroundIs ==
  ASSUME NEW t, RouterIs(t), NEW q \in PlaceSet, NEW c \in Around(q)
  PROVE  /\ c \in PlaceSet /\ t.path[t.of[c]] = t.path[t.of[q]]
         /\ c = q \/ (t.kind[t.of[c]] = "group" /\ t.within[t.of[c]] = t.of[q])
  <1>1. CASE c = q
    BY <1>1
  <1>2. CASE c # q
    <2>1. PICK i \in 1..Len(place[q].groups) : c = place[q].groups[i]
      BY <1>2 DEF Around
    <2>2. c \in PlaceSet /\ t.kind[t.of[c]] = "group" /\ t.within[t.of[c]] = t.of[q]
      BY <2>1 DEF RouterIs, PlacesRight, PlaceRight
    <2>3. t.of[c] \in ScopeSet /\ t.of[c] # 1
      BY <2>2, ScopeOf DEF RouterIs, Tree
    <2>4. t.path[t.of[c]] = t.path[t.within[t.of[c]]]
      BY <2>2, <2>3 DEF RouterIs, Tree
    <2> QED BY <2>2, <2>4
  <1> QED BY <1>1, <1>2

LEMMA NodeIs ==
  ASSUME NEW t, RouterIs(t), NEW q \in PlaceSet, NEW name \in DOMAIN NodesOf(q)
  PROVE  NodeRight(t, NodesOf(q)[name], name, t.of[q])
  BY DEF RouterIs, NodesRight

LEMMA Longer ==
  ASSUME NEW s \in Seq(Names), NEW p \in Seq(Names), p # <<>>
  PROVE  /\ Append(s, p[1]) \o Tail(p) = s \o p
         /\ Len(p) = 1 => Append(s, p[1]) = s \o p
  <1>1. p[1] \in Names /\ Tail(p) \in Seq(Names) /\ Len(Tail(p)) = Len(p) - 1 /\ Len(p) \in Nat \ {0}
    OBVIOUS
  <1>2. PICK one \in Seq(Names) : one = <<p[1]>> /\ Len(one) = 1 /\ one[1] = p[1]
    <2>1. PICK x \in Names : x = p[1]
      BY <1>1
    <2>2. <<x>> \in Seq(Names) /\ Len(<<x>>) = 1 /\ <<x>>[1] = x
      OBVIOUS
    <2>3. PICK o : o = <<x>>
      OBVIOUS
    <2>4. o \in Seq(Names) /\ o = <<p[1]>> /\ Len(o) = 1 /\ o[1] = p[1]
      BY <2>1, <2>2, <2>3
    <2> QED BY <2>4
  <1>3. Append(s, p[1]) = s \o one
    BY <1>1, <1>2, AppendIsConcat
  <1>4. p = one \o Tail(p)
    <2>1. PICK r \in Seq(Names) : r = Tail(p)
      BY <1>1
    <2>2. PICK c : c = one \o r
      OBVIOUS
    <2>3. /\ c \in Seq(Names) /\ Len(c) = Len(one) + Len(r)
          /\ \A i \in 1..(Len(one) + Len(r)) : c[i] = IF i <= Len(one) THEN one[i] ELSE r[i - Len(one)]
      BY <1>2, <2>2, Concatenated
    <2>4. \A i \in 1..Len(r) : r[i] = p[i + 1]
      BY <2>1, HeadTailProperties
    <2>5. Len(c) = Len(p) /\ Len(r) = Len(p) - 1
      BY <1>1, <1>2, <2>1, <2>3
    <2>6. ASSUME NEW i \in 1..Len(c) PROVE c[i] = p[i]
      <3>1. i <= 1 => i = 1
        OBVIOUS
      <3>2. ~(i <= 1) => i - 1 \in 1..Len(r) /\ (i - 1) + 1 = i
        BY <1>1, <2>5
      <3>3. i \in 1..(Len(one) + Len(r))
        BY <2>3
      <3> QED BY <1>2, <2>3, <2>4, <3>1, <3>2, <3>3
    <2>7. c = p
      BY <2>3, <2>5, <2>6, SeqEqual
    <2> QED BY <2>1, <2>2, <2>7
  <1>5. (s \o one) \o Tail(p) = s \o (one \o Tail(p))
    BY <1>1, <1>2, ConcatAssociative
  <1>6. Len(p) = 1 => p = one
    BY <1>1, <1>2
  <1> QED BY <1>3, <1>4, <1>5, <1>6

HitRight(t, kind, path, hit) ==
    /\ hit.router \in PlaceSet /\ hit.handler \in 1..Len(routes)
    /\ routes[hit.handler].kind = kind /\ routes[hit.handler].path = path
    /\ routes[hit.handler].scopes = t.chain[t.of[hit.router]]

(* What is found was registered for the path, in the scope it is found in.  *)
LEMMA FindsRight ==
  ASSUME NEW t, RouterIs(t), NEW kind \in {"command", "autocomplete"},
         NEW q \in PlaceSet, NEW p \in Paths, findHandler(kind, q, p) # Nobody
  PROVE  HitRight(t, kind, t.path[t.of[q]] \o p, findHandler(kind, q, p))
  <1> DEFINE Fine(r, path) ==
                 findHandler(kind, r, path) # Nobody =>
                     HitRight(t, kind, t.path[t.of[r]] \o path, findHandler(kind, r, path))
             G == {n \in Nat : \A path \in Paths, r \in PlaceSet : Len(path) = n => Fine(r, path)}
  <1>1. 0 \in G
    <2>1. \A path \in Paths : Len(path) # 0
      BY PathLen
    <2> QED BY <2>1
  <1>2. ASSUME NEW n \in Nat, n \in G, NEW path \in Paths, NEW r \in PlaceSet, Len(path) = n + 1,
               findHandler(kind, r, path) # Nobody
        PROVE  HitRight(t, kind, t.path[t.of[r]] \o path, findHandler(kind, r, path))
    <2>1. PICK hit : hit = findHandler(kind, r, path)
      OBVIOUS
    <2>2. place \in Seq(Routers)
      BY DEF RouterIs, RouterTypes
    <2>3. PICK c \in Around(r) : hit = OwnFind(kind, c, path)
      BY <1>2, <2>1, <2>2, FindStep
    <2>4. c \in PlaceSet /\ t.path[t.of[c]] = t.path[t.of[r]]
      BY AroundIs
    <2>5. PICK name, node : name = path[1] /\ node = NodesOf(c)[name]
      OBVIOUS
    <2>6. PICK s \in Seq(Names) : s = t.path[t.of[r]]
      BY ScopeOf
    <2>7. /\ Append(s, name) \o Tail(path) = s \o path
          /\ Len(path) = 1 => Append(s, name) = s \o path
      BY <2>5, Longer, PathsAre, TailIn
    <2>8. hit = IF name \in DOMAIN NodesOf(c) /\ node.kind = "sub" /\ Len(path) > 1
                THEN findHandler(kind, node.router, Tail(path))
                ELSE IF /\ name \in DOMAIN NodesOf(c) /\ node.kind = "command"
                        /\ HandlerOf(node, kind) # 0 /\ Len(path) = 1
                THEN [router |-> c, handler |-> HandlerOf(node, kind)]
                ELSE Nobody
      BY <2>3, <2>5, OwnIs
    <2>9. CASE name \in DOMAIN NodesOf(c) /\ node.kind = "sub" /\ Len(path) > 1
      <3>1. hit = findHandler(kind, node.router, Tail(path))
        BY <2>8, <2>9
      <3>2. NodeRight(t, node, name, t.of[c])
        BY <2>4, <2>5, <2>9, NodeIs
      <3>3. node.router \in PlaceSet /\ t.path[t.of[node.router]] = Append(s, name)
        BY <2>4, <2>6, <2>9, <3>2 DEF NodeRight
      <3>4. Tail(path) \in Paths /\ Len(Tail(path)) = n
        BY <1>2, <2>9, TailIn
      <3>5. Fine(node.router, Tail(path))
        BY <1>2, <3>3, <3>4
      <3> QED BY <1>2, <2>1, <2>6, <2>7, <3>1, <3>3, <3>5
    <2>10. CASE /\ name \in DOMAIN NodesOf(c) /\ node.kind = "command"
                /\ HandlerOf(node, kind) # 0 /\ Len(path) = 1
      <3>1. hit = [router |-> c, handler |-> HandlerOf(node, kind)]
        BY <2>8, <2>10
      <3>2. NodeRight(t, node, name, t.of[c])
        BY <2>4, <2>5, <2>10, NodeIs
      <3>3. RouteAt(t, HandlerOf(node, kind), kind, name, t.of[c])
        BY <2>10, <3>2 DEF NodeRight, HandlerOf
      <3>4. hit.router = c /\ hit.handler = HandlerOf(node, kind)
        BY <3>1
      <3>5. Append(s, name) = t.path[t.of[r]] \o path
        BY <2>6, <2>7, <2>10
      <3>6. HitRight(t, kind, t.path[t.of[r]] \o path, hit)
        BY <2>4, <2>6, <3>3, <3>4, <3>5 DEF RouteAt, HitRight
      <3> QED BY <2>1, <3>6
    <2> QED BY <1>2, <2>1, <2>8, <2>9, <2>10
  <1>3. ASSUME NEW n \in Nat, n \in G PROVE n + 1 \in G
    BY <1>2, <1>3
  <1>4. Len(p) \in G
    <2>1. Len(p) \in Nat
      BY PathLen
    <2> HIDE DEF G
    <2> QED BY <1>1, <1>3, <2>1, UpFromZero
  <1> QED BY <1>4
-----------------------------------------------------------------------------
(* And whatever was registered is found.                                    *)
LEMMA Prepended ==
  ASSUME NEW s \in Seq(Names), NEW n \in Names, NEW rest \in Seq(Names)
  PROVE  \E l \in Seq(Names) :
             /\ l[1] = n /\ Tail(l) = rest /\ Len(l) = Len(rest) + 1 /\ l # <<>>
             /\ s \o l = Append(s, n) \o rest
  <1> DEFINE l == [i \in 1..(Len(rest) + 1) |-> IF i = 1 THEN n ELSE rest[i - 1]]
  <1>1. l \in Seq(Names)
    <2>1. l \in [1..(Len(rest) + 1) -> Names]
      <3>1. ASSUME NEW i \in 1..(Len(rest) + 1)
            PROVE  l[i] \in Names
        <4>1. CASE i = 1
          BY <4>1
        <4>2. CASE i # 1
          <5>1. i - 1 \in 1..Len(rest)
            BY <4>2
          <5> QED BY <4>2, <5>1
        <4> QED BY <4>1, <4>2
      <3> QED BY <3>1
    <2> QED BY <2>1
  <1>2. DOMAIN l = 1..(Len(rest) + 1) /\ l[1] = n /\ \A i \in 1..Len(rest) : l[i + 1] = rest[i]
    OBVIOUS
  <1> HIDE DEF l
  <1>3. Len(l) = Len(rest) + 1 /\ l # <<>>
    BY <1>1, <1>2
  <1>4. Tail(l) = rest
    <2>1. PICK r \in Seq(Names) : r = Tail(l)
      BY <1>1, <1>3, HeadTailProperties
    <2>2. Len(r) = Len(rest) /\ \A i \in 1..Len(r) : r[i] = l[i + 1]
      BY <1>1, <1>3, <2>1, HeadTailProperties
    <2> QED BY <1>2, <2>1, <2>2, SeqEqual
  <1>5. s \o l = Append(s, n) \o rest
    BY <1>1, <1>2, <1>3, <1>4, Longer
  <1> QED BY <1>1, <1>2, <1>3, <1>4, <1>5

LEMMA NodesIn ==
  ASSUME RouterTypes, NEW q \in PlaceSet, place[q].nodes \in 0..Len(nodes)
  PROVE  /\ NodesOf(q) = IF place[q].nodes = 0 THEN NoNodes ELSE nodes[place[q].nodes]
         /\ NodesOf(q) \in NodeMaps /\ DOMAIN NodesOf(q) \subseteq Names
  <1>1. ASSUME NEW m \in NodeMaps PROVE DOMAIN m \subseteq Names
    BY DEF NodeMaps
  <1>2. NoNodes \in NodeMaps
    <2>1. NoNodes \in [{} -> NodeTypes] /\ {} \in SUBSET Names
      BY DEF NoNodes
    <2> QED BY <2>1 DEF NodeMaps
  <1>3. NodesOf(q) = IF place[q].nodes = 0 THEN NoNodes ELSE nodes[place[q].nodes]
    BY DEF NodesOf
  <1>4. NodesOf(q) \in NodeMaps
    <2>1. PICK m \in Nat : m = place[q].nodes
      OBVIOUS
    <2>2. m # 0 => nodes[m] \in NodeMaps
      BY <2>1 DEF RouterTypes
    <2> QED BY <1>2, <1>3, <2>1, <2>2
  <1> QED BY <1>1, <1>3, <1>4

LEMMA SameMap ==
  ASSUME NEW t, RouterIs(t), NEW p \in PlaceSet, NEW q \in PlaceSet, t.of[p] = t.of[q]
  PROVE  /\ NodesOf(p) = NodesOf(q)
         /\ t.kind[t.of[q]] # "group" => p = q
  <1>1. p = q \/ (t.kind[t.of[q]] = "group" /\ place[p].nodes = place[q].nodes)
    BY DEF RouterIs, PlacesRight
  <1> QED BY <1>1 DEF NodesOf

Base(t, s) == IF t.kind[s] = "group" THEN t.within[s] ELSE s

LEMMA BaseIs ==
  ASSUME NEW t, RouterIs(t), NEW s \in ScopeSet
  PROVE  /\ Base(t, s) \in ScopeSet /\ t.path[Base(t, s)] = t.path[s] /\ Base(t, s) <= s
         /\ t.kind[Base(t, s)] # "group"
         /\ t.kind[s] = "group" => Base(t, s) < s
  <1>1. PICK n \in Nat : n = Len(uses)
    BY DEF RouterIs, RouterTypes
  <1>2. CASE t.kind[s] = "group"
    <2>1. s # 1
      BY <1>2 DEF RouterIs, Tree
    <2>2. t.within[s] \in 1..(s - 1) /\ t.kind[t.within[s]] # "group" /\ t.path[s] = t.path[t.within[s]]
      BY <1>2, <2>1 DEF RouterIs, Tree
    <2>3. PICK w : w = t.within[s]
      OBVIOUS
    <2>4. w \in ScopeSet /\ w < s
      BY <1>1, <2>2, <2>3 DEF ScopeSet
    <2> QED BY <1>2, <2>2, <2>3, <2>4 DEF Base, ScopeSet
  <1>3. CASE t.kind[s] # "group"
    BY <1>3 DEF Base, ScopeSet
  <1> QED BY <1>2, <1>3

(* What a place has, somebody looks for.                                    *)
LEMMA LookedFor ==
  ASSUME NEW t, RouterIs(t), NEW q \in PlaceSet
  PROVE  \E b \in PlaceSet, c \in PlaceSet :
             t.of[b] = Base(t, t.of[q]) /\ c \in Around(b) /\ t.of[c] = t.of[q] /\ NodesOf(c) = NodesOf(q)
  <1>1. CASE t.kind[t.of[q]] = "group"
    <2>1. PICK s \in ScopeSet : s = t.of[q]
      BY ScopeOf
    <2>2. s # 1
      BY <1>1, <2>1 DEF RouterIs, Tree
    <2>3. PICK b \in PlaceSet : t.of[b] = t.within[s] /\ GroupAt(t, b, s)
      BY <1>1, <2>1, <2>2 DEF RouterIs, ScopesReached
    <2>4. PICK i \in 1..Len(place[b].groups) : t.of[place[b].groups[i]] = s
      BY <2>3 DEF GroupAt
    <2>5. PICK c : c = place[b].groups[i]
      OBVIOUS
    <2>6. c \in Around(b)
      BY <2>5 DEF Around
    <2>7. c \in PlaceSet
      BY <2>6, AroundIs
    <2>8. NodesOf(c) = NodesOf(q)
      BY <2>1, <2>4, <2>5, <2>7, SameMap
    <2> QED BY <1>1, <2>1, <2>3, <2>4, <2>5, <2>6, <2>7, <2>8 DEF Base
  <1>2. CASE t.kind[t.of[q]] # "group"
    <2>1. q \in Around(q) /\ t.of[q] = Base(t, t.of[q])
      BY <1>2 DEF Around, Base
    <2> QED BY <2>1
  <1> QED BY <1>1, <1>2

LEMMA PathSize ==
  ASSUME NEW s \in Seq(Names), NEW p \in Seq(Names)
  PROVE  s \o p \in Seq(Names) /\ Len(s \o p) = Len(s) + Len(p)
  <1>1. PICK c : c = s \o p
    OBVIOUS
  <1>2. c \in Seq(Names) /\ Len(c) = Len(s) + Len(p)
    BY <1>1, Concatenated
  <1> QED BY <1>1, <1>2

LEMMA Climbs ==
  ASSUME NEW t, RouterIs(t), Len(open) = 1, NEW kind, NEW s \in ScopeSet,
         NEW r \in PlaceSet, t.of[r] = Base(t, s), NEW rest \in Paths, t.path[s] \o rest \in Paths,
         findHandler(kind, r, rest) # Nobody
  PROVE  findHandler(kind, 1, t.path[s] \o rest) # Nobody
  <1> DEFINE UpTo(x) ==
                 \A q \in PlaceSet, p \in Paths :
                     /\ t.of[q] = Base(t, x) /\ t.path[x] \o p \in Paths /\ findHandler(kind, q, p) # Nobody
                     => findHandler(kind, 1, t.path[x] \o p) # Nobody
             G == {n \in Nat : \A x \in ScopeSet : x <= n => UpTo(x)}
  <1>1. PICK N \in Nat : N = Len(uses) /\ N > 0
    BY DEF RouterIs, RouterTypes
  <1>2. \A x \in ScopeSet : x \in Nat /\ x > 0
    BY <1>1 DEF ScopeSet
  <1>3. 0 \in G
    BY <1>2
  <1>4. UpTo(1)
    <2>1. t.path[1] = <<>> /\ Base(t, 1) = 1
      BY DEF RouterIs, Tree, Base
    <2>2. \A q \in PlaceSet : t.of[q] = 1 => q = 1
      BY DEF RouterIs, PlacesRight, PlaceRight
    <2>3. \A p \in Paths : <<>> \o p = p
      BY PathsAre, ConcatEmptySeq
    <2> QED BY <2>1, <2>2, <2>3
  <1>5. ASSUME NEW x \in ScopeSet, x # 1, \A y \in ScopeSet : y < x => UpTo(y),
               NEW q \in PlaceSet, NEW p \in Paths, t.of[q] = Base(t, x), t.path[x] \o p \in Paths,
               findHandler(kind, q, p) # Nobody
        PROVE  findHandler(kind, 1, t.path[x] \o p) # Nobody
    <2>1. CASE t.kind[x] = "group"
      <3>1. PICK y : y = Base(t, x)
        OBVIOUS
      <3>2. y \in ScopeSet /\ t.path[y] = t.path[x] /\ y < x /\ Base(t, y) = y
        <4>1. y \in ScopeSet /\ t.path[y] = t.path[x] /\ y < x /\ t.kind[y] # "group"
          BY <2>1, <3>1, BaseIs
        <4> QED BY <4>1 DEF Base
      <3>3. UpTo(y)
        BY <1>5, <3>2
      <3> QED BY <1>5, <3>1, <3>2, <3>3
    <2>2. CASE t.kind[x] # "group"
      <3>1. PICK w : w = t.within[x]
        OBVIOUS
      <3>2. /\ w \in 1..(x - 1) /\ t.path[w] \in Seq(Names)
            /\ t.kind[x] = "sub" /\ \E n \in Names : t.path[x] = Append(t.path[w], n)
        <4>1. w \in 1..(x - 1) /\ t.kind[x] = "sub" /\ \E n \in Names : t.path[x] = Append(t.path[w], n)
          BY <1>5, <2>2, <3>1 DEF RouterIs, Tree
        <4>2. w \in ScopeSet
          BY <1>1, <4>1 DEF ScopeSet
        <4>3. t.path[w] \in Seq(Names)
          BY <4>2 DEF RouterIs, Tree
        <4> QED BY <4>1, <4>3
      <3>3. w \in ScopeSet /\ w < x
        BY <1>1, <3>2 DEF ScopeSet
      <3>4. ~Opening(x)
        <4>1. open[1].scope = 1
          BY DEF RouterIs, StackRight
        <4> QED BY <1>5, <4>1 DEF Opening
      <3>5. PICK h \in PlaceSet : t.of[h] = w /\ SubAt(t, h, x)
        BY <1>5, <2>2, <3>1, <3>4 DEF RouterIs, ScopesReached
      <3>6. PICK name \in DOMAIN NodesOf(h) :
                NodesOf(h)[name].kind = "sub" /\ t.of[NodesOf(h)[name].router] = x
        BY <3>5 DEF SubAt
      <3>7. PICK node : node = NodesOf(h)[name]
        OBVIOUS
      <3>8. NodeRight(t, node, name, w)
        BY <3>5, <3>7, NodeIs
      <3>9. node.router \in PlaceSet /\ t.path[x] = Append(t.path[w], name) /\ t.of[node.router] = x
        BY <3>6, <3>7, <3>8 DEF NodeRight
      <3>10. t.of[q] = x
        BY <1>5, <2>2 DEF Base
      <3>11. node.router = q
        BY <2>2, <3>9, <3>10, SameMap
      <3>12. PICK b \in PlaceSet, c \in PlaceSet :
                 t.of[b] = Base(t, w) /\ c \in Around(b) /\ t.of[c] = w /\ NodesOf(c) = NodesOf(h)
        <4>1. \E b \in PlaceSet, c \in PlaceSet :
                 t.of[b] = Base(t, t.of[h]) /\ c \in Around(b) /\ t.of[c] = t.of[h] /\ NodesOf(c) = NodesOf(h)
          BY LookedFor
        <4> QED BY <3>5, <4>1
      <3>13. name \in Names
        <4>1. place[h].nodes \in 0..Len(nodes) /\ RouterTypes
          BY DEF RouterIs, PlacesRight, PlaceRight
        <4> QED BY <3>6, <4>1, NodesIn
      <3>14. PICK l \in Seq(Names) :
                 /\ l[1] = name /\ Tail(l) = p /\ Len(l) = Len(p) + 1 /\ l # <<>>
                 /\ t.path[w] \o l = Append(t.path[w], name) \o p
        <4>1. PICK u \in Seq(Names) : u = t.path[w]
          BY <3>2
        <4>2. p \in Seq(Names)
          BY PathsAre
        <4>3. \E l \in Seq(Names) :
                 /\ l[1] = name /\ Tail(l) = p /\ Len(l) = Len(p) + 1 /\ l # <<>>
                 /\ u \o l = Append(u, name) \o p
          BY <3>13, <4>2, Prepended
        <4> QED BY <4>1, <4>3
      <3>15. t.path[w] \o l = t.path[x] \o p
        BY <3>9, <3>14
      <3>16. l \in Paths /\ Len(l) > 1
        <4>1. PICK m \in Nat : m = Len(t.path[w])
          BY <3>2
        <4>2. Len(t.path[w] \o l) = m + Len(l)
          BY <3>2, <4>1, PathSize
        <4>3. PICK d \in Nat : d = Len(p) /\ (d > 1 \/ d = 1)
          BY PathLen
        <4>4. Len(t.path[w] \o l) <= MaxDepth
          BY <1>5, <3>15, PathLen
        <4>5. PICK e \in Nat : e = Len(l) /\ e = d + 1 /\ m + e <= MaxDepth
          BY <3>14, <4>2, <4>3, <4>4
        <4>6. e \in 1..MaxDepth /\ e > 1
          BY <4>3, <4>5, RouterAssumption
        <4>7. Len(l) \in 1..MaxDepth /\ Len(l) > 1
          BY <4>5, <4>6
        <4> QED BY <4>7, PathsAre
      <3>17. OwnFind(kind, c, l) = findHandler(kind, q, p)
        BY <3>6, <3>7, <3>11, <3>12, <3>14, <3>16, OwnIs
      <3>18. findHandler(kind, b, l) # Nobody
        <4>1. place \in Seq(Routers)
          BY DEF RouterIs, RouterTypes
        <4> QED BY <1>5, <3>12, <3>16, <3>17, <4>1, FindStep
      <3>19. UpTo(w)
        BY <1>5, <3>3
      <3> QED BY <1>5, <3>12, <3>15, <3>16, <3>18, <3>19
    <2> QED BY <2>1, <2>2
  <1>6. ASSUME NEW n \in Nat, n \in G
        PROVE  n + 1 \in G
    <2>1. ASSUME NEW x \in ScopeSet, x <= n + 1
          PROVE  UpTo(x)
      <3>1. \A y \in ScopeSet : y < x => UpTo(y)
        <4>1. \A y \in ScopeSet : y < x => y <= n
          BY <1>2, <2>1
        <4> QED BY <1>6, <4>1
      <3> QED BY <1>4, <1>5, <3>1
    <2> QED BY <2>1
  <1>7. N \in G
    <2> HIDE DEF G
    <2> QED BY <1>1, <1>3, <1>6, UpFromZero
  <1>8. UpTo(s)
    BY <1>1, <1>7 DEF ScopeSet
  <1> QED BY <1>8

LEMMA FlattenMore ==
  ASSUME NEW X, NEW s \in Seq(Seq(X)), NEW x \in Seq(X)
  PROVE  FlattenSeq(Append(s, x)) = FlattenSeq(s) \o x
  <1>1. PICK N \in Nat : N = Len(s)
    OBVIOUS
  <1>2. PICK r \in Seq(Seq(X)) : r = Append(s, x)
    BY AppendProperties
  <1>3. Len(r) = N + 1 /\ r[N + 1] = x /\ \A n \in 1..N : r[n] = s[n]
    BY <1>1, <1>2
  <1>4. PICK f : /\ f[0] = <<>> /\ FlattenSeq(s) = f[N]
                 /\ \A n \in 1..N : f[n] = f[n - 1] \o s[n]
    <2>1. \E f : /\ f \in [0..Len(s) -> Seq(X)] /\ f[0] = <<>> /\ FlattenSeq(s) = f[Len(s)]
                 /\ \A n \in 1..Len(s) : f[n] = f[n - 1] \o s[n]
      BY Flattened
    <2> QED BY <1>1, <2>1
  <1>5. PICK gr : /\ gr[0] = <<>> /\ FlattenSeq(r) = gr[N + 1]
                 /\ \A n \in 1..(N + 1) : gr[n] = gr[n - 1] \o r[n]
    <2>1. \E gr : /\ gr \in [0..Len(r) -> Seq(X)] /\ gr[0] = <<>> /\ FlattenSeq(r) = gr[Len(r)]
                 /\ \A n \in 1..Len(r) : gr[n] = gr[n - 1] \o r[n]
      BY Flattened
    <2> QED BY <1>3, <2>1
  <1> DEFINE G == {n \in Nat : n <= N => gr[n] = f[n]}
  <1>6. 0 \in G
    BY <1>4, <1>5
  <1>7. ASSUME NEW n \in Nat, n \in G
        PROVE  n + 1 \in G
    <2> SUFFICES ASSUME n + 1 <= N
                 PROVE  gr[n + 1] = f[n + 1]
      OBVIOUS
    <2>1. n + 1 \in 1..N /\ n + 1 \in 1..(N + 1) /\ (n + 1) - 1 = n /\ n <= N
      OBVIOUS
    <2>2. gr[n] = f[n]
      BY <1>7, <2>1
    <2>3. f[n + 1] = f[n] \o s[n + 1]
      BY <1>4, <2>1
    <2>4. gr[n + 1] = gr[n] \o r[n + 1]
      BY <1>5, <2>1
    <2> QED BY <1>3, <2>1, <2>2, <2>3, <2>4
  <1>8. gr[N] = f[N]
    <2> HIDE DEF G
    <2>1. N \in G
      BY <1>6, <1>7, UpFromZero
    <2> QED BY <2>1 DEF G
  <1>9. gr[N + 1] = gr[N] \o x
    <2>1. N + 1 \in 1..(N + 1) /\ (N + 1) - 1 = N
      OBVIOUS
    <2> QED BY <1>3, <1>5, <2>1
  <1> QED BY <1>2, <1>4, <1>5, <1>8, <1>9

(* What callHandler wraps a handler of a router in.                         *)
Chain == CHOOSE f : f = [q \in 0..Len(place) |->
                            IF q = 0 THEN <<>> ELSE f[place[q].parent] \o place[q].mws]

LEMMA CalledIs ==
  ASSUME NEW r
  PROVE  callHandler(r) = Chain[r]
  BY Zenon DEF callHandler, Chain

LEMMA ChainIs ==
  ASSUME NEW t, RouterIs(t)
  PROVE  /\ Chain[0] = <<>>
         /\ \A q \in PlaceSet : Chain[q] = Chain[place[q].parent] \o place[q].mws
  <1>1. PICK N \in Nat : N = Len(place)
    BY DEF RouterIs, RouterTypes
  <1>2. \A q \in PlaceSet : place[q].parent \in 0..(q - 1)
    <2>1. \A q \in PlaceSet : /\ q = 1 => place[q].parent = 0
                              /\ q # 1 => place[q].parent \in 1..(q - 1)
      BY DEF RouterIs, PlacesRight, PlaceRight
    <2> QED BY <1>1, <2>1 DEF PlaceSet
  <1> DEFINE Made(f, q) == IF q = 0 THEN <<>> ELSE f[place[q].parent] \o place[q].mws
             Upto(f, m) == f = [q \in 0..N |-> f[q]] /\ \A q \in 0..N : q <= m => f[q] = Made(f, q)
             G == {m \in Nat : \E f : Upto(f, m)}
  <1>3. 0 \in G
    <2>1. Upto([q \in 0..N |-> <<>>], 0)
      OBVIOUS
    <2> QED BY <2>1
  <1>4. ASSUME NEW m \in Nat, m \in G
        PROVE  m + 1 \in G
    <2>1. PICK f : Upto(f, m)
      BY <1>4
    <2> DEFINE h == [q \in 0..N |-> IF q = m + 1 THEN Made(f, q) ELSE f[q]]
    <2>2. h = [q \in 0..N |-> h[q]] /\ \A q \in 0..N : h[q] = IF q = m + 1 THEN Made(f, q) ELSE f[q]
      OBVIOUS
    <2> HIDE DEF h
    <2>3. ASSUME NEW q \in 0..N, q <= m + 1
          PROVE  Made(h, q) = Made(f, q)
      <3>1. CASE q = 0
        BY <3>1
      <3>2. CASE q # 0
        <4>1. PICK w \in 0..(q - 1) : w = place[q].parent
          BY <1>1, <1>2, <3>2 DEF PlaceSet
        <4>2. w \in 0..N /\ w # m + 1
          BY <2>3, <4>1
        <4>3. h[w] = f[w]
          BY <2>2, <4>2
        <4> QED BY <3>2, <4>1, <4>3
      <3> QED BY <3>1, <3>2
    <2>4. ASSUME NEW q \in 0..N, q <= m + 1
          PROVE  h[q] = Made(h, q)
      <3>1. CASE q = m + 1
        <4>1. h[q] = Made(f, q)
          BY <2>2, <3>1
        <4> HIDE DEF Made
        <4> QED BY <2>3, <2>4, <4>1
      <3>2. CASE q # m + 1
        <4>1. q <= m
          BY <2>4, <3>2
        <4>2. f[q] = Made(f, q) /\ h[q] = f[q]
          BY <2>1, <2>2, <3>2, <4>1
        <4> HIDE DEF Made
        <4> QED BY <2>3, <2>4, <4>2
      <3> QED BY <3>1, <3>2
    <2>5. Upto(h, m + 1)
      <3> HIDE DEF Made
      <3> QED BY <2>2, <2>4
    <2> HIDE DEF Upto
    <2> QED BY <2>5
  <1> HIDE DEF G
  <1>5. N \in G
    BY <1>3, <1>4, UpFromZero
  <1>6. PICK f : Upto(f, N)
    BY <1>5 DEF G
  <1>7. f = [q \in 0..N |-> Made(f, q)]
    <2>1. \A q \in 0..N : f[q] = Made(f, q)
      <3> HIDE DEF Made
      <3> QED BY <1>6
    <2>2. f = [q \in 0..N |-> f[q]]
      BY <1>6
    <2> HIDE DEF Made, Upto
    <2> QED BY <2>1, <2>2, Zenon
  <1>8. Chain = [q \in 0..N |-> Made(Chain, q)]
    BY <1>1, <1>7, Zenon DEF Chain
  <1>9. \A q \in 0..N : Chain[q] = Made(Chain, q)
    <2> HIDE DEF Made
    <2> QED BY <1>8, Zenon
  <1>10. Chain[0] = <<>>
    BY <1>1, <1>9
  <1>11. ASSUME NEW q \in PlaceSet
         PROVE  Chain[q] = Chain[place[q].parent] \o place[q].mws
    <2>1. q \in 0..N /\ q # 0
      BY <1>1 DEF PlaceSet
    <2> QED BY <1>9, <2>1
  <1> QED BY <1>10, <1>11

Wrapped(t, s) == FlattenSeq([k \in DOMAIN t.chain[s] |-> uses[t.chain[s][k]]])

LEMMA MapMore ==
  ASSUME NEW c \in Seq(Nat), NEW x \in Nat, NEW u, \A k \in 1..Len(c) : u[c[k]] \in Seq(Nat), u[x] \in Seq(Nat)
  PROVE  /\ [k \in DOMAIN Append(c, x) |-> u[Append(c, x)[k]]] = Append([k \in DOMAIN c |-> u[c[k]]], u[x])
         /\ [k \in DOMAIN c |-> u[c[k]]] \in Seq(Seq(Nat))
  <1>1. PICK n \in Nat : n = Len(c)
    OBVIOUS
  <1>2. PICK d \in Seq(Nat) : d = Append(c, x)
    BY AppendProperties
  <1>3. DOMAIN c = 1..n /\ DOMAIN d = 1..(n + 1) /\ d[n + 1] = x /\ \A k \in 1..n : d[k] = c[k]
    BY <1>1, <1>2
  <1>4. PICK m : m = [k \in 1..n |-> u[c[k]]]
    OBVIOUS
  <1>5. m \in Seq(Seq(Nat)) /\ Len(m) = n /\ \A k \in 1..n : m[k] = u[c[k]]
    BY <1>1, <1>4
  <1>6. PICK a \in Seq(Seq(Nat)) : a = Append(m, u[x])
    BY <1>5, AppendProperties
  <1>7. DOMAIN a = 1..(n + 1) /\ a[n + 1] = u[x] /\ \A k \in 1..n : a[k] = m[k]
    BY <1>5, <1>6
  <1>8. \A k \in 1..(n + 1) : k = n + 1 \/ k \in 1..n
    OBVIOUS
  <1>9. \A k \in 1..(n + 1) : u[d[k]] = a[k]
    BY <1>3, <1>5, <1>7, <1>8
  <1>10. a = [k \in 1..(n + 1) |-> a[k]]
    BY <1>6, <1>7
  <1>11. [k \in 1..(n + 1) |-> u[d[k]]] = a
    BY <1>9, <1>10, Zenon
  <1> QED BY <1>2, <1>3, <1>4, <1>5, <1>6, <1>11

LEMMA ChainIn ==
  ASSUME NEW t, RouterIs(t), NEW s \in ScopeSet
  PROVE  t.chain[s] \in Seq(ScopeSet)
  <1> DEFINE G == {n \in Nat : \A x \in ScopeSet : x <= n => t.chain[x] \in Seq(ScopeSet)}
  <1>1. PICK N \in Nat : N = Len(uses) /\ N > 0
    BY DEF RouterIs, RouterTypes
  <1>2. \A x \in ScopeSet : x \in Nat /\ x > 0
    BY <1>1 DEF ScopeSet
  <1>3. 0 \in G
    BY <1>2
  <1>4. ASSUME NEW n \in Nat, n \in G
        PROVE  n + 1 \in G
    <2>1. ASSUME NEW x \in ScopeSet, x <= n + 1
          PROVE  t.chain[x] \in Seq(ScopeSet)
      <3>1. CASE x = 1
        <4>1. t.chain[x] = <<x>>
          BY <3>1 DEF RouterIs, Tree
        <4> QED BY <2>1, <4>1
      <3>2. CASE x # 1
        <4>1. PICK w \in 1..(x - 1) : w = t.within[x] /\ t.chain[x] = Append(t.chain[w], x)
          BY <2>1, <3>2 DEF RouterIs, Tree
        <4>2. w \in ScopeSet /\ w <= n
          BY <1>1, <2>1, <4>1 DEF ScopeSet
        <4>3. t.chain[w] \in Seq(ScopeSet)
          BY <1>4, <4>2
        <4> QED BY <2>1, <4>1, <4>3, AppendProperties
      <3> QED BY <3>1, <3>2
    <2> QED BY <2>1
  <1>5. N \in G
    <2> HIDE DEF G
    <2> QED BY <1>1, <1>3, <1>4, UpFromZero
  <1> QED BY <1>1, <1>5 DEF ScopeSet

LEMMA ScopeUses ==
  ASSUME NEW t, RouterIs(t), NEW s \in ScopeSet
  PROVE  /\ uses[s] \in Seq(Nat) /\ s \in Nat /\ t.chain[s] \in Seq(Nat)
         /\ \A k \in 1..Len(t.chain[s]) : uses[t.chain[s][k]] \in Seq(Nat)
  <1>1. \A x \in ScopeSet : uses[x] \in Seq(Nat)
    BY DEF RouterIs, RouterTypes, ScopeSet
  <1>2. PICK c \in Seq(ScopeSet) : c = t.chain[s]
    BY ChainIn
  <1>3. \A k \in 1..Len(c) : c[k] \in ScopeSet
    BY <1>2
  <1>4. s \in Nat
    BY DEF RouterIs, RouterTypes, ScopeSet
  <1>5. t.chain[s] \in Seq(Nat)
    BY DEF RouterIs, Tree
  <1> QED BY <1>1, <1>2, <1>3, <1>4, <1>5

(* A router's handlers run in what its scope and those around it have.      *)
LEMMA WrappedRight ==
  ASSUME NEW t, RouterIs(t), NEW r \in PlaceSet
  PROVE  Chain[r] = Wrapped(t, t.of[r])
  <1> DEFINE G == {n \in Nat : \A q \in PlaceSet : q <= n => Chain[q] = Wrapped(t, t.of[q])}
  <1>1. PICK N \in Nat : N = Len(place) /\ N > 0
    BY DEF RouterIs, RouterTypes
  <1>2. \A q \in PlaceSet : q \in Nat /\ q > 0
    BY <1>1 DEF PlaceSet
  <1>3. 0 \in G
    BY <1>2
  <1>4. ASSUME NEW q \in PlaceSet, \A w \in PlaceSet : w < q => Chain[w] = Wrapped(t, t.of[w])
        PROVE  Chain[q] = Wrapped(t, t.of[q])
    <2>1. PICK w : w = place[q].parent
      OBVIOUS
    <2>2. PICK s \in ScopeSet : s = t.of[q]
      BY ScopeOf
    <2>3. Chain[q] = Chain[w] \o uses[s]
      <3>1. place[q].mws = uses[s]
        BY <2>2 DEF RouterIs, PlacesRight, PlaceRight
      <3> QED BY <2>1, <3>1, ChainIs
    <2>4. s = 1 <=> q = 1
      BY <2>2 DEF RouterIs, PlacesRight, PlaceRight
    <2>5. CASE q = 1
      <3>1. w = 0 /\ Chain[w] = <<>>
        <4>1. w = 0
          BY <2>1, <2>5 DEF RouterIs, PlacesRight, PlaceRight
        <4> QED BY <4>1, ChainIs
      <3>2. t.chain[s] = <<1>>
        BY <2>4, <2>5 DEF RouterIs, Tree
      <3>3. PICK u \in Seq(Nat) : u = uses[s]
        BY <2>2, ScopeUses
      <3>4. PICK e \in Seq(Seq(Nat)) : e = <<>>
        BY EmptySeq
      <3>5. [k \in DOMAIN t.chain[s] |-> uses[t.chain[s][k]]] = <<u>>
        <4>1. PICK c : c = t.chain[s]
          OBVIOUS
        <4>2. DOMAIN c = {1} /\ c[1] = 1
          BY <3>2, <4>1
        <4>3. [k \in DOMAIN c |-> uses[c[k]]] = [k \in {1} |-> u]
          BY <2>4, <2>5, <3>3, <4>2
        <4>4. <<u>> = [k \in {1} |-> u]
          <5>1. PICK o : o = <<u>>
            OBVIOUS
          <5>2. DOMAIN o = {1} /\ o[1] = u /\ o = [k \in DOMAIN o |-> o[k]]
            BY <5>1
          <5> QED BY <5>1, <5>2
        <4> QED BY <4>1, <4>3, <4>4
      <3>6. Append(e, u) = <<u>>
        BY <3>4
      <3>7. FlattenSeq(e) = e
        BY <3>4 DEF FlattenSeq
      <3>8. FlattenSeq(Append(e, u)) = e \o u
        BY <3>3, <3>7, FlattenMore
      <3>9. Wrapped(t, s) = e \o u
        BY <3>5, <3>6, <3>8 DEF Wrapped
      <3> QED BY <2>2, <2>3, <3>1, <3>3, <3>4, <3>9
    <2>6. CASE q # 1
      <3>1. w \in 1..(q - 1) /\ t.of[w] = t.within[s]
        BY <2>1, <2>2, <2>6 DEF RouterIs, PlacesRight, PlaceRight
      <3>2. w \in PlaceSet /\ w < q
        BY <1>1, <3>1 DEF PlaceSet
      <3>3. PICK v \in ScopeSet : v = t.of[w]
        BY <3>2, ScopeOf
      <3>4. t.chain[s] = Append(t.chain[v], s)
        BY <2>2, <2>4, <2>6, <3>1, <3>3 DEF RouterIs, Tree
      <3>5. PICK c \in Seq(Nat) : c = t.chain[v] /\ \A k \in 1..Len(c) : uses[c[k]] \in Seq(Nat)
        BY <3>3, ScopeUses
      <3>6. PICK m : m = [k \in DOMAIN c |-> uses[c[k]]]
        OBVIOUS
      <3>7. s \in Nat /\ uses[s] \in Seq(Nat)
        BY <2>2, ScopeUses
      <3>8. m \in Seq(Seq(Nat)) /\ [k \in DOMAIN Append(c, s) |-> uses[Append(c, s)[k]]] = Append(m, uses[s])
        BY <3>5, <3>6, <3>7, MapMore
      <3>9. FlattenSeq(Append(m, uses[s])) = FlattenSeq(m) \o uses[s]
        BY <3>7, <3>8, FlattenMore
      <3>10. Wrapped(t, s) = FlattenSeq(m) \o uses[s]
        BY <3>4, <3>5, <3>8, <3>9 DEF Wrapped
      <3>11. Wrapped(t, v) = FlattenSeq(m)
        BY <3>5, <3>6 DEF Wrapped
      <3>12. Chain[w] = Wrapped(t, v)
        BY <1>4, <3>2, <3>3
      <3> QED BY <2>2, <2>3, <3>10, <3>11, <3>12
    <2> QED BY <2>5, <2>6
  <1>5. ASSUME NEW n \in Nat, n \in G
        PROVE  n + 1 \in G
    <2>1. ASSUME NEW q \in PlaceSet, q <= n + 1
          PROVE  Chain[q] = Wrapped(t, t.of[q])
      <3>1. \A w \in PlaceSet : w < q => w <= n
        BY <1>2, <2>1
      <3> QED BY <1>4, <1>5, <3>1
    <2> QED BY <2>1
  <1>6. N \in G
    <2> HIDE DEF G
    <2> QED BY <1>1, <1>3, <1>5, UpFromZero
  <1> QED BY <1>1, <1>6 DEF PlaceSet

LEMMA RootIs ==
  ASSUME NEW t, RouterIs(t)
  PROVE  /\ 1 \in PlaceSet /\ 1 \in ScopeSet /\ t.of[1] = 1 /\ t.path[1] = <<>> /\ t.kind[1] = "root"
         /\ \A q \in PlaceSet : t.of[q] = 1 => q = 1
  <1>1. 1 \in PlaceSet /\ 1 \in ScopeSet
    BY DEF RouterIs, RouterTypes, PlaceSet, ScopeSet
  <1>2. \A q \in PlaceSet : t.of[q] = 1 <=> q = 1
    BY DEF RouterIs, PlacesRight, PlaceRight
  <1> QED BY <1>1, <1>2 DEF RouterIs, Tree

LEMMA OneName ==
  ASSUME NEW name, NEW path \in Seq(Names)
  PROVE  path = Append(<<>>, name) <=> Len(path) = 1 /\ path[1] = name
  <1>1. Append(<<>>, name) = <<name>>
    OBVIOUS
  <1>2. Len(path) = 1 => path = <<path[1]>>
    OBVIOUS
  <1>3. Len(<<name>>) = 1 /\ <<name>>[1] = name
    OBVIOUS
  <1> QED BY <1>1, <1>2, <1>3

LEMMA FoundFromRoot ==
  ASSUME NEW t, RouterIs(t), NEW kind \in {"command", "autocomplete"}, NEW path \in Paths,
         findHandler(kind, 1, path) # Nobody
  PROVE  HitRight(t, kind, path, findHandler(kind, 1, path))
  <1>1. HitRight(t, kind, t.path[t.of[1]] \o path, findHandler(kind, 1, path))
    BY RootIs, FindsRight
  <1>2. t.path[t.of[1]] \o path = path
    BY RootIs, PathsAre, ConcatEmptySeq
  <1> QED BY <1>1, <1>2

LEMMA EachFound ==
  ASSUME NEW t, RouterIs(t), Len(open) = 1, NEW i \in 1..Len(routes),
         routes[i].kind \in {"command", "autocomplete"}, routes[i].path \in Paths
  PROVE  findHandler(routes[i].kind, 1, routes[i].path) # Nobody
  <1>1. PICK kind, path : kind = routes[i].kind /\ path = routes[i].path
    OBVIOUS
  <1>2. kind # "component" /\ path \in Paths
    BY <1>1
  <1>3. PICK q \in PlaceSet : ServedAt(t, routes[i], q)
    BY DEF RouterIs, Served
  <1>4. PICK name \in DOMAIN NodesOf(q) :
            path = Append(t.path[t.of[q]], name) /\ Serves(NodesOf(q)[name], kind)
    BY <1>1, <1>3 DEF ServedAt
  <1>5. name \in Names
    <2>1. place[q].nodes \in 0..Len(nodes) /\ RouterTypes
      BY DEF RouterIs, PlacesRight, PlaceRight
    <2> QED BY <1>4, <2>1, NodesIn
  <1>6. PICK s \in ScopeSet : s = t.of[q] /\ t.path[s] \in Seq(Names)
    BY ScopeOf
  <1>7. PICK b \in PlaceSet, c \in PlaceSet :
            t.of[b] = Base(t, s) /\ c \in Around(b) /\ t.of[c] = s /\ NodesOf(c) = NodesOf(q)
    <2>1. \E b \in PlaceSet, c \in PlaceSet :
              t.of[b] = Base(t, t.of[q]) /\ c \in Around(b) /\ t.of[c] = t.of[q] /\ NodesOf(c) = NodesOf(q)
      BY LookedFor
    <2> QED BY <1>6, <2>1
  <1>8. PICK e \in Seq(Names) : e = <<>> /\ Len(e) = 0
    BY EmptySeq
  <1>9. PICK p \in Seq(Names) : p[1] = name /\ Len(p) = 1 /\ t.path[s] \o p = path
    <2>1. PICK u \in Seq(Names) : u = t.path[s]
      BY <1>6
    <2>2. PICK l \in Seq(Names) : /\ l[1] = name /\ Tail(l) = e /\ Len(l) = Len(e) + 1 /\ l # <<>>
                                  /\ u \o l = Append(u, name) \o e
      BY <1>5, <2>1, Prepended
    <2>3. Append(u, name) \o e = Append(u, name)
      BY <1>5, <1>8, <2>1, AppendProperties, ConcatEmptySeq
    <2>4. path = Append(u, name)
      BY <1>4, <1>6, <2>1
    <2>5. t.path[s] \o l = path
      BY <2>1, <2>2, <2>3, <2>4
    <2>6. l \in Seq(Names) /\ l[1] = name /\ Len(l) = 1
      BY <1>8, <2>2
    <2> QED BY <2>5, <2>6, Zenon
  <1>10. p \in Paths
    <2>1. 1 \in 1..MaxDepth
      <3>1. PICK d \in Nat : d <= MaxDepth /\ (d > 1 \/ d = 1)
        BY <1>2, PathLen
      <3> QED BY <3>1, RouterAssumption
    <2> QED BY <1>9, <2>1, PathsAre
  <1>11. NodesOf(c)[name].kind = "command" /\ HandlerOf(NodesOf(c)[name], kind) # 0
    BY <1>2, <1>4, <1>7 DEF Serves
  <1>12. OwnFind(kind, c, p) = [router |-> c, handler |-> HandlerOf(NodesOf(c)[name], kind)]
    <2>1. ~(Len(p) > 1) /\ "sub" # "command"
      BY <1>9
    <2> QED BY <1>4, <1>7, <1>9, <1>10, <1>11, <2>1, OwnIs
  <1>13. OwnFind(kind, c, p) # Nobody
    BY <1>11, <1>12 DEF Nobody
  <1>14. findHandler(kind, b, p) # Nobody
    <2>1. place \in Seq(Routers)
      BY DEF RouterIs, RouterTypes
    <2> QED BY <1>7, <1>10, <1>13, <2>1, FindStep
  <1>15. findHandler(kind, 1, t.path[s] \o p) # Nobody
    BY <1>2, <1>7, <1>9, <1>10, <1>14, Climbs
  <1> QED BY <1>1, <1>9, <1>15

Mine(kind, path) == {i \in DOMAIN routes : routes[i].kind = kind /\ routes[i].path = path}

LEMMA ComponentHits ==
  ASSUME NEW t, RouterIs(t), NEW path \in Paths
  PROVE  LET hit == HandleInteraction("component", path) IN
         IF Mine("component", path) = {} THEN hit = Nobody ELSE HitRight(t, "component", path, hit)
  <1>1. PICK name, hit : name = path[1] /\ hit = HandleInteraction("component", path)
    OBVIOUS
  <1>2. hit = IF Len(path) = 1 /\ name \in DOMAIN NodesOf(1) /\ NodesOf(1)[name].kind = "component"
              THEN [router |-> 1, handler |-> NodesOf(1)[name].handler] ELSE Nobody
    BY <1>1 DEF HandleInteraction, handleComponent
  <1>3. CASE Len(path) = 1 /\ name \in DOMAIN NodesOf(1) /\ NodesOf(1)[name].kind = "component"
    <2>1. PICK h : h = NodesOf(1)[name].handler
      OBVIOUS
    <2>2. NodeRight(t, NodesOf(1)[name], name, 1)
      BY <1>3, NodeIs, RootIs
    <2>3. RouteAt(t, h, "component", name, 1)
      BY <1>3, <2>1, <2>2 DEF NodeRight
    <2>4. hit.router = 1 /\ hit.handler = h
      BY <1>2, <1>3, <2>1
    <2>5. path = Append(t.path[1], name)
      BY <1>1, <1>3, PathsAre, OneName, RootIs
    <2>6. HitRight(t, "component", path, hit)
      BY <2>3, <2>4, <2>5, RootIs DEF RouteAt, HitRight
    <2>7. h \in Mine("component", path)
      <3>1. DOMAIN routes = 1..Len(routes)
        BY DEF RouterIs, RouterTypes
      <3> QED BY <2>3, <2>5, <3>1 DEF RouteAt, Mine
    <2> QED BY <1>1, <2>6, <2>7
  <1>4. CASE ~(Len(path) = 1 /\ name \in DOMAIN NodesOf(1) /\ NodesOf(1)[name].kind = "component")
    <2>1. hit = Nobody
      BY <1>2, <1>4
    <2>2. ASSUME NEW i \in Mine("component", path)
          PROVE  FALSE
      <3>1. i \in 1..Len(routes) /\ routes[i].kind = "component" /\ routes[i].path = path
        BY <2>2 DEF Mine, RouterIs, RouterTypes
      <3>2. PICK q \in PlaceSet : ServedAt(t, routes[i], q)
        BY <3>1 DEF RouterIs, Served
      <3>3. PICK n \in DOMAIN NodesOf(q) :
                path = Append(t.path[t.of[q]], n) /\ NodesOf(q)[n].kind = "component"
        BY <3>1, <3>2 DEF ServedAt, Serves
      <3>4. t.of[q] = 1
        BY <3>3, NodeIs DEF NodeRight
      <3>5. q = 1 /\ path = Append(<<>>, n)
        BY <3>3, <3>4, RootIs
      <3> QED BY <1>1, <1>4, <3>3, <3>5, OneName, PathsAre
    <2> QED BY <1>1, <2>1, <2>2
  <1> QED BY <1>3, <1>4

LEMMA RoutedRight ==
  ASSUME NEW t, RouterIs(t)
  PROVE  RoutesRight
  <1> SUFFICES ASSUME Len(open) = 1, NEW kind \in Kinds, NEW path \in Paths
               PROVE  LET hit == HandleInteraction(kind, path) IN
                      IF Mine(kind, path) = {} THEN hit = Nobody
                      ELSE /\ hit.handler \in Mine(kind, path)
                           /\ callHandler(hit.router) =
                                  FlattenSeq([k \in DOMAIN routes[hit.handler].scopes |->
                                                 uses[routes[hit.handler].scopes[k]]])
    BY DEF RoutesRight, Mine
  <1>1. PICK hit : hit = HandleInteraction(kind, path)
    OBVIOUS
  <1>2. DOMAIN routes = 1..Len(routes)
    BY DEF RouterIs, RouterTypes
  <1>3. IF Mine(kind, path) = {} THEN hit = Nobody ELSE HitRight(t, kind, path, hit)
    <2>1. CASE kind = "component"
      BY <1>1, <2>1, ComponentHits
    <2>2. CASE kind \in {"command", "autocomplete"}
      <3>1. hit = findHandler(kind, 1, path)
        BY <1>1, <2>2 DEF HandleInteraction, findCommandHandler, findAutocompleter
      <3>2. hit # Nobody => HitRight(t, kind, path, hit)
        BY <2>2, <3>1, FoundFromRoot
      <3>3. HitRight(t, kind, path, hit) => hit.handler \in Mine(kind, path)
        BY <1>2 DEF HitRight, Mine
      <3>4. ASSUME NEW i \in Mine(kind, path)
            PROVE  hit # Nobody
        <4>1. i \in 1..Len(routes) /\ routes[i].kind = kind /\ routes[i].path = path
          BY <1>2 DEF Mine
        <4> QED BY <2>2, <3>1, <4>1, EachFound
      <3> QED BY <3>2, <3>3, <3>4
    <2> QED BY <2>1, <2>2 DEF Kinds
  <1>4. ASSUME HitRight(t, kind, path, hit)
        PROVE  /\ hit.handler \in Mine(kind, path)
               /\ callHandler(hit.router) =
                      FlattenSeq([k \in DOMAIN routes[hit.handler].scopes |->
                                     uses[routes[hit.handler].scopes[k]]])
    <2>1. hit.handler \in Mine(kind, path)
      BY <1>2, <1>4 DEF HitRight, Mine
    <2>2. PICK r \in PlaceSet : r = hit.router
      BY <1>4 DEF HitRight
    <2>3. routes[hit.handler].scopes = t.chain[t.of[r]]
      BY <1>4, <2>2 DEF HitRight
    <2>4. callHandler(r) = Wrapped(t, t.of[r])
      BY CalledIs, WrappedRight
    <2> QED BY <2>1, <2>2, <2>3, <2>4 DEF Wrapped
  <1> QED BY <1>1, <1>3, <1>4
-----------------------------------------------------------------------------
(* What an operation does to the router it works on, and to no other.       *)
LEMMA NodesAfter ==
  ASSUME NEW t, RouterIs(t), NEW r \in PlaceSet, Opening(t.of[r]), NEW new \in NodeMaps,
         nodes' = IF place[r].nodes = 0 THEN Append(nodes, new)
                  ELSE [nodes EXCEPT ![place[r].nodes] = new],
         \A q \in PlaceSet : place'[q].nodes = IF q = r THEN MapOf(r) ELSE place[q].nodes
  PROVE  /\ nodes' \in Seq(NodeMaps) /\ place'[r].nodes # 0
         /\ \A q \in PlaceSet : /\ place'[q].nodes \in 0..Len(nodes')
                                /\ NodesOf(q)' = IF q = r THEN new ELSE NodesOf(q)
         /\ \A p, q \in PlaceSet :
                t.of[p] = t.of[q] => \/ p = q
                                     \/ /\ t.kind[t.of[q]] = "group" /\ ~Opening(t.of[q])
                                        /\ place'[p].nodes = place'[q].nodes
         /\ \A p, q \in PlaceSet :
                place'[p].nodes = place'[q].nodes /\ place'[p].nodes # 0 => t.of[p] = t.of[q]
  <1>1. PICK N \in Nat : N = Len(nodes) /\ nodes \in Seq(NodeMaps)
    <2>1. nodes \in Seq(NodeMaps)
      BY DEF RouterIs, RouterTypes
    <2> QED BY <2>1, LenProperties
  <1>2. PICK m \in 0..N : m = place[r].nodes
    BY <1>1 DEF RouterIs, PlacesRight, PlaceRight
  <1>3. PICK k \in Nat : k = MapOf(r) /\ k = IF m = 0 THEN N + 1 ELSE m
    BY <1>1, <1>2 DEF MapOf
  <1>4. /\ nodes' \in Seq(NodeMaps) /\ Len(nodes') >= N /\ k \in 1..Len(nodes') /\ nodes'[k] = new
        /\ \A j \in 1..N : j # k => nodes'[j] = nodes[j]
    <2>1. CASE m = 0
      <3>1. nodes' = Append(nodes, new) /\ k = N + 1
        BY <1>2, <1>3, <2>1
      <3>2. nodes' \in Seq(NodeMaps) /\ Len(nodes') = N + 1 /\ nodes'[N + 1] = new /\ \A j \in 1..N : nodes'[j] = nodes[j]
        BY <1>1, <3>1, AppendProperties
      <3> QED BY <3>1, <3>2
    <2>2. CASE m # 0
      <3>1. nodes' = [nodes EXCEPT ![m] = new] /\ k = m /\ m \in 1..N
        BY <1>2, <1>3, <2>2
      <3>2. nodes' \in Seq(NodeMaps) /\ Len(nodes') = N /\ nodes'[m] = new /\ \A j \in 1..N : j # m => nodes'[j] = nodes[j]
        <4>1. PICK f : f = nodes'
          OBVIOUS
        <4>2. nodes \in [1..N -> NodeMaps]
          BY <1>1, LenProperties
        <4>3. f \in [1..N -> NodeMaps] /\ f[m] = new /\ \A j \in 1..N : j # m => f[j] = nodes[j]
          BY <3>1, <4>1, <4>2
        <4>4. f \in Seq(NodeMaps) /\ Len(f) = N
          BY <4>3
        <4> QED BY <4>1, <4>3, <4>4
      <3> QED BY <3>1, <3>2
    <2> QED BY <2>1, <2>2
  <1>5. \A q \in PlaceSet : t.of[q] = t.of[r] => q = r
    BY DEF RouterIs, PlacesRight
  <1>6. \A q \in PlaceSet : place[q].nodes \in 0..N
    BY <1>1 DEF RouterIs, PlacesRight, PlaceRight
  <1>7. ASSUME NEW q \in PlaceSet, q # r
        PROVE  place[q].nodes # k
    <2>1. CASE m = 0
      BY <1>3, <1>6, <2>1
    <2>2. CASE m # 0
      <3>1. place[q].nodes = place[r].nodes => t.of[q] = t.of[r]
        BY <1>2, <2>2 DEF RouterIs, PlacesRight
      <3> QED BY <1>2, <1>3, <1>5, <1>7, <2>2, <3>1
    <2> QED BY <2>1, <2>2
  <1>8. ASSUME NEW q \in PlaceSet
        PROVE  place'[q].nodes \in 0..Len(nodes') /\ NodesOf(q)' = IF q = r THEN new ELSE NodesOf(q)
    <2>1. NodesOf(q)' = IF place'[q].nodes = 0 THEN NoNodes ELSE nodes'[place'[q].nodes]
      BY DEF NodesOf, NoNodes
    <2>2. CASE q = r
      <3>1. place'[q].nodes = k
        BY <1>3, <2>2
      <3> QED BY <1>4, <2>1, <2>2, <3>1
    <2>3. CASE q # r
      <3>1. PICK j \in 0..N : j = place[q].nodes /\ j = place'[q].nodes /\ j # k
        BY <1>6, <1>7, <2>3
      <3>2. j # 0 => nodes'[j] = nodes[j]
        BY <1>4, <3>1
      <3>3. j \in 0..Len(nodes')
        BY <1>4
      <3> QED BY <2>1, <2>3, <3>1, <3>2, <3>3 DEF NodesOf
    <2> QED BY <2>2, <2>3
  <1>9. place'[r].nodes # 0
    BY <1>3, <1>4
  <1>10. ASSUME NEW p \in PlaceSet, NEW q \in PlaceSet, t.of[p] = t.of[q], p # q
         PROVE  /\ t.kind[t.of[q]] = "group" /\ ~Opening(t.of[q])
                /\ place'[p].nodes = place'[q].nodes
    <2>1. /\ t.kind[t.of[q]] = "group" /\ ~Opening(t.of[q])
          /\ place[p].nodes = place[q].nodes
      BY <1>10 DEF RouterIs, PlacesRight
    <2>2. p # r /\ q # r
      BY <1>5, <1>10
    <2> QED BY <2>1, <2>2
  <1>11. ASSUME NEW p \in PlaceSet, NEW q \in PlaceSet, place'[p].nodes = place'[q].nodes, place'[p].nodes # 0
         PROVE  t.of[p] = t.of[q]
    <2>1. CASE p = r \/ q = r
      BY <1>3, <1>7, <1>11, <2>1
    <2>2. CASE p # r /\ q # r
      BY <1>11, <2>2 DEF RouterIs, PlacesRight
    <2> QED BY <2>1, <2>2
  <1> QED BY <1>4, <1>8, <1>9, <1>10, <1>11
MapGrows(new, old) ==
    \A n \in DOMAIN old :
        /\ n \in DOMAIN new /\ new[n].kind = old[n].kind
        /\ old[n].kind = "sub" => new[n].router = old[n].router
        /\ \A kind \in Kinds : Serves(old[n], kind) => Serves(new[n], kind)

LEMMA RouteStays ==
  ASSUME NEW t, NEW i, NEW kind, NEW name, NEW s, RouteAt(t, i, kind, name, s), Len(routes) \in Nat, Len(routes') \in Nat,
         Len(routes') >= Len(routes), \A j \in 1..Len(routes) : routes'[j] = routes[j]
  PROVE  RouteAt(t, i, kind, name, s)'
  BY DEF RouteAt

LEMMA NodeStays ==
  ASSUME NEW t, NEW node, NEW name, NEW s, NodeRight(t, node, name, s),
         routes \in Seq(Routes), routes' \in Seq(Routes),
         Len(routes') >= Len(routes), \A j \in 1..Len(routes) : routes'[j] = routes[j],
         PlaceSet \subseteq PlaceSet'
  PROVE  NodeRight(t, node, name, s)'
  <1>1. Len(routes) \in Nat /\ Len(routes') \in Nat
    BY LenProperties
  <1>2. \A i, kind : RouteAt(t, i, kind, name, s) => RouteAt(t, i, kind, name, s)'
    BY <1>1, RouteStays
  <1> QED BY <1>2 DEF NodeRight

LEMMA Changes ==
  ASSUME NEW t, RouterIs(t), NEW r \in PlaceSet, Opening(t.of[r]), NEW new \in NodeMaps,
         nodes' = IF place[r].nodes = 0 THEN Append(nodes, new)
                  ELSE [nodes EXCEPT ![place[r].nodes] = new],
         place' \in Seq(Routers), Len(place') = Len(place),
         \A q \in PlaceSet : /\ place'[q].nodes = IF q = r THEN MapOf(r) ELSE place[q].nodes
                             /\ place'[q].parent = place[q].parent /\ place'[q].groups = place[q].groups
                             /\ place'[q].mws = uses'[t.of[q]],
         uses' \in Seq(Seq(Nat)), Len(uses') = Len(uses),
         routes' \in Seq(Routes), Len(routes') >= Len(routes), \A i \in 1..Len(routes) : routes'[i] = routes[i],
         MapGrows(new, NodesOf(r)),
         \A name \in DOMAIN new : NodeRight(t, new[name], name, t.of[r])',
         \A i \in 1..Len(routes') : i <= Len(routes) \/ \E name \in DOMAIN new :
             routes'[i].path = Append(t.path[t.of[r]], name) /\ Serves(new[name], routes'[i].kind),
         open' \in Seq(Opened), Len(open') > 0, StackRight(t)',
         \A s \in ScopeSet : Opening(s)' => Opening(s),
         \A s \in ScopeSet : Opening(s) => \/ Opening(s)' \/ t.kind[s] = "group"
             \/ /\ t.within[s] = t.of[r]
                /\ \E name \in DOMAIN new : new[name].kind = "sub" /\ t.of[new[name].router] = s
  PROVE  RouterIs(t)'
  <1>1. PlaceSet' = PlaceSet /\ ScopeSet' = ScopeSet
    BY DEF PlaceSet, ScopeSet
  <1>2. /\ nodes' \in Seq(NodeMaps) /\ place'[r].nodes # 0
        /\ \A q \in PlaceSet : /\ place'[q].nodes \in 0..Len(nodes')
                               /\ NodesOf(q)' = IF q = r THEN new ELSE NodesOf(q)
        /\ \A p, q \in PlaceSet :
               t.of[p] = t.of[q] => \/ p = q
                                    \/ /\ t.kind[t.of[q]] = "group" /\ ~Opening(t.of[q])
                                       /\ place'[p].nodes = place'[q].nodes
        /\ \A p, q \in PlaceSet :
               place'[p].nodes = place'[q].nodes /\ place'[p].nodes # 0 => t.of[p] = t.of[q]
    <2>1. \A q \in PlaceSet : place'[q].nodes = IF q = r THEN MapOf(r) ELSE place[q].nodes
      OBVIOUS
    <2>2. nodes' = IF place[r].nodes = 0 THEN Append(nodes, new)
                   ELSE [nodes EXCEPT ![place[r].nodes] = new]
      OBVIOUS
    <2> QED BY ONLY RouterIs(t), r \in PlaceSet, Opening(t.of[r]), new \in NodeMaps, <2>1, <2>2, NodesAfter
  <1>3. RouterTypes'
    BY <1>2 DEF RouterIs, RouterTypes
  <1>4. Tree(t)'
    BY <1>1 DEF RouterIs, Tree
  <1>5. PlacesRight(t)'
    <2>1. ASSUME NEW q \in PlaceSet PROVE PlaceRight(t, q)'
      <3>1. PlaceRight(t, q)
        BY DEF RouterIs, PlacesRight
      <3>2. q = 1 => place'[q].nodes # 0
        <4>1. q = 1 => place[q].nodes # 0
          BY <3>1 DEF PlaceRight
        <4> QED BY <1>2, <4>1
      <3>3. /\ place'[q].parent = place[q].parent /\ place'[q].groups = place[q].groups
            /\ place'[q].mws = uses'[t.of[q]] /\ place'[q].nodes \in 0..Len(nodes')
        BY <1>2
      <3>4. /\ t.of[q] = 1 <=> q = 1
            /\ q = 1 => place[q].parent = 0
            /\ q # 1 => place[q].parent \in 1..(q - 1) /\ t.of[place[q].parent] = t.within[t.of[q]]
            /\ \A i \in 1..Len(place[q].groups) :
                   /\ place[q].groups[i] \in PlaceSet /\ t.kind[t.of[place[q].groups[i]]] = "group"
                   /\ t.within[t.of[place[q].groups[i]]] = t.of[q]
        BY <3>1 DEF PlaceRight
      <3>5. /\ t.of[q] = 1 <=> q = 1
            /\ q = 1 => place'[q].parent = 0 /\ place'[q].nodes # 0
            /\ q # 1 => place'[q].parent \in 1..(q - 1) /\ t.of[place'[q].parent] = t.within[t.of[q]]
            /\ place'[q].mws = uses'[t.of[q]] /\ place'[q].nodes \in 0..Len(nodes')
        BY <3>2, <3>3, <3>4, Zenon
      <3>6. \A i \in 1..Len(place'[q].groups) :
                /\ place'[q].groups[i] \in PlaceSet' /\ t.kind[t.of[place'[q].groups[i]]] = "group"
                /\ t.within[t.of[place'[q].groups[i]]] = t.of[q]
        <4>1. PICK h : h = place[q].groups /\ h = place'[q].groups
          BY <3>3
        <4>2. \A i \in 1..Len(h) : h[i] \in PlaceSet /\ t.kind[t.of[h[i]]] = "group" /\ t.within[t.of[h[i]]] = t.of[q]
          BY <3>4, <4>1
        <4>3. \A i \in 1..Len(h) : h[i] \in PlaceSet' /\ t.kind[t.of[h[i]]] = "group" /\ t.within[t.of[h[i]]] = t.of[q]
          BY ONLY <1>1, <4>2
        <4> QED BY <4>1, <4>3, Zenon
      <3> QED BY ONLY <3>5, <3>6 DEF PlaceRight
    <2>2. \A s \in ScopeSet : \E q \in PlaceSet : t.of[q] = s
      BY DEF RouterIs, PlacesRight
    <2>3. \A p, q \in PlaceSet :
              t.of[p] = t.of[q] => \/ p = q
                                   \/ /\ t.kind[t.of[q]] = "group" /\ ~Opening(t.of[q])'
                                      /\ place'[p].nodes = place'[q].nodes
      BY <1>2, ScopeOf
    <2> QED BY <1>1, <1>2, <2>1, <2>2, <2>3 DEF PlacesRight
  <1>6. NodesRight(t)'
    <2>1. ASSUME NEW q \in PlaceSet, NEW name \in DOMAIN NodesOf(q)'
          PROVE  NodeRight(t, NodesOf(q)[name], name, t.of[q])'
      <3>1. CASE q = r
        <4>1. NodesOf(q)' = new
          BY <1>2, <3>1
        <4> QED BY <2>1, <3>1, <4>1
      <3>2. CASE q # r
        <4>1. NodesOf(q)' = NodesOf(q)
          BY <1>2, <3>2
        <4>2. PICK node : node = NodesOf(q)[name]
          OBVIOUS
        <4>3. NodeRight(t, node, name, t.of[q])
          BY <2>1, <4>1, <4>2, NodeIs
        <4>4. NodeRight(t, node, name, t.of[q])'
          BY <1>1, <4>3, NodeStays DEF RouterIs, RouterTypes
        <4> QED BY <4>1, <4>2, <4>4
      <3> QED BY <3>1, <3>2
    <2> QED BY <1>1, <2>1 DEF NodesRight
  <1>7. ASSUME NEW q \in PlaceSet, NEW n \in DOMAIN NodesOf(q)
        PROVE  /\ n \in DOMAIN NodesOf(q)' /\ NodesOf(q)'[n].kind = NodesOf(q)[n].kind
               /\ NodesOf(q)[n].kind = "sub" => NodesOf(q)'[n].router = NodesOf(q)[n].router
               /\ \A kind \in Kinds : Serves(NodesOf(q)[n], kind) => Serves(NodesOf(q)'[n], kind)
    <2>1. CASE q = r
      BY <1>2, <2>1 DEF MapGrows
    <2>2. CASE q # r
      BY <1>2, <2>2
    <2> QED BY <2>1, <2>2
  <1>8. ScopesReached(t)'
    <2>1. ASSUME NEW s \in ScopeSet \ {1}
          PROVE  IF t.kind[s] = "group" THEN \E q \in PlaceSet : t.of[q] = t.within[s] /\ GroupAt(t, q, s)'
                 ELSE Opening(s)' \/ \E q \in PlaceSet : t.of[q] = t.within[s] /\ SubAt(t, q, s)'
      <3>1. CASE t.kind[s] = "group"
        <4>1. PICK q \in PlaceSet : t.of[q] = t.within[s] /\ GroupAt(t, q, s)
          BY <3>1 DEF RouterIs, ScopesReached
        <4>2. GroupAt(t, q, s)'
          BY <4>1 DEF GroupAt
        <4> QED BY <3>1, <4>1, <4>2
      <3>2. CASE t.kind[s] # "group" /\ Opening(s)
        <4>1. CASE Opening(s)'
          BY <3>2, <4>1
        <4>2. CASE t.within[s] = t.of[r] /\ \E name \in DOMAIN new : new[name].kind = "sub" /\ t.of[new[name].router] = s
          <5>1. SubAt(t, r, s)'
            BY <1>2, <4>2 DEF SubAt
          <5> QED BY <3>2, <4>2, <5>1
        <4> QED BY <3>2, <4>1, <4>2
      <3>3. CASE t.kind[s] # "group" /\ ~Opening(s)
        <4>1. PICK q \in PlaceSet : t.of[q] = t.within[s] /\ SubAt(t, q, s)
          BY <3>3 DEF RouterIs, ScopesReached
        <4>2. SubAt(t, q, s)'
          <5>1. PICK n \in DOMAIN NodesOf(q) :
                    NodesOf(q)[n].kind = "sub" /\ t.of[NodesOf(q)[n].router] = s
            BY <4>1 DEF SubAt
          <5>2. /\ n \in DOMAIN NodesOf(q)' /\ NodesOf(q)'[n].kind = "sub"
                /\ NodesOf(q)'[n].router = NodesOf(q)[n].router
            BY <1>7, <5>1
          <5> QED BY <5>1, <5>2 DEF SubAt
        <4> QED BY <3>3, <4>1, <4>2
      <3> QED BY <3>1, <3>2, <3>3
    <2> QED BY <1>1, <2>1 DEF ScopesReached
  <1>9. Served(t)'
    <2>1. ASSUME NEW i \in 1..Len(routes')
          PROVE  \E q \in PlaceSet : ServedAt(t, routes[i], q)'
      <3>1. CASE i <= Len(routes)
        <4>1. i \in 1..Len(routes)
          BY <3>1, LenProperties DEF RouterIs, RouterTypes
        <4>2. PICK q \in PlaceSet : ServedAt(t, routes[i], q)
          BY <4>1 DEF RouterIs, Served
        <4>3. routes[i].kind \in Kinds /\ routes'[i] = routes[i]
          <5>1. routes[i] \in Routes
            BY <4>1 DEF RouterIs, RouterTypes
          <5>2. routes[i].kind \in Kinds
            BY <5>1 DEF Routes
          <5> QED BY <4>1, <5>2
        <4>4. ServedAt(t, routes[i], q)'
          BY <1>7, <4>2, <4>3 DEF ServedAt
        <4> QED BY <4>4
      <3>2. CASE ~(i <= Len(routes))
        <4>1. ServedAt(t, routes[i], r)'
          BY <1>2, <3>2 DEF ServedAt
        <4> QED BY <4>1
      <3> QED BY <3>1, <3>2
    <2> QED BY <1>1, <2>1 DEF Served
  <1> QED BY <1>3, <1>4, <1>5, <1>6, <1>8, <1>9 DEF RouterIs

LEMMA HereIs ==
  ASSUME NEW t, RouterIs(t)
  PROVE  /\ Here \in PlaceSet /\ t.of[Here] \in ScopeSet /\ Opening(t.of[Here]) /\ Last(open).scope = t.of[Here]
         /\ Prefix = t.path[t.of[Here]] /\ Prefix \in Seq(Names) /\ Last(open).kind = t.kind[t.of[Here]]
         /\ Scopes = t.chain[t.of[Here]] /\ Scopes \in Seq(Nat)
         /\ place[Here].nodes \in 0..Len(nodes) /\ NodesOf(Here) \in NodeMaps
  <1>1. PICK n \in Nat : n = Len(open) /\ n > 0 /\ DOMAIN open = 1..n
    BY DEF RouterIs, RouterTypes
  <1>2. Last(open) = open[n]
    BY <1>1 DEF Last
  <1>3. PICK o : o = open[n]
    OBVIOUS
  <1>4. /\ o.at \in PlaceSet /\ o.scope \in ScopeSet /\ t.of[o.at] = o.scope
        /\ o.kind = t.kind[o.scope] /\ o.path = t.path[o.scope]
        /\ t.chain[o.scope] = [k \in 1..n |-> open[k].scope]
    <2>1. StackRight(t)
      BY DEF RouterIs
    <2>2. n \in 1..Len(open)
      BY <1>1
    <2> QED BY ONLY <1>3, <2>1, <2>2 DEF StackRight
  <1>5. Opening(o.scope)
    BY <1>1, <1>3 DEF Opening
  <1>6. Scopes = t.chain[o.scope]
    BY <1>1, <1>4 DEF Scopes
  <1>7. t.path[o.scope] \in Seq(Names) /\ t.chain[o.scope] \in Seq(Nat)
    BY <1>4 DEF RouterIs, Tree
  <1>8. place[o.at].nodes \in 0..Len(nodes) /\ NodesOf(o.at) \in NodeMaps
    <2>1. place[o.at].nodes \in 0..Len(nodes) /\ RouterTypes
      BY <1>4 DEF RouterIs, PlacesRight, PlaceRight
    <2> QED BY <1>4, <2>1, NodesIn
  <1> QED BY <1>2, <1>3, <1>4, <1>5, <1>6, <1>7, <1>8 DEF Here, Prefix

LEMMA InitedIs ==
  ASSUME place \in Seq(Routers), Len(nodes) \in Nat, NEW r \in PlaceSet, place' = Inited(r)
  PROVE  /\ place' \in Seq(Routers) /\ Len(place') = Len(place)
         /\ \A q \in PlaceSet : /\ place'[q].nodes = IF q = r THEN MapOf(r) ELSE place[q].nodes
                                /\ place'[q].parent = place[q].parent /\ place'[q].groups = place[q].groups
                                /\ place'[q].mws = place[q].mws
  <1>1. PICK m \in Nat : m = MapOf(r)
    BY PlaceTypes DEF MapOf
  <1>2. PICK x : x = [place[r] EXCEPT !.nodes = m]
    OBVIOUS
  <1>3. place[r] \in Routers
    BY PlaceTypes
  <1>4. x \in Routers /\ x.nodes = m /\ x.parent = place[r].parent /\ x.groups = place[r].groups /\ x.mws = place[r].mws
    BY <1>1, <1>2, <1>3 DEF Routers
  <1>5. place' = [place EXCEPT ![r] = x]
    BY <1>1, <1>2 DEF Inited
  <1>6. PICK f : f = place'
    OBVIOUS
  <1>7. f \in Seq(Routers) /\ Len(f) = Len(place) /\ \A j \in 1..Len(place) : f[j] = IF j = r THEN x ELSE place[j]
    BY <1>4, <1>5, <1>6, ExceptSeq DEF PlaceSet
  <1> QED BY <1>1, <1>4, <1>6, <1>7 DEF PlaceSet

(* A node in place of the one there was, if any, and the map it makes.      *)
Replaces(node, old, name) ==
    name \in DOMAIN old => /\ node.kind = old[name].kind /\ node.kind # "sub"
                           /\ \A kind \in Kinds : Serves(old[name], kind) => Serves(node, kind)
WithNode(new, old, name, node) ==
    /\ DOMAIN new = DOMAIN old \cup {name} /\ new[name] = node
    /\ \A n \in DOMAIN old : n # name => new[n] = old[n]
    /\ MapGrows(new, old)

LEMMA PutIs ==
  ASSUME NEW old \in NodeMaps, NEW r, old = NodesOf(r), NEW name \in Names, NEW node \in NodeTypes,
         nodes' = Put(r, name, node), Replaces(node, old, name)
  PROVE  \E new \in NodeMaps :
             /\ nodes' = IF place[r].nodes = 0 THEN Append(nodes, new)
                         ELSE [nodes EXCEPT ![place[r].nodes] = new]
             /\ WithNode(new, old, name, node)
  <1> DEFINE new == [n \in DOMAIN old \cup {name} |-> IF n = name THEN node ELSE old[n]]
  <1>1. nodes' = IF place[r].nodes = 0 THEN Append(nodes, new) ELSE [nodes EXCEPT ![place[r].nodes] = new]
    BY DEF Put
  <1>2. DOMAIN new = DOMAIN old \cup {name} /\ \A n \in DOMAIN new : new[n] = IF n = name THEN node ELSE old[n]
    OBVIOUS
  <1>3. PICK D \in SUBSET Names : old \in [D -> NodeTypes]
    BY DEF NodeMaps
  <1>4. new \in [D \cup {name} -> NodeTypes]
    BY <1>3
  <1>5. new \in NodeMaps
    <2>1. D \cup {name} \in SUBSET Names
      BY <1>3
    <2> HIDE DEF new
    <2> QED BY <1>4, <2>1 DEF NodeMaps
  <1> HIDE DEF new
  <1>6. MapGrows(new, old)
    BY <1>2 DEF MapGrows, Replaces
  <1>7. WithNode(new, old, name, node)
    BY <1>2, <1>6 DEF WithNode
  <1> QED BY <1>1, <1>5, <1>7

LEMMA StackStays ==
  ASSUME NEW t, RouterIs(t), open' = open, Len(place') = Len(place), Len(uses') = Len(uses)
  PROVE  /\ StackRight(t)' /\ open' \in Seq(Opened) /\ Len(open') > 0
         /\ \A s : Opening(s)' <=> Opening(s)
  <1>1. PlaceSet' = PlaceSet /\ ScopeSet' = ScopeSet
    BY DEF PlaceSet, ScopeSet
  <1>2. StackRight(t)'
    BY <1>1 DEF RouterIs, StackRight
  <1> QED BY <1>2 DEF Opening, RouterIs, RouterTypes

LEMMA RoutesStay ==
  ASSUME routes \in Seq(Routes), routes' = routes
  PROVE  /\ routes' \in Seq(Routes) /\ Len(routes') >= Len(routes)
         /\ \A i \in 1..Len(routes) : routes'[i] = routes[i]
         /\ \A i \in 1..Len(routes') : i <= Len(routes)
  <1>1. Len(routes) \in Nat
    BY LenProperties
  <1> QED BY <1>1

LEMMA RouteAdded ==
  ASSUME NEW t, RouterIs(t), NEW kind \in Kinds, NEW name \in Names, Registered(kind, name)
  PROVE  /\ routes' \in Seq(Routes) /\ Len(routes') = Len(routes) + 1 /\ Len(routes) \in Nat
         /\ \A i \in 1..Len(routes) : routes'[i] = routes[i]
         /\ routes'[Len(routes) + 1].kind = kind
         /\ routes'[Len(routes) + 1].path = Append(t.path[t.of[Here]], name)
         /\ \A i, s : i = Len(routes) + 1 /\ s = t.of[Here] => RouteAt(t, i, kind, name, s)'
  <1>1. PICK n \in Nat : n = Len(routes) /\ routes \in Seq(Routes)
    <2>1. routes \in Seq(Routes)
      BY DEF RouterIs, RouterTypes
    <2> QED BY <2>1, LenProperties
  <1>2. PICK s \in ScopeSet : s = t.of[Here]
    BY HereIs
  <1>3. PICK p \in Seq(Names), c \in Seq(Nat) : p = t.path[s] /\ c = t.chain[s] /\ p = Prefix /\ c = Scopes
    BY <1>2, HereIs
  <1>4. PICK x : x = [kind |-> kind, path |-> Append(p, name), scopes |-> c]
    OBVIOUS
  <1>5. x \in Routes /\ x.kind = kind /\ x.path = Append(p, name) /\ x.scopes = c
    BY <1>3, <1>4, AppendProperties DEF Routes
  <1>6. PICK f : f = routes'
    OBVIOUS
  <1>7. f = Append(routes, x)
    BY <1>3, <1>4, <1>6 DEF Registered
  <1>8. f \in Seq(Routes) /\ Len(f) = n + 1 /\ f[n + 1] = x /\ \A i \in 1..n : f[i] = routes[i]
    BY <1>1, <1>5, <1>7, AppendProperties
  <1>9. RouteAt(t, n + 1, kind, name, s)'
    BY <1>3, <1>5, <1>6, <1>8 DEF RouteAt
  <1> QED BY <1>1, <1>2, <1>3, <1>5, <1>6, <1>8, <1>9

(* Registering a handler in the router at hand.                             *)
LEMMA HandlerKeeps ==
  ASSUME NEW t, RouterIs(t), NEW r \in PlaceSet, r = Here,
         NEW kind \in Kinds, NEW name \in Names, NEW node \in NodeTypes,
         nodes' = Put(r, name, node), Replaces(node, NodesOf(r), name),
         Registered(kind, name), place' = Inited(r), open' = open, uses' = uses,
         Serves(node, kind), NodeRight(t, node, name, t.of[r])'
  PROVE  RouterIs(t)'
  <1>2. PICK old \in NodeMaps : old = NodesOf(r)
    BY HereIs
  <1>3. PICK new \in NodeMaps :
            /\ nodes' = IF place[r].nodes = 0 THEN Append(nodes, new)
                        ELSE [nodes EXCEPT ![place[r].nodes] = new]
            /\ WithNode(new, old, name, node)
    BY <1>2, PutIs
  <1>4. /\ place \in Seq(Routers) /\ routes \in Seq(Routes) /\ nodes \in Seq(NodeMaps)
        /\ uses \in Seq(Seq(Nat)) /\ Opening(t.of[r])
    BY HereIs DEF RouterIs, RouterTypes
  <1>5. /\ place' \in Seq(Routers) /\ Len(place') = Len(place)
        /\ \A q \in PlaceSet : /\ place'[q].nodes = IF q = r THEN MapOf(r) ELSE place[q].nodes
                               /\ place'[q].parent = place[q].parent /\ place'[q].groups = place[q].groups
                               /\ place'[q].mws = place[q].mws
    <2>1. Len(nodes) \in Nat
      BY <1>4, LenProperties
    <2> QED BY <1>4, <2>1, InitedIs
  <1>6. PICK n \in Nat : n = Len(routes)
    BY <1>4, LenProperties
  <1>7. /\ routes' \in Seq(Routes) /\ Len(routes') = n + 1
        /\ \A i \in 1..n : routes'[i] = routes[i]
        /\ routes'[n + 1].kind = kind /\ routes'[n + 1].path = Append(t.path[t.of[r]], name)
    BY <1>6, RouteAdded
  <1>8. \A q \in PlaceSet : place'[q].mws = uses'[t.of[q]]
    BY <1>5 DEF RouterIs, PlacesRight, PlaceRight
  <1>9. /\ StackRight(t)' /\ open' \in Seq(Opened) /\ Len(open') > 0
        /\ \A s : Opening(s)' <=> Opening(s)
    BY <1>5, StackStays
  <1>10. ASSUME NEW m \in DOMAIN new
         PROVE  NodeRight(t, new[m], m, t.of[r])'
    <2>1. CASE m = name
      <3>1. new[m] = node
        BY <1>3, <2>1 DEF WithNode
      <3> QED BY <2>1, <3>1
    <2>2. CASE m # name
      <3>1. m \in DOMAIN NodesOf(r) /\ new[m] = NodesOf(r)[m]
        BY <1>2, <1>3, <1>10, <2>2 DEF WithNode
      <3>2. PICK x : x = NodesOf(r)[m]
        OBVIOUS
      <3>3. NodeRight(t, x, m, t.of[r])
        BY <3>1, <3>2, NodeIs
      <3>4. PlaceSet \subseteq PlaceSet'
        BY <1>5 DEF PlaceSet
      <3>5. NodeRight(t, x, m, t.of[r])'
        <4>1. Len(routes') >= Len(routes) /\ \A j \in 1..Len(routes) : routes'[j] = routes[j]
          BY <1>6, <1>7
        <4> QED BY <1>4, <1>7, <3>3, <3>4, <4>1, NodeStays
      <3> QED BY <3>1, <3>2, <3>5
    <2> QED BY <2>1, <2>2
  <1>11. ASSUME NEW i \in 1..Len(routes')
         PROVE  i <= Len(routes) \/ \E m \in DOMAIN new :
                    routes'[i].path = Append(t.path[t.of[r]], m) /\ Serves(new[m], routes'[i].kind)
    <2>1. i <= n \/ i = n + 1
      BY <1>7
    <2>2. name \in DOMAIN new /\ new[name] = node
      BY <1>3 DEF WithNode
    <2> QED BY <1>6, <1>7, <2>1, <2>2
  <1>12. Len(routes') >= Len(routes) /\ \A i \in 1..Len(routes) : routes'[i] = routes[i]
    BY <1>6, <1>7
  <1>13. \A q \in PlaceSet : /\ place'[q].nodes = IF q = r THEN MapOf(r) ELSE place[q].nodes
                             /\ place'[q].parent = place[q].parent /\ place'[q].groups = place[q].groups
                             /\ place'[q].mws = uses'[t.of[q]]
    BY <1>5, <1>8
  <1>14. MapGrows(new, NodesOf(r))
    BY <1>2, <1>3 DEF WithNode
  <1> QED BY <1>3, <1>4, <1>5, <1>7, <1>9, <1>10, <1>11, <1>12, <1>13, <1>14, Changes

LEMMA InitedAlready ==
  ASSUME place \in Seq(Routers), NEW r \in PlaceSet, place[r].nodes # 0, place' = place
  PROVE  place' = Inited(r)
  <1>1. PICK x : x = place[r]
    OBVIOUS
  <1>2. x \in Routers
    BY <1>1, PlaceTypes
  <1>3. [x EXCEPT !.nodes = x.nodes] = x
    BY <1>2 DEF Routers
  <1>4. [place EXCEPT ![r].nodes = place[r].nodes] = [place EXCEPT ![r] = [x EXCEPT !.nodes = x.nodes]]
    BY <1>1
  <1>5. [place EXCEPT ![r] = place[r]] = place
    OBVIOUS
  <1>6. Inited(r) = [place EXCEPT ![r].nodes = place[r].nodes]
    BY DEF Inited, MapOf
  <1> QED BY <1>1, <1>3, <1>4, <1>5, <1>6

LEMMA AddCommandKeeps ==
  ASSUME NEW t, RouterIs(t), NEW name \in Names, AddCommand(name)
  PROVE  RouterIs(t)'
  <1>1. PICK r \in PlaceSet : r = Here
    BY HereIs
  <1>2. PICK n \in Nat : n = Len(routes)
    BY LenProperties DEF RouterIs, RouterTypes
  <1>3. PICK node : node = [kind |-> "command", handler |-> n + 1, autocomplete |-> 0]
    OBVIOUS
  <1>4. node \in NodeTypes /\ node.kind = "command" /\ node.handler = n + 1 /\ node.autocomplete = 0
    BY <1>3 DEF NodeTypes, CommandNodes
  <1>5. /\ name \notin DOMAIN NodesOf(r) /\ nodes' = Put(r, name, node) /\ place' = Inited(r)
        /\ Registered("command", name) /\ open' = open /\ uses' = uses
    BY <1>1, <1>2, <1>3 DEF AddCommand, add
  <1>6. "command" \in Kinds
    BY DEF Kinds
  <1>7. RouteAt(t, n + 1, "command", name, t.of[r])'
    BY <1>1, <1>2, <1>5, <1>6, RouteAdded
  <1>8. NodeRight(t, node, name, t.of[r])'
    BY <1>4, <1>7 DEF NodeRight
  <1>9. Serves(node, "command")
    BY <1>4 DEF Serves, HandlerOf
  <1>10. Replaces(node, NodesOf(r), name)
    BY <1>5 DEF Replaces
  <1> QED BY <1>1, <1>4, <1>5, <1>6, <1>8, <1>9, <1>10, HandlerKeeps

LEMMA AddAutocompleterKeeps ==
  ASSUME NEW t, RouterIs(t), NEW name \in Names, AddAutocompleter(name)
  PROVE  RouterIs(t)'
  <1>1. PICK r \in PlaceSet : r = Here
    BY HereIs
  <1>2. PICK n \in Nat : n = Len(routes) /\ routes \in Seq(Routes)
    <2>1. routes \in Seq(Routes)
      BY DEF RouterIs, RouterTypes
    <2> QED BY <2>1, LenProperties
  <1>3. PICK x : x = NodesOf(r)[name]
    OBVIOUS
  <1>4. /\ name \in DOMAIN NodesOf(r) /\ x.kind = "command" /\ x.autocomplete = 0
        /\ Registered("autocomplete", name) /\ place' = place /\ open' = open /\ uses' = uses
    BY <1>1, <1>3 DEF AddAutocompleter
  <1>5. x \in CommandNodes
    <2>1. PICK old \in NodeMaps : old = NodesOf(r)
      BY <1>1, HereIs
    <2>2. x \in NodeTypes
      BY <1>3, <1>4, <2>1 DEF NodeMaps
    <2> QED BY <1>4, <2>2 DEF NodeTypes, SubNodes, ComponentNodes
  <1>6. PICK node : node = [x EXCEPT !.autocomplete = n + 1]
    OBVIOUS
  <1>7. node \in CommandNodes /\ node.kind = "command" /\ node.handler = x.handler /\ node.autocomplete = n + 1
    BY <1>2, <1>5, <1>6 DEF CommandNodes
  <1>8. nodes' = Put(r, name, node)
    BY <1>1, <1>2, <1>3, <1>6 DEF AddAutocompleter
  <1>9. "autocomplete" \in Kinds
    BY DEF Kinds
  <1>10. RouteAt(t, n + 1, "autocomplete", name, t.of[r])'
    BY <1>1, <1>2, <1>4, <1>9, RouteAdded
  <1>11. RouteAt(t, x.handler, "command", name, t.of[r])'
    <2>1. RouteAt(t, x.handler, "command", name, t.of[r])
      BY <1>3, <1>4, NodeIs DEF NodeRight
    <2>2. PICK h : h = x.handler
      OBVIOUS
    <2>3. Len(routes') = n + 1 /\ \A i \in 1..n : routes'[i] = routes[i]
      BY <1>2, <1>4, <1>9, RouteAdded
    <2>4. RouteAt(t, h, "command", name, t.of[r])'
      BY <1>2, <2>1, <2>2, <2>3, RouteStays
    <2> QED BY <2>2, <2>4
  <1>12. NodeRight(t, node, name, t.of[r])'
    BY <1>7, <1>10, <1>11 DEF NodeRight
  <1>13. Serves(node, "autocomplete")
    BY <1>2, <1>7 DEF Serves, HandlerOf
  <1>14. Replaces(node, NodesOf(r), name)
    BY <1>3, <1>4, <1>7 DEF Replaces, Serves, HandlerOf, Kinds
  <1>15. place' = Inited(r)
    <2>1. place[r].nodes # 0
      BY <1>4 DEF NodesOf, NoNodes
    <2> QED BY <1>4, <2>1, InitedAlready DEF RouterIs, RouterTypes
  <1>16. node \in NodeTypes
    BY <1>7 DEF NodeTypes
  <1> QED BY <1>1, <1>4, <1>8, <1>9, <1>12, <1>13, <1>14, <1>15, <1>16, HandlerKeeps

LEMMA AddComponentKeeps ==
  ASSUME NEW t, RouterIs(t), NEW name \in Names, AddComponent(name)
  PROVE  RouterIs(t)'
  <1>1. 1 \in PlaceSet /\ 1 = Here
    BY RootIs DEF AddComponent
  <1>2. PICK n \in Nat : n = Len(routes)
    BY LenProperties DEF RouterIs, RouterTypes
  <1>3. PICK node : node = [kind |-> "component", handler |-> n + 1]
    OBVIOUS
  <1>4. node \in NodeTypes /\ node.kind = "component" /\ node.handler = n + 1
    BY <1>3 DEF NodeTypes, ComponentNodes
  <1>5. /\ name \notin DOMAIN NodesOf(1) /\ nodes' = Put(1, name, node) /\ place' = place
        /\ Registered("component", name) /\ open' = open /\ uses' = uses
    BY <1>2, <1>3 DEF AddComponent, add
  <1>6. "component" \in Kinds
    BY DEF Kinds
  <1>7. RouteAt(t, n + 1, "component", name, t.of[1])'
    BY <1>1, <1>2, <1>5, <1>6, RouteAdded
  <1>8. NodeRight(t, node, name, t.of[1])'
    BY <1>4, <1>7, RootIs DEF NodeRight
  <1>9. Serves(node, "component")
    BY <1>4 DEF Serves
  <1>10. Replaces(node, NodesOf(1), name)
    BY <1>5 DEF Replaces
  <1>11. place' = Inited(1)
    <2>1. place[1].nodes # 0
      BY <1>1 DEF RouterIs, PlacesRight, PlaceRight
    <2> QED BY <1>1, <1>5, <2>1, InitedAlready DEF RouterIs, RouterTypes
  <1> QED BY <1>1, <1>4, <1>5, <1>6, <1>8, <1>9, <1>10, <1>11, HandlerKeeps

LEMMA UseKeeps ==
  ASSUME NEW t, RouterIs(t), Use
  PROVE  RouterIs(t)'
  <1>1. PICK r \in PlaceSet : r = Here
    BY HereIs
  <1>2. PICK s \in ScopeSet : s = t.of[r] /\ s = Last(open).scope /\ Opening(s)
    BY <1>1, HereIs
  <1>3. /\ place \in Seq(Routers) /\ nodes \in Seq(NodeMaps) /\ uses \in Seq(Seq(Nat)) /\ routes \in Seq(Routes)
        /\ Len(nodes) \in Nat
    <2>1. /\ place \in Seq(Routers) /\ nodes \in Seq(NodeMaps) /\ uses \in Seq(Seq(Nat)) /\ routes \in Seq(Routes)
      BY DEF RouterIs, RouterTypes
    <2> QED BY <2>1, LenProperties
  <1>4. PICK mw \in Nat : mw = Len(FlattenSeq(uses)) + 1
    <2>1. FlattenSeq(uses) \in Seq(Nat)
      BY <1>3, FlatParts
    <2> QED BY <2>1, LenProperties
  <1>5. PICK m \in Nat : m = MapOf(r)
    <2>1. place[r].nodes \in Nat
      BY <1>3, PlaceTypes
    <2> QED BY <1>3, <2>1 DEF MapOf
  <1>6. /\ place' = [Inited(r) EXCEPT ![r].mws = Append(@, mw)]
        /\ nodes' = IF place[r].nodes = 0 THEN Append(nodes, NoNodes) ELSE nodes
        /\ uses' = [uses EXCEPT ![s] = Append(@, mw)]
        /\ open' = open /\ routes' = routes
    BY <1>1, <1>2, <1>4 DEF Use
  <1>7. PICK x : x = [place[r] EXCEPT !.nodes = m, !.mws = Append(place[r].mws, mw)]
    OBVIOUS
  <1>8. /\ x \in Routers /\ x.nodes = m /\ x.parent = place[r].parent /\ x.groups = place[r].groups
        /\ x.mws = Append(place[r].mws, mw)
    <2>1. place[r] \in Routers /\ Append(place[r].mws, mw) \in Seq(Nat)
      BY <1>3, PlaceTypes, AppendProperties
    <2> QED BY <1>5, <1>7, <2>1 DEF Routers
  <1>9. place' = [place EXCEPT ![r] = x]
    <2>1. r \in DOMAIN place /\ place[r] \in Routers
      BY <1>3, PlaceTypes DEF PlaceSet
    <2>2. Inited(r) = [place EXCEPT ![r] = [place[r] EXCEPT !.nodes = m]]
      BY <1>5 DEF Inited
    <2>3. Inited(r)[r] = [place[r] EXCEPT !.nodes = m]
      BY <2>1, <2>2
    <2>4. [Inited(r) EXCEPT ![r].mws = Append(@, mw)] =
              [Inited(r) EXCEPT ![r] = [[place[r] EXCEPT !.nodes = m] EXCEPT !.mws = Append(@, mw)]]
      BY <2>3
    <2>5. [[place[r] EXCEPT !.nodes = m] EXCEPT !.mws = Append(@, mw)] = x
      BY <1>7, <2>1 DEF Routers
    <2> QED BY <1>6, <2>1, <2>2, <2>4, <2>5
  <1>10. /\ place' \in Seq(Routers) /\ Len(place') = Len(place)
         /\ \A q \in PlaceSet : place'[q] = IF q = r THEN x ELSE place[q]
    <2>1. PICK f : f = place'
      OBVIOUS
    <2>2. f \in Seq(Routers) /\ Len(f) = Len(place) /\ \A j \in 1..Len(place) : f[j] = IF j = r THEN x ELSE place[j]
      BY <1>3, <1>8, <1>9, <2>1, ExceptSeq DEF PlaceSet
    <2> QED BY <2>1, <2>2 DEF PlaceSet
  <1>11. /\ uses' \in Seq(Seq(Nat)) /\ Len(uses') = Len(uses)
         /\ \A i \in ScopeSet : uses'[i] = IF i = s THEN Append(uses[s], mw) ELSE uses[i]
    <2>1. PICK f, y : f = uses' /\ y = Append(uses[s], mw)
      OBVIOUS
    <2>2. y \in Seq(Nat)
      <3>1. uses[s] \in Seq(Nat)
        BY <1>3 DEF ScopeSet
      <3> QED BY <2>1, <3>1, AppendProperties
    <2>3. f = [uses EXCEPT ![s] = y]
      BY <1>6, <2>1
    <2>4. f \in Seq(Seq(Nat)) /\ Len(f) = Len(uses) /\ \A j \in 1..Len(uses) : f[j] = IF j = s THEN y ELSE uses[j]
      BY <1>3, <2>2, <2>3, ExceptSeq DEF ScopeSet
    <2> QED BY <2>1, <2>4 DEF ScopeSet
  <1>12. PICK new \in NodeMaps : new = NodesOf(r)
    BY <1>1, HereIs
  <1>13. nodes' = IF place[r].nodes = 0 THEN Append(nodes, new) ELSE [nodes EXCEPT ![place[r].nodes] = new]
    <2>1. CASE place[r].nodes = 0
      BY <1>6, <1>12, <2>1 DEF NodesOf
    <2>2. CASE place[r].nodes # 0
      <3>1. new = nodes[place[r].nodes]
        BY <1>12, <2>2 DEF NodesOf
      <3> QED BY <1>3, <1>6, <2>2, <3>1
    <2> QED BY <2>1, <2>2
  <1>14. ASSUME NEW q \in PlaceSet
         PROVE  /\ place'[q].nodes = IF q = r THEN MapOf(r) ELSE place[q].nodes
                /\ place'[q].parent = place[q].parent /\ place'[q].groups = place[q].groups
                /\ place'[q].mws = uses'[t.of[q]]
    <2>1. place[q].mws = uses[t.of[q]]
      BY DEF RouterIs, PlacesRight, PlaceRight
    <2>2. CASE q = r
      BY <1>2, <1>5, <1>8, <1>10, <1>11, <2>1, <2>2
    <2>3. CASE q # r
      <3>1. t.of[q] # s /\ t.of[q] \in ScopeSet
        <4>1. t.of[q] = t.of[r] => q = r \/ ~Opening(t.of[r])
          BY DEF RouterIs, PlacesRight
        <4> QED BY <1>2, <2>3, <4>1, ScopeOf
      <3> QED BY <1>10, <1>11, <2>1, <2>3, <3>1
    <2> QED BY <2>2, <2>3
  <1>15. MapGrows(new, NodesOf(r))
    BY <1>12 DEF MapGrows
  <1>16. /\ routes' \in Seq(Routes) /\ Len(routes') >= Len(routes)
         /\ \A i \in 1..Len(routes) : routes'[i] = routes[i]
         /\ \A i \in 1..Len(routes') : i <= Len(routes)
    BY <1>3, <1>6, RoutesStay
  <1>17. ASSUME NEW name \in DOMAIN new
         PROVE  NodeRight(t, new[name], name, t.of[r])'
    <2>1. NodeRight(t, new[name], name, t.of[r])
      BY <1>12, NodeIs
    <2>2. PlaceSet \subseteq PlaceSet'
      BY <1>10 DEF PlaceSet
    <2> QED BY <1>3, <1>16, <2>1, <2>2, NodeStays
  <1>18. /\ StackRight(t)' /\ open' \in Seq(Opened) /\ Len(open') > 0
         /\ \A i : Opening(i)' <=> Opening(i)
    BY <1>6, <1>10, <1>11, StackStays
  <1>19. Opening(t.of[r])
    BY <1>2
  <1> QED BY <1>10, <1>11, <1>13, <1>14, <1>15, <1>16, <1>17, <1>18, <1>19, Changes

LEMMA Popped ==
  ASSUME NEW t, RouterIs(t), Len(open) > 1, open' = Front(open), Len(place') = Len(place), Len(uses') = Len(uses)
  PROVE  /\ StackRight(t)' /\ open' \in Seq(Opened) /\ Len(open') > 0
         /\ \A s : Opening(s)' => Opening(s)
         /\ \A s : Opening(s) => Opening(s)' \/ s = Last(open).scope
  <1>1. PICK n \in Nat : n = Len(open) /\ n > 1 /\ open \in Seq(Opened)
    <2>1. open \in Seq(Opened)
      BY DEF RouterIs, RouterTypes
    <2> QED BY <2>1, LenProperties
  <1>2. PICK f : f = open'
    OBVIOUS
  <1>3. f \in Seq(Opened) /\ Len(f) = n - 1 /\ \A i \in 1..(n - 1) : f[i] = open[i]
    <2>1. f = SubSeq(open, 1, n - 1)
      BY <1>1, <1>2 DEF Front
    <2> QED BY <1>1, <2>1, SubSeqProperties
  <1>4. PlaceSet' = PlaceSet /\ ScopeSet' = ScopeSet
    BY DEF PlaceSet, ScopeSet
  <1>5. StackRight(t)'
    <2>1. \A i \in 1..(n - 1) : \A k \in 1..i : f[k] = open[k]
      BY <1>3
    <2>2. f[1].scope = 1
      <3>1. 1 \in 1..(n - 1)
        BY <1>1
      <3> QED BY <1>3, <3>1 DEF RouterIs, StackRight
    <2>3. ASSUME NEW i \in 1..(n - 1)
          PROVE  /\ f[i].at \in PlaceSet /\ f[i].scope \in ScopeSet /\ t.of[f[i].at] = f[i].scope
                 /\ f[i].kind = t.kind[f[i].scope] /\ f[i].path = t.path[f[i].scope]
                 /\ t.chain[f[i].scope] = [k \in 1..i |-> f[k].scope]
      <3>1. i \in 1..Len(open) /\ f[i] = open[i]
        BY <1>1, <1>3
      <3>2. PICK o : o = open[i]
        OBVIOUS
      <3>3. /\ o.at \in PlaceSet /\ o.scope \in ScopeSet /\ t.of[o.at] = o.scope
            /\ o.kind = t.kind[o.scope] /\ o.path = t.path[o.scope]
            /\ t.chain[o.scope] = [k \in 1..i |-> open[k].scope]
        BY <3>1, <3>2 DEF RouterIs, StackRight
      <3>4. [k \in 1..i |-> open[k].scope] = [k \in 1..i |-> f[k].scope]
        BY <2>1
      <3> QED BY <3>1, <3>2, <3>3, <3>4
    <2>4. ASSUME NEW i \in 2..(n - 1)
          PROVE  t.within[f[i].scope] = f[i - 1].scope
      <3>1. i \in 2..Len(open) /\ f[i] = open[i] /\ f[i - 1] = open[i - 1]
        BY <1>1, <1>3
      <3> QED BY <3>1 DEF RouterIs, StackRight
    <2> QED BY <1>2, <1>3, <1>4, <2>2, <2>3, <2>4 DEF StackRight
  <1>6. ASSUME NEW s, Opening(s)'
        PROVE  Opening(s)
    <2>1. PICK i \in 1..(n - 1) : f[i].scope = s
      BY <1>2, <1>3, <1>6 DEF Opening
    <2> QED BY <1>1, <1>3, <2>1 DEF Opening
  <1>7. ASSUME NEW s, Opening(s)
        PROVE  Opening(s)' \/ s = Last(open).scope
    <2>1. PICK i \in 1..n : open[i].scope = s
      BY <1>1, <1>7 DEF Opening
    <2>2. CASE i = n
      BY <1>1, <2>1, <2>2 DEF Last
    <2>3. CASE i # n
      <3>1. i \in 1..(n - 1) /\ f[i].scope = s
        BY <1>3, <2>1, <2>3
      <3> QED BY <1>2, <1>3, <3>1 DEF Opening
    <2> QED BY <2>2, <2>3
  <1>8. Len(f) > 0
    BY <1>1, <1>3
  <1> QED BY <1>2, <1>3, <1>5, <1>6, <1>7, <1>8

LEMMA TopIs ==
  ASSUME NEW t, RouterIs(t), Len(open) > 1
  PROVE  LET s == Last(open).scope
             o == open[Len(open) - 1] IN
         /\ s \in ScopeSet /\ s # 1 /\ Opening(s) /\ Last(open).at \in PlaceSet /\ t.of[Last(open).at] = s
         /\ Last(open).kind = t.kind[s] /\ Last(open).path = t.path[s]
         /\ o.at \in PlaceSet /\ t.of[o.at] = o.scope /\ o.scope = t.within[s] /\ Opening(o.scope)
  <1>1. PICK n \in Nat : n = Len(open) /\ n > 1
    <2>1. Len(open) \in Nat
      BY LenProperties DEF RouterIs, RouterTypes
    <2> QED BY <2>1
  <1>2. PICK o, p : o = open[n] /\ p = open[n - 1]
    OBVIOUS
  <1>3. Last(open) = o
    BY <1>1, <1>2 DEF Last
  <1>4. /\ o.at \in PlaceSet /\ o.scope \in ScopeSet /\ t.of[o.at] = o.scope
        /\ o.kind = t.kind[o.scope] /\ o.path = t.path[o.scope]
        /\ t.chain[o.scope] = [k \in 1..n |-> open[k].scope]
    <2>1. n \in 1..Len(open)
      BY <1>1
    <2> QED BY <1>2, <2>1 DEF RouterIs, StackRight
  <1>5. p.at \in PlaceSet /\ t.of[p.at] = p.scope
    <2>1. n - 1 \in 1..Len(open)
      BY <1>1
    <2> QED BY <1>2, <2>1 DEF RouterIs, StackRight
  <1>6. t.within[o.scope] = p.scope
    <2>1. n \in 2..Len(open)
      BY <1>1
    <2> QED BY <1>2, <2>1 DEF RouterIs, StackRight
  <1>7. o.scope # 1
    <2>1. t.chain[1] = <<1>>
      BY DEF RouterIs, Tree
    <2>2. PICK f : f = [k \in 1..n |-> open[k].scope]
      OBVIOUS
    <2>3. DOMAIN f = 1..n
      BY <2>2
    <2>4. 2 \in 1..n /\ 2 \notin DOMAIN <<1>>
      BY <1>1
    <2> QED BY <1>4, <2>1, <2>2, <2>3, <2>4
  <1>8. Opening(o.scope) /\ Opening(p.scope)
    <2>1. n \in 1..Len(open) /\ n - 1 \in 1..Len(open)
      BY <1>1
    <2> QED BY <1>2, <2>1 DEF Opening
  <1> QED BY <1>1, <1>2, <1>3, <1>4, <1>5, <1>6, <1>7, <1>8

LEMMA LeaveGroupKeeps ==
  ASSUME NEW t, RouterIs(t), LeaveScope, Last(open).kind = "group"
  PROVE  RouterIs(t)'
  <1>1. Len(open) > 1 /\ open' = Front(open) /\ place' = place /\ nodes' = nodes /\ routes' = routes /\ uses' = uses
    BY DEF LeaveScope
  <1>2. /\ StackRight(t)' /\ open' \in Seq(Opened) /\ Len(open') > 0
        /\ \A s : Opening(s)' => Opening(s)
        /\ \A s : Opening(s) => Opening(s)' \/ s = Last(open).scope
    BY <1>1, Popped
  <1>3. /\ PlaceSet' = PlaceSet /\ ScopeSet' = ScopeSet /\ \A q : NodesOf(q)' = NodesOf(q)
        /\ \A i, kind, name, s : RouteAt(t, i, kind, name, s)' <=> RouteAt(t, i, kind, name, s)
    BY <1>1 DEF PlaceSet, ScopeSet, NodesOf, RouteAt
  <1>4. RouterTypes'
    BY <1>1, <1>2 DEF RouterIs, RouterTypes
  <1>5. Tree(t)'
    BY <1>3 DEF RouterIs, Tree
  <1>6. PlacesRight(t)'
    <2>1. \A q \in PlaceSet : PlaceRight(t, q)'
      BY <1>1, <1>3 DEF RouterIs, PlacesRight, PlaceRight
    <2>2. /\ \A s \in ScopeSet : \E q \in PlaceSet : t.of[q] = s
          /\ \A p, q \in PlaceSet :
                 t.of[p] = t.of[q] => \/ p = q
                                      \/ /\ t.kind[t.of[q]] = "group" /\ ~Opening(t.of[q])'
                                         /\ place[p].nodes = place[q].nodes
          /\ \A p, q \in PlaceSet : place[p].nodes = place[q].nodes /\ place[p].nodes # 0 => t.of[p] = t.of[q]
      BY <1>2 DEF RouterIs, PlacesRight
    <2> QED BY <1>1, <1>3, <2>1, <2>2 DEF PlacesRight
  <1>7. NodesRight(t)'
    <2>1. ASSUME NEW q \in PlaceSet, NEW name \in DOMAIN NodesOf(q)
          PROVE  NodeRight(t, NodesOf(q)[name], name, t.of[q])'
      <3>1. PICK x : x = NodesOf(q)[name]
        OBVIOUS
      <3>2. NodeRight(t, x, name, t.of[q])
        BY <3>1, NodeIs
      <3>3. NodeRight(t, x, name, t.of[q])'
        BY <1>3, <3>2 DEF NodeRight
      <3> QED BY <1>3, <3>1, <3>3
    <2> QED BY <1>3, <2>1 DEF NodesRight
  <1>8. ScopesReached(t)'
    <2>1. \A q, s : (GroupAt(t, q, s)' <=> GroupAt(t, q, s)) /\ (SubAt(t, q, s)' <=> SubAt(t, q, s))
      BY <1>1, <1>3 DEF GroupAt, SubAt
    <2>2. t.kind[Last(open).scope] = "group"
      BY <1>1, TopIs
    <2>3. \A s \in ScopeSet : t.kind[s] # "group" => (Opening(s) => Opening(s)')
      BY <1>2, <2>2
    <2> QED BY <1>3, <2>1, <2>3 DEF RouterIs, ScopesReached
  <1>9. Served(t)'
    <2>1. \A r, q : ServedAt(t, r, q)' <=> ServedAt(t, r, q)
      BY <1>3 DEF ServedAt
    <2> QED BY <1>1, <1>3, <2>1 DEF RouterIs, Served
  <1> QED BY <1>2, <1>4, <1>5, <1>6, <1>7, <1>8, <1>9 DEF RouterIs

LEMMA LeaveSubKeeps ==
  ASSUME NEW t, RouterIs(t), LeaveScope, Last(open).kind # "group"
  PROVE  RouterIs(t)'
  <1>1. Len(open) > 1 /\ open' = Front(open) /\ routes' = routes /\ uses' = uses
    BY DEF LeaveScope
  <1>0. PICK done : done = Last(open)
    OBVIOUS
  <1>2. PICK s \in ScopeSet, r \in PlaceSet :
            /\ s = done.scope /\ r = open[Len(open) - 1].at
            /\ s # 1 /\ Opening(s) /\ done.at \in PlaceSet /\ t.of[done.at] = s
            /\ done.kind = t.kind[s] /\ done.path = t.path[s]
            /\ t.of[r] = t.within[s] /\ Opening(t.of[r])
    BY <1>0, <1>1, TopIs
  <1>3. PICK w \in ScopeSet : w = t.of[r] /\ w = t.within[s] /\ t.path[w] \in Seq(Names)
    BY <1>2, ScopeOf
  <1>4. PICK name \in Names : t.path[s] = Append(t.path[w], name) /\ t.kind[s] = "sub"
    <2>1. t.kind[s] # "group"
      BY <1>0, <1>2
    <2>2. \/ t.kind[s] = "group"
          \/ t.kind[s] = "sub" /\ \E n \in Names : t.path[s] = Append(t.path[t.within[s]], n)
      BY <1>2 DEF RouterIs, Tree
    <2> QED BY <1>3, <2>1, <2>2
  <1>5. Last(done.path) = name
    <2>1. PICK u \in Seq(Names) : u = t.path[w]
      BY <1>3
    <2>2. PICK v : v = Append(u, name)
      OBVIOUS
    <2>3. Len(v) = Len(u) + 1 /\ v[Len(u) + 1] = name
      BY <2>1, <2>2, AppendProperties
    <2> QED BY <1>2, <1>4, <2>1, <2>2, <2>3 DEF Last
  <1>6. PICK node : node = [kind |-> "sub", router |-> done.at]
    OBVIOUS
  <1>7. node \in NodeTypes /\ node.kind = "sub" /\ node.router = done.at
    <2>1. done.at \in Nat
      BY <1>2 DEF PlaceSet
    <2> QED BY <1>6, <2>1 DEF NodeTypes, SubNodes
  <1>8. name \notin DOMAIN NodesOf(r) /\ nodes' = Put(r, name, node) /\ place' = Inited(r)
    BY <1>0, <1>2, <1>5, <1>6 DEF LeaveScope, add
  <1>9. /\ place \in Seq(Routers) /\ nodes \in Seq(NodeMaps) /\ uses \in Seq(Seq(Nat)) /\ routes \in Seq(Routes)
        /\ Len(nodes) \in Nat
    <2>1. /\ place \in Seq(Routers) /\ nodes \in Seq(NodeMaps) /\ uses \in Seq(Seq(Nat)) /\ routes \in Seq(Routes)
      BY DEF RouterIs, RouterTypes
    <2> QED BY <2>1, LenProperties
  <1>10. PICK old \in NodeMaps : old = NodesOf(r)
    <2>1. place[r].nodes \in 0..Len(nodes) /\ RouterTypes
      BY DEF RouterIs, PlacesRight, PlaceRight
    <2> QED BY <2>1, NodesIn
  <1>11. Replaces(node, old, name)
    BY <1>8, <1>10 DEF Replaces
  <1>12. PICK new \in NodeMaps :
             /\ nodes' = IF place[r].nodes = 0 THEN Append(nodes, new)
                         ELSE [nodes EXCEPT ![place[r].nodes] = new]
             /\ WithNode(new, old, name, node)
    BY <1>7, <1>8, <1>10, <1>11, PutIs
  <1>13. /\ place' \in Seq(Routers) /\ Len(place') = Len(place)
         /\ \A q \in PlaceSet : /\ place'[q].nodes = IF q = r THEN MapOf(r) ELSE place[q].nodes
                                /\ place'[q].parent = place[q].parent /\ place'[q].groups = place[q].groups
                                /\ place'[q].mws = place[q].mws
    BY <1>8, <1>9, InitedIs
  <1>14. \A q \in PlaceSet : /\ place'[q].nodes = IF q = r THEN MapOf(r) ELSE place[q].nodes
                             /\ place'[q].parent = place[q].parent /\ place'[q].groups = place[q].groups
                             /\ place'[q].mws = uses'[t.of[q]]
    <2>1. \A q \in PlaceSet : place[q].mws = uses[t.of[q]]
      BY DEF RouterIs, PlacesRight, PlaceRight
    <2> QED BY <1>1, <1>13, <2>1
  <1>15. /\ routes' \in Seq(Routes) /\ Len(routes') >= Len(routes)
         /\ \A i \in 1..Len(routes) : routes'[i] = routes[i]
         /\ \A i \in 1..Len(routes') : i <= Len(routes)
    BY <1>1, <1>9, RoutesStay
  <1>16. PlaceSet' = PlaceSet
    BY <1>13 DEF PlaceSet
  <1>17. ASSUME NEW m \in DOMAIN new
         PROVE  NodeRight(t, new[m], m, t.of[r])'
    <2>1. CASE m = name
      <3>1. new[m] = node
        BY <1>12, <2>1 DEF WithNode
      <3>2. NodeRight(t, node, name, t.of[r])'
        BY <1>2, <1>3, <1>4, <1>7, <1>16 DEF NodeRight
      <3> QED BY <2>1, <3>1, <3>2
    <2>2. CASE m # name
      <3>1. m \in DOMAIN NodesOf(r) /\ new[m] = NodesOf(r)[m]
        BY <1>10, <1>12, <1>17, <2>2 DEF WithNode
      <3>2. PICK x : x = NodesOf(r)[m]
        OBVIOUS
      <3>3. NodeRight(t, x, m, t.of[r])
        BY <3>1, <3>2, NodeIs
      <3>4. NodeRight(t, x, m, t.of[r])'
        BY <1>9, <1>15, <1>16, <3>3, NodeStays
      <3> QED BY <3>1, <3>2, <3>4
    <2> QED BY <2>1, <2>2
  <1>18. /\ StackRight(t)' /\ open' \in Seq(Opened) /\ Len(open') > 0
         /\ \A i : Opening(i)' => Opening(i)
         /\ \A i : Opening(i) => Opening(i)' \/ i = s
    BY <1>0, <1>1, <1>2, <1>13, Popped
  <1>19. \A i \in ScopeSet : Opening(i) => \/ Opening(i)' \/ t.kind[i] = "group"
             \/ /\ t.within[i] = t.of[r]
                /\ \E m \in DOMAIN new : new[m].kind = "sub" /\ t.of[new[m].router] = i
    <2>1. name \in DOMAIN new /\ new[name].kind = "sub" /\ t.of[new[name].router] = s
      BY <1>2, <1>7, <1>12 DEF WithNode
    <2> QED BY <1>2, <1>18, <2>1
  <1>20. MapGrows(new, NodesOf(r))
    BY <1>10, <1>12 DEF WithNode
  <1>21. uses' \in Seq(Seq(Nat)) /\ Len(uses') = Len(uses)
    BY <1>1, <1>9
  <1>22. Opening(t.of[r])
    BY <1>2
  <1> QED BY <1>12, <1>13, <1>14, <1>15, <1>17, <1>18, <1>19, <1>20, <1>21, <1>22, Changes
-----------------------------------------------------------------------------
(* A new scope s within scope w, and its router in a new place.             *)
Wider(t, T, w, s, kind, path) ==
    /\ \A i \in 1..(s - 1) :
           T.kind[i] = t.kind[i] /\ T.within[i] = t.within[i] /\ T.path[i] = t.path[i] /\ T.chain[i] = t.chain[i]
    /\ T.kind[s] = kind /\ T.within[s] = w /\ T.path[s] = path /\ T.chain[s] = Append(t.chain[w], s)
    /\ T.kind \in [1..s -> ScopeKinds] /\ T.within \in [1..s -> Nat]
    /\ T.path \in [1..s -> Seq(Names)] /\ T.chain \in [1..s -> Seq(Nat)]
NewScope(t, w, kind, path) ==
    \/ kind = "group" /\ t.kind[w] # "group" /\ path = t.path[w]
    \/ kind = "sub" /\ \E n \in Names : path = Append(t.path[w], n)

CanGrow(t, of, kind, path) ==
    \E T : T.of = of /\ Wider(t, T, t.of[Here], Len(uses) + 1, kind, path)

LEMMA GrownIs ==
  ASSUME NEW t, RouterIs(t), NEW of, NEW kind \in {"sub", "group"}, NEW path \in Seq(Names)
  PROVE  CanGrow(t, of, kind, path)
  <1>1. PICK n \in Nat : n = Len(uses)
    <2>1. Len(uses) \in Nat
      BY LenProperties DEF RouterIs, RouterTypes
    <2> QED BY <2>1
  <1>2. PICK w \in ScopeSet : w = t.of[Here] /\ w = Last(open).scope
    BY HereIs
  <1>3. PICK c : c = Append(t.chain[w], n + 1)
    OBVIOUS
  <1>4. c \in Seq(Nat) /\ w \in Nat
    <2>1. t.chain[w] \in Seq(Nat)
      BY DEF RouterIs, Tree
    <2> QED BY <1>1, <1>2, <1>3, <2>1, AppendProperties DEF ScopeSet
  <1>5. /\ t.kind \in [1..n -> ScopeKinds] /\ t.within \in [1..n -> Nat]
        /\ t.path \in [1..n -> Seq(Names)] /\ t.chain \in [1..n -> Seq(Nat)] /\ kind \in ScopeKinds
    BY <1>1 DEF RouterIs, Tree, ScopeSet, ScopeKinds
  <1>6. PICK T : T = [of |-> of, kind |-> More(t.kind, n, kind), within |-> More(t.within, n, w),
                      path |-> More(t.path, n, path), chain |-> More(t.chain, n, c)]
    OBVIOUS
  <1>7. /\ T.of = of /\ T.kind = More(t.kind, n, kind) /\ T.within = More(t.within, n, w)
        /\ T.path = More(t.path, n, path) /\ T.chain = More(t.chain, n, c)
    BY <1>6
  <1>8. T.kind \in [1..(n + 1) -> ScopeKinds] /\ T.kind[n + 1] = kind /\ \A i \in 1..n : T.kind[i] = t.kind[i]
    <2>1. PICK f \in [1..n -> ScopeKinds] : f = t.kind
      BY <1>5
    <2>2. PICK F : F = More(f, n, kind)
      OBVIOUS
    <2>3. F \in [1..(n + 1) -> ScopeKinds] /\ F[n + 1] = kind /\ \A i \in 1..n : F[i] = f[i]
      BY <1>1, <1>4, <1>5, <2>1, <2>2 DEF More
    <2> QED BY <1>7, <2>1, <2>2, <2>3
  <1>9. T.within \in [1..(n + 1) -> Nat] /\ T.within[n + 1] = w /\ \A i \in 1..n : T.within[i] = t.within[i]
    <2>1. PICK f \in [1..n -> Nat] : f = t.within
      BY <1>5
    <2>2. PICK F : F = More(f, n, w)
      OBVIOUS
    <2>3. F \in [1..(n + 1) -> Nat] /\ F[n + 1] = w /\ \A i \in 1..n : F[i] = f[i]
      BY <1>1, <1>4, <1>5, <2>1, <2>2 DEF More
    <2> QED BY <1>7, <2>1, <2>2, <2>3
  <1>10. T.path \in [1..(n + 1) -> Seq(Names)] /\ T.path[n + 1] = path /\ \A i \in 1..n : T.path[i] = t.path[i]
    <2>1. PICK f \in [1..n -> Seq(Names)] : f = t.path
      BY <1>5
    <2>2. PICK F : F = More(f, n, path)
      OBVIOUS
    <2>3. F \in [1..(n + 1) -> Seq(Names)] /\ F[n + 1] = path /\ \A i \in 1..n : F[i] = f[i]
      BY <1>1, <1>4, <1>5, <2>1, <2>2 DEF More
    <2> QED BY <1>7, <2>1, <2>2, <2>3
  <1>11. T.chain \in [1..(n + 1) -> Seq(Nat)] /\ T.chain[n + 1] = c /\ \A i \in 1..n : T.chain[i] = t.chain[i]
    <2>1. PICK f \in [1..n -> Seq(Nat)] : f = t.chain
      BY <1>5
    <2>2. PICK F : F = More(f, n, c)
      OBVIOUS
    <2>3. F \in [1..(n + 1) -> Seq(Nat)] /\ F[n + 1] = c /\ \A i \in 1..n : F[i] = f[i]
      BY <1>1, <1>4, <1>5, <2>1, <2>2 DEF More
    <2> QED BY <1>7, <2>1, <2>2, <2>3
  <1>12. (n + 1) - 1 = n
    BY <1>1
  <1>13. Wider(t, T, w, n + 1, kind, path)
    BY <1>3, <1>8, <1>9, <1>10, <1>11, <1>12 DEF Wider
  <1> QED BY <1>1, <1>2, <1>7, <1>13 DEF CanGrow

LEMMA TreeGrows ==
  ASSUME NEW t, RouterIs(t), NEW T, NEW w \in ScopeSet, NEW s, s = Len(uses) + 1, NEW kind, NEW path,
         Wider(t, T, w, s, kind, path), NewScope(t, w, kind, path), Len(path) < MaxDepth,
         T.of \in [PlaceSet' -> 1..s], Len(uses') = s
  PROVE  Tree(T)'
  <1>1. PICK n \in Nat : n = Len(uses) /\ n > 0 /\ s = n + 1 /\ s - 1 = n
    <2>1. Len(uses) \in Nat /\ Len(uses) > 0
      BY LenProperties DEF RouterIs, RouterTypes
    <2> QED BY <2>1
  <1>2. ScopeSet = 1..n /\ ScopeSet' = 1..(n + 1) /\ w \in 1..n /\ 1 \in 1..n
    BY <1>1 DEF ScopeSet
  <1>3. /\ \A i \in 1..n : /\ T.kind[i] = t.kind[i] /\ T.within[i] = t.within[i]
                           /\ T.path[i] = t.path[i] /\ T.chain[i] = t.chain[i]
        /\ T.kind[n + 1] = kind /\ T.within[n + 1] = w /\ T.path[n + 1] = path
        /\ T.chain[n + 1] = Append(t.chain[w], n + 1)
        /\ T.kind \in [1..(n + 1) -> ScopeKinds] /\ T.within \in [1..(n + 1) -> Nat]
        /\ T.path \in [1..(n + 1) -> Seq(Names)] /\ T.chain \in [1..(n + 1) -> Seq(Nat)]
    BY <1>1 DEF Wider
  <1>4. T.kind[1] = "root" /\ T.path[1] = <<>> /\ T.chain[1] = <<1>>
    BY <1>2, <1>3 DEF RouterIs, Tree
  <1>5. ASSUME NEW i \in 1..(n + 1) PROVE Len(T.path[i]) < MaxDepth
    <2>1. CASE i = n + 1
      BY <1>3, <2>1
    <2>2. CASE i # n + 1
      <3>1. i \in 1..n
        BY <2>2
      <3> QED BY <1>2, <1>3, <3>1 DEF RouterIs, Tree
    <2> QED BY <2>1, <2>2
  <1>6. ASSUME NEW i \in (1..(n + 1)) \ {1}
        PROVE  /\ T.within[i] \in 1..(i - 1) /\ T.chain[i] = Append(T.chain[T.within[i]], i)
               /\ \/ /\ T.kind[i] = "group" /\ T.kind[T.within[i]] # "group"
                     /\ T.path[i] = T.path[T.within[i]]
                  \/ /\ T.kind[i] = "sub"
                     /\ \E x \in Names : T.path[i] = Append(T.path[T.within[i]], x)
    <2>1. CASE i = n + 1
      <3>1. T.within[i] = w /\ w \in 1..(i - 1) /\ T.chain[i] = Append(t.chain[w], i) /\ T.kind[i] = kind /\ T.path[i] = path
        BY <1>1, <1>2, <1>3, <2>1
      <3>2. T.chain[w] = t.chain[w] /\ T.kind[w] = t.kind[w] /\ T.path[w] = t.path[w]
        BY <1>2, <1>3
      <3> QED BY <3>1, <3>2 DEF NewScope
    <2>2. CASE i # n + 1
      <3>1. i \in ScopeSet \ {1} /\ i \in 1..n
        BY <1>2, <2>2
      <3>2. /\ t.within[i] \in 1..(i - 1) /\ t.chain[i] = Append(t.chain[t.within[i]], i)
            /\ \/ /\ t.kind[i] = "group" /\ t.kind[t.within[i]] # "group"
                  /\ t.path[i] = t.path[t.within[i]]
               \/ /\ t.kind[i] = "sub"
                  /\ \E x \in Names : t.path[i] = Append(t.path[t.within[i]], x)
        BY <3>1 DEF RouterIs, Tree
      <3>3. PICK v \in 1..(i - 1) : v = t.within[i]
        BY <3>2
      <3>4. v \in 1..n /\ v = T.within[i]
        <4>1. v \in 1..n
          BY <3>1, <3>3
        <4>2. T.within[i] = t.within[i]
          BY <1>3, <3>1
        <4> QED BY <3>3, <4>1, <4>2
      <3>5. T.chain[v] = t.chain[v] /\ T.kind[v] = t.kind[v] /\ T.path[v] = t.path[v]
        BY <1>3, <3>4
      <3>6. T.chain[i] = t.chain[i] /\ T.kind[i] = t.kind[i] /\ T.path[i] = t.path[i]
        BY <1>3, <3>1
      <3>7. /\ T.chain[i] = Append(T.chain[v], i)
            /\ \/ T.kind[i] = "group" /\ T.kind[v] # "group" /\ T.path[i] = T.path[v]
               \/ T.kind[i] = "sub" /\ \E x \in Names : T.path[i] = Append(T.path[v], x)
        BY <3>2, <3>3, <3>5, <3>6
      <3> QED BY <3>3, <3>4, <3>7
    <2> QED BY <2>1, <2>2
  <1> QED BY <1>1, <1>2, <1>3, <1>4, <1>5, <1>6 DEF Tree

LEMMA OpensIs ==
  ASSUME NEW t, RouterIs(t), NEW new \in Nat, NEW kind \in {"sub", "group"}, NEW path \in Seq(Names),
         Opens(new, kind, path)
  PROVE  /\ open' \in Seq(Opened) /\ Len(open) \in Nat /\ Len(open) > 0 /\ Len(open') = Len(open) + 1
         /\ \A i \in 1..Len(open) : open'[i] = open[i]
         /\ open'[Len(open) + 1] = [at |-> new, kind |-> kind, path |-> path, scope |-> Len(uses) + 1]
         /\ uses' \in Seq(Seq(Nat)) /\ Len(uses) \in Nat /\ Len(uses') = Len(uses) + 1
         /\ \A i \in ScopeSet : uses'[i] = uses[i]
         /\ uses'[Len(uses) + 1] = <<>>
         /\ routes' = routes
  <1>1. /\ open \in Seq(Opened) /\ uses \in Seq(Seq(Nat)) /\ Len(open) \in Nat /\ Len(open) > 0 /\ Len(uses) \in Nat
    <2>1. open \in Seq(Opened) /\ uses \in Seq(Seq(Nat)) /\ Len(open) > 0
      BY DEF RouterIs, RouterTypes
    <2> QED BY <2>1, LenProperties
  <1>2. PICK o : o = [at |-> new, kind |-> kind, path |-> path, scope |-> Len(uses) + 1]
    OBVIOUS
  <1>3. o \in Opened
    BY <1>1, <1>2 DEF Opened, ScopeKinds
  <1>4. PICK f, u : f = open' /\ u = uses'
    OBVIOUS
  <1>5. f = Append(open, o) /\ u = Append(uses, <<>>) /\ routes' = routes
    BY <1>2, <1>4 DEF Opens
  <1>6. f \in Seq(Opened) /\ Len(f) = Len(open) + 1 /\ f[Len(open) + 1] = o /\ \A i \in 1..Len(open) : f[i] = open[i]
    BY <1>1, <1>3, <1>5, AppendProperties
  <1>7. <<>> \in Seq(Nat)
    BY EmptySeq
  <1>8. PICK e \in Seq(Nat) : e = <<>>
    BY <1>7
  <1>9. u \in Seq(Seq(Nat)) /\ Len(u) = Len(uses) + 1 /\ u[Len(uses) + 1] = e /\ \A i \in 1..Len(uses) : u[i] = uses[i]
    BY <1>1, <1>5, <1>8, AppendProperties
  <1> QED BY <1>1, <1>2, <1>4, <1>5, <1>6, <1>8, <1>9 DEF ScopeSet

LEMMA StackGrows ==
  ASSUME NEW t, RouterIs(t), NEW T, NEW w, w = t.of[Here], NEW s, s = Len(uses) + 1, NEW kind \in {"sub", "group"},
         NEW path \in Seq(Names), NEW new \in Nat, Wider(t, T, w, s, kind, path), Opens(new, kind, path),
         new = Len(place'), Len(place') > Len(place), T.of[new] = s, \A q \in PlaceSet : T.of[q] = t.of[q]
  PROVE  /\ StackRight(T)'
         /\ \A i : Opening(i)' <=> Opening(i) \/ i = s
  <1>1. PICK n \in Nat : /\ n = Len(open) /\ n > 0 /\ Len(open') = n + 1
                         /\ \A i \in 1..n : open'[i] = open[i]
                         /\ open'[n + 1] = [at |-> new, kind |-> kind, path |-> path, scope |-> s]
    <2>1. /\ Len(open) \in Nat /\ Len(open) > 0 /\ Len(open') = Len(open) + 1
          /\ \A i \in 1..Len(open) : open'[i] = open[i]
          /\ open'[Len(open) + 1] = [at |-> new, kind |-> kind, path |-> path, scope |-> Len(uses) + 1]
      BY OpensIs
    <2> QED BY <2>1
  <1>2. PICK S \in Nat : S = Len(uses) /\ Len(uses') = S + 1 /\ s = S + 1 /\ s - 1 = S
    <2>1. Len(uses) \in Nat /\ Len(uses') = Len(uses) + 1
      BY OpensIs
    <2> QED BY <2>1
  <1>3. PICK f : f = open'
    OBVIOUS
  <1>4. /\ f[n + 1].at = new /\ f[n + 1].kind = kind /\ f[n + 1].path = path /\ f[n + 1].scope = s
        /\ \A i \in 1..n : f[i] = open[i]
    BY <1>1, <1>3
  <1>5. /\ \A i \in ScopeSet : /\ T.kind[i] = t.kind[i] /\ T.within[i] = t.within[i]
                               /\ T.path[i] = t.path[i] /\ T.chain[i] = t.chain[i]
        /\ T.kind[s] = kind /\ T.within[s] = w /\ T.path[s] = path /\ T.chain[s] = Append(t.chain[w], s)
    BY <1>2 DEF Wider, ScopeSet
  <1>6. /\ \A i \in ScopeSet : i \in ScopeSet'
        /\ s \in ScopeSet' /\ new \in PlaceSet' /\ \A q \in PlaceSet : q \in PlaceSet'
    <2>1. Len(place) \in Nat /\ Len(place') \in Nat
      BY LenProperties DEF RouterIs, RouterTypes
    <2> QED BY <1>2, <2>1 DEF ScopeSet, PlaceSet
  <1>7. ASSUME NEW i \in 1..n
        PROVE  /\ f[i].at \in PlaceSet' /\ f[i].scope \in ScopeSet' /\ T.of[f[i].at] = f[i].scope
               /\ f[i].kind = T.kind[f[i].scope] /\ f[i].path = T.path[f[i].scope]
               /\ T.chain[f[i].scope] = [k \in 1..i |-> f[k].scope]
    <2>1. PICK o : o = open[i] /\ o = f[i]
      BY <1>4
    <2>2. /\ o.at \in PlaceSet /\ o.scope \in ScopeSet /\ t.of[o.at] = o.scope
          /\ o.kind = t.kind[o.scope] /\ o.path = t.path[o.scope]
          /\ t.chain[o.scope] = [k \in 1..i |-> open[k].scope]
      <3>1. i \in 1..Len(open)
        BY <1>1
      <3> QED BY <2>1, <3>1 DEF RouterIs, StackRight
    <2>3. \A k \in 1..i : f[k] = open[k]
      BY <1>4
    <2>4. [k \in 1..i |-> open[k].scope] = [k \in 1..i |-> f[k].scope]
      BY <2>3
    <2>5. /\ o.at \in PlaceSet' /\ o.scope \in ScopeSet' /\ T.of[o.at] = o.scope
          /\ o.kind = T.kind[o.scope] /\ o.path = T.path[o.scope]
          /\ T.chain[o.scope] = [k \in 1..i |-> f[k].scope]
      BY <1>5, <1>6, <2>2, <2>4
    <2> QED BY <2>1, <2>5
  <1>8. T.chain[s] = [k \in 1..(n + 1) |-> f[k].scope]
    <2>1. PICK c \in Seq(Nat) : c = t.chain[w] /\ c = Scopes
      BY HereIs
    <2>2. DOMAIN open = 1..n
      BY <1>1 DEF RouterIs, RouterTypes
    <2>3. DOMAIN c = 1..n /\ \A k \in 1..n : c[k] = f[k].scope
      BY <1>4, <2>1, <2>2 DEF Scopes
    <2>4. PICK d : d = Append(c, s)
      OBVIOUS
    <2>5. Len(c) = n
      BY <1>1, <2>1, <2>3, LenProperties
    <2>6. d \in Seq(Nat) /\ Len(d) = n + 1 /\ d[n + 1] = s /\ \A k \in 1..n : d[k] = c[k]
      BY <1>2, <2>1, <2>4, <2>5, AppendProperties
    <2>7. DOMAIN d = 1..(n + 1) /\ d = [k \in DOMAIN d |-> d[k]]
      BY <1>1, <2>6, LenProperties
    <2>8. \A k \in 1..(n + 1) : d[k] = f[k].scope
      <3>1. \A k \in 1..(n + 1) : k = n + 1 \/ k \in 1..n
        BY <1>1
      <3> QED BY <1>4, <2>3, <2>6, <3>1
    <2> QED BY <1>5, <2>1, <2>4, <2>7, <2>8
  <1>9. ASSUME NEW i \in 2..(n + 1)
        PROVE  T.within[f[i].scope] = f[i - 1].scope
    <2>1. CASE i = n + 1
      <3>1. f[i - 1] = open[n] /\ n \in 1..n
        BY <1>1, <1>4, <2>1
      <3>2. Last(open) = open[n]
        BY <1>1 DEF Last
      <3>3. open[n].scope = w
        BY <3>2, HereIs
      <3> QED BY <1>4, <1>5, <2>1, <3>1, <3>3
    <2>2. CASE i # n + 1
      <3>1. i \in 2..n /\ i \in 1..n /\ i - 1 \in 1..n
        BY <1>1, <2>2
      <3>2. t.within[open[i].scope] = open[i - 1].scope /\ open[i].scope \in ScopeSet
        BY <1>1, <3>1 DEF RouterIs, StackRight
      <3> QED BY <1>4, <1>5, <3>1, <3>2
    <2> QED BY <2>1, <2>2
  <1>10. StackRight(T)'
    <2>1. f[1].scope = 1
      <3>1. 1 \in 1..n
        BY <1>1
      <3> QED BY <1>4, <3>1 DEF RouterIs, StackRight
    <2>2. ASSUME NEW i \in 1..(n + 1)
          PROVE  /\ f[i].at \in PlaceSet' /\ f[i].scope \in ScopeSet' /\ T.of[f[i].at] = f[i].scope
                 /\ f[i].kind = T.kind[f[i].scope] /\ f[i].path = T.path[f[i].scope]
                 /\ T.chain[f[i].scope] = [k \in 1..i |-> f[k].scope]
      <3>1. CASE i = n + 1
        BY <1>4, <1>5, <1>6, <1>8, <3>1
      <3>2. CASE i # n + 1
        <4>1. i \in 1..n
          BY <1>1, <3>2
        <4> QED BY <1>7, <4>1
      <3> QED BY <3>1, <3>2
    <2> QED BY <1>1, <1>3, <1>9, <2>1, <2>2 DEF StackRight
  <1>11. ASSUME NEW i
         PROVE  Opening(i)' <=> Opening(i) \/ i = s
    <2>1. Opening(i)' <=> \E k \in 1..(n + 1) : f[k].scope = i
      BY <1>1, <1>3 DEF Opening
    <2>2. Opening(i) <=> \E k \in 1..n : f[k].scope = i
      BY <1>1, <1>4 DEF Opening
    <2>3. \A k : k \in 1..(n + 1) <=> k \in 1..n \/ k = n + 1
      BY <1>1
    <2> QED BY <1>4, <2>1, <2>2, <2>3
  <1> QED BY <1>10, <1>11

(* Every place but the new one is what one was before: itself, or a group   *)
(* that has moved.                                                          *)
Copies(t, orig, new) ==
    /\ orig \in [1..(new - 1) -> PlaceSet] /\ \A q \in PlaceSet : orig[q] = q
    /\ \A q \in 1..(new - 1) :
           /\ q \in PlaceSet \/ (t.kind[t.of[orig[q]]] = "group" /\ ~Opening(t.of[orig[q]]))
           /\ place'[q].nodes = place[orig[q]].nodes /\ place'[q].mws = place[orig[q]].mws
           /\ place'[q].parent = place[orig[q]].parent
GroupsCopied(orig, r, new, kind) ==
    /\ \A q \in 1..(new - 1) : \A i \in 1..Len(place'[q].groups) :
           \/ place'[q].groups[i] = new /\ q = r /\ kind = "group"
           \/ /\ place'[q].groups[i] \in 1..(new - 1)
              /\ \E j \in 1..Len(place[orig[q]].groups) : orig[place'[q].groups[i]] = place[orig[q]].groups[j]
    /\ \A q \in PlaceSet : \A j \in 1..Len(place[q].groups) : \E i \in 1..Len(place'[q].groups) :
           place'[q].groups[i] \in 1..(new - 1) /\ orig[place'[q].groups[i]] = place[q].groups[j]
    /\ kind = "group" => \E i \in 1..Len(place'[r].groups) : place'[r].groups[i] = new
Fresh(r, new) ==
    /\ place'[new].parent = r /\ place'[new].mws = <<>> /\ place'[new].groups = <<>>
    /\ place'[new].nodes \in 0..Len(nodes') /\ place'[new].nodes \notin 1..Len(nodes)
    /\ NodesOf(new)' = NoNodes
    /\ nodes' \in Seq(NodeMaps) /\ Len(nodes') >= Len(nodes) /\ \A m \in 1..Len(nodes) : nodes'[m] = nodes[m]

(* What the grown tree and the places have to do with those before.         *)
Grew(t, T, w, s, kind, path, orig, new) ==
    /\ T.of \in [1..new -> 1..s] /\ T.of[new] = s
    /\ \A q \in 1..(new - 1) : T.of[q] = t.of[orig[q]] /\ T.of[q] \in ScopeSet
    /\ \A q \in PlaceSet : T.of[q] = t.of[q] /\ orig[q] = q /\ q \in 1..(new - 1)
    /\ \A i \in ScopeSet : /\ T.kind[i] = t.kind[i] /\ T.within[i] = t.within[i]
                           /\ T.path[i] = t.path[i] /\ T.chain[i] = t.chain[i]
                           /\ i \in 1..s /\ i # s
    /\ T.kind[s] = kind /\ T.within[s] = w /\ T.path[s] = path
    /\ Wider(t, T, w, s, kind, path)
    /\ PlaceSet' = 1..new /\ ScopeSet' = 1..s
    /\ \A q \in PlaceSet' : q = new \/ q \in 1..(new - 1)
    /\ \A i \in ScopeSet' : i = s \/ i \in ScopeSet

LEMMA Growing ==
  ASSUME NEW t, RouterIs(t), NEW r \in PlaceSet, r = Here, NEW kind \in {"sub", "group"}, NEW path \in Seq(Names),
         NEW new \in Nat, new = Len(place'), new > Len(place), Opens(new, kind, path),
         NEW orig, Copies(t, orig, new), NEW s, s = Len(uses) + 1
  PROVE  \E T : Grew(t, T, t.of[r], s, kind, path, orig, new)
  <1>1. PICK N \in Nat : N = Len(place)
    <2>1. Len(place) \in Nat
      BY LenProperties DEF RouterIs, RouterTypes
    <2> QED BY <2>1
  <1>2. PICK S \in Nat : S = Len(uses) /\ s = S + 1 /\ Len(uses') = S + 1
    <2>1. Len(uses) \in Nat /\ Len(uses') = Len(uses) + 1
      BY OpensIs
    <2> QED BY <2>1
  <1>3. PICK of : of = [q \in 1..new |-> IF q = new THEN s ELSE t.of[orig[q]]]
    OBVIOUS
  <1>4. /\ \A q \in 1..new : q = new \/ q \in 1..(new - 1)
        /\ \A q \in 1..(new - 1) : q \in 1..new /\ q # new
        /\ new \in 1..new /\ \A q \in PlaceSet : q \in 1..(new - 1)
    BY <1>1 DEF PlaceSet
  <1>5. \A q \in 1..(new - 1) : orig[q] \in PlaceSet /\ t.of[orig[q]] \in ScopeSet
    BY ScopeOf DEF Copies
  <1>6. \A i \in ScopeSet : i \in 1..s /\ i # s
    BY <1>2 DEF ScopeSet
  <1>7. of \in [1..new -> 1..s]
    <2>1. s \in 1..s
      BY <1>2
    <2> QED BY <1>3, <1>4, <1>5, <1>6, <2>1
  <1>8. /\ of[new] = s
        /\ \A q \in 1..(new - 1) : of[q] = t.of[orig[q]] /\ of[q] \in ScopeSet
        /\ \A q \in PlaceSet : of[q] = t.of[q] /\ orig[q] = q
    BY <1>3, <1>4, <1>5 DEF Copies
  <1>9. PICK T : T.of = of /\ Wider(t, T, t.of[r], s, kind, path)
    <2>1. CanGrow(t, of, kind, path)
      BY GrownIs
    <2> QED BY <2>1 DEF CanGrow
  <1>10. /\ \A i \in ScopeSet : /\ T.kind[i] = t.kind[i] /\ T.within[i] = t.within[i]
                                /\ T.path[i] = t.path[i] /\ T.chain[i] = t.chain[i]
         /\ T.kind[s] = kind /\ T.within[s] = t.of[r] /\ T.path[s] = path
    <2>1. s - 1 = S
      BY <1>2
    <2> QED BY <1>2, <1>9, <2>1 DEF Wider, ScopeSet
  <1>11. PlaceSet' = 1..new /\ ScopeSet' = 1..s
    BY <1>2 DEF PlaceSet, ScopeSet
  <1>12. \A i \in ScopeSet' : i = s \/ i \in ScopeSet
    BY <1>2 DEF ScopeSet
  <1>13. Grew(t, T, t.of[r], s, kind, path, orig, new)
    BY <1>4, <1>6, <1>7, <1>8, <1>9, <1>10, <1>11, <1>12 DEF Grew
  <1> QED BY <1>13
OpeningGrows(s) == \A i : Opening(i)' <=> Opening(i) \/ i = s
UsesGrow == uses'[Len(uses) + 1] = <<>> /\ \A i \in ScopeSet : uses'[i] = uses[i]
NodesStand == \A q \in PlaceSet : NodesOf(q)' = NodesOf(q)

LEMMA PlacesGrow ==
  ASSUME NEW t, RouterIs(t), NEW r \in PlaceSet, NEW w, w = t.of[r], NEW kind \in {"sub", "group"}, NEW path,
         NEW new \in Nat, new > Len(place), UsesGrow,
         NEW orig, Copies(t, orig, new), GroupsCopied(orig, r, new, kind), Fresh(r, new),
         NEW s, s = Len(uses) + 1, NEW T, Grew(t, T, w, s, kind, path, orig, new),
         OpeningGrows(s)
  PROVE  PlacesRight(T)'
  <1>0. /\ \A i : Opening(i)' <=> Opening(i) \/ i = s
        /\ uses'[s] = <<>> /\ \A i \in ScopeSet : uses'[i] = uses[i]
    BY DEF OpeningGrows, UsesGrow
  <1>1. PICK N \in Nat : N = Len(place) /\ PlaceSet = 1..N /\ new > N
    <2>1. Len(place) \in Nat
      BY LenProperties DEF RouterIs, RouterTypes
    <2> QED BY <2>1 DEF PlaceSet
  <1>2. PICK S \in Nat : S = Len(uses) /\ S > 0 /\ s = S + 1 /\ ScopeSet = 1..S
    <2>1. Len(uses) \in Nat /\ Len(uses) > 0
      BY LenProperties DEF RouterIs, RouterTypes
    <2> QED BY <2>1 DEF ScopeSet
  <1>3. /\ T.of[new] = s /\ s \in 1..s /\ new \in 1..new
        /\ \A q \in 1..(new - 1) : T.of[q] = t.of[orig[q]] /\ T.of[q] \in ScopeSet /\ orig[q] \in PlaceSet /\ q \in 1..new
        /\ \A q \in PlaceSet : T.of[q] = t.of[q] /\ orig[q] = q /\ q \in 1..(new - 1)
        /\ \A i \in ScopeSet : T.kind[i] = t.kind[i] /\ T.within[i] = t.within[i] /\ i \in 1..s /\ i # s
        /\ T.kind[s] = kind /\ T.within[s] = w
        /\ PlaceSet' = 1..new /\ ScopeSet' = 1..s
        /\ \A q \in PlaceSet' : q = new \/ q \in 1..(new - 1)
        /\ \A i \in ScopeSet' : i = s \/ i \in ScopeSet
    <2>1. \A q \in 1..(new - 1) : q \in 1..new
      OBVIOUS
    <2>2. s \in 1..s /\ new \in 1..new
      BY <1>1, <1>2
    <2> QED BY <2>1, <2>2 DEF Grew, Copies
  <1>4. Len(nodes) \in Nat /\ Len(nodes') \in Nat /\ Len(nodes') >= Len(nodes)
    <2>1. nodes \in Seq(NodeMaps) /\ nodes' \in Seq(NodeMaps)
      BY DEF RouterIs, RouterTypes, Fresh
    <2> QED BY <2>1, LenProperties DEF Fresh
  <1>5. ASSUME NEW q \in 1..(new - 1)
        PROVE  /\ orig[q] <= q /\ q \in Nat
               /\ place'[q].nodes = place[orig[q]].nodes /\ place'[q].mws = place[orig[q]].mws
               /\ place'[q].parent = place[orig[q]].parent
               /\ place[orig[q]].nodes \in 0..Len(nodes)
               /\ orig[q] # q => t.kind[t.of[orig[q]]] = "group" /\ ~Opening(t.of[orig[q]])
               /\ t.of[orig[q]] = 1 <=> q = 1
    <2>1. orig[q] \in 1..N /\ q \in Nat
      BY <1>1, <1>3
    <2>2. orig[q] # q => q \notin PlaceSet
      BY <1>3
    <2>3. orig[q] <= q
      BY <1>1, <2>1, <2>2
    <2>4. /\ place'[q].nodes = place[orig[q]].nodes /\ place'[q].mws = place[orig[q]].mws
          /\ place'[q].parent = place[orig[q]].parent
          /\ orig[q] # q => t.kind[t.of[orig[q]]] = "group" /\ ~Opening(t.of[orig[q]])
      BY <2>2 DEF Copies
    <2>5. t.of[orig[q]] = 1 <=> orig[q] = 1
      BY <1>3 DEF RouterIs, PlacesRight, PlaceRight
    <2>6. t.of[orig[q]] = 1 => orig[q] = q
      <3>1. t.kind[1] = "root"
        BY RootIs
      <3> QED BY <2>4, <3>1
    <2>7. q = 1 => orig[q] = 1
      BY <1>3, RootIs
    <2>8. place[orig[q]].nodes \in 0..Len(nodes)
      BY <1>3 DEF RouterIs, PlacesRight, PlaceRight
    <2> QED BY <2>1, <2>3, <2>4, <2>5, <2>6, <2>7, <2>8
  <1>6. PlaceRight(T, new)'
    <2>1. T.of[new] # 1 /\ new # 1
      BY <1>1, <1>2, <1>3
    <2>2. place'[new].parent = r /\ place'[new].mws = <<>> /\ place'[new].groups = <<>> /\ place'[new].nodes \in 0..Len(nodes')
      BY DEF Fresh
    <2>3. r \in 1..(new - 1) /\ T.of[r] = T.within[T.of[new]]
      BY <1>3
    <2>4. uses'[T.of[new]] = <<>>
      BY <1>0, <1>3
    <2>5. 1..Len(place'[new].groups) = {}
      BY <2>2
    <2> QED BY <2>1, <2>2, <2>3, <2>4, <2>5 DEF PlaceRight
  <1>7. ASSUME NEW q \in 1..(new - 1)
        PROVE  PlaceRight(T, q)'
    <2>1. PICK o \in PlaceSet : o = orig[q] /\ T.of[q] = t.of[o] /\ t.of[o] \in ScopeSet
      BY <1>3
    <2>2. PICK i \in ScopeSet : i = t.of[o] /\ T.of[q] = i
      BY <2>1
    <2>3. /\ i = 1 <=> q = 1
          /\ o = 1 <=> q = 1
          /\ o <= q /\ o \in Nat /\ q \in Nat
          /\ place'[q].nodes = place[o].nodes /\ place'[q].mws = place[o].mws /\ place'[q].parent = place[o].parent
          /\ place[o].nodes \in 0..Len(nodes)
      <3>1. i = 1 <=> o = 1
        BY <2>2 DEF RouterIs, PlacesRight, PlaceRight
      <3> QED BY <1>1, <1>5, <2>1, <2>2, <3>1
    <2>4. q = 1 => place'[q].parent = 0 /\ place'[q].nodes # 0
      BY <2>3 DEF RouterIs, PlacesRight, PlaceRight
    <2>5. q # 1 => place'[q].parent \in 1..(q - 1) /\ T.of[place'[q].parent] = T.within[i]
      <3> SUFFICES ASSUME q # 1
                   PROVE  place'[q].parent \in 1..(q - 1) /\ T.of[place'[q].parent] = T.within[i]
        OBVIOUS
      <3>1. place[o].parent \in 1..(o - 1) /\ t.of[place[o].parent] = t.within[i]
        BY <2>2, <2>3 DEF RouterIs, PlacesRight, PlaceRight
      <3>2. PICK p \in 1..(o - 1) : p = place[o].parent /\ p = place'[q].parent
        BY <2>3, <3>1
      <3>3. p \in PlaceSet /\ p \in 1..(q - 1)
        BY <1>1, <2>3
      <3>4. T.of[p] = t.of[p] /\ T.within[i] = t.within[i]
        BY <1>3, <3>3
      <3> QED BY <3>1, <3>2, <3>3, <3>4
    <2>6. place'[q].mws = uses'[i]
      <3>1. place[o].mws = uses[t.of[o]]
        BY DEF RouterIs, PlacesRight, PlaceRight
      <3> QED BY <1>0, <2>2, <2>3, <3>1
    <2>7. place'[q].nodes \in 0..Len(nodes')
      BY <1>4, <2>3
    <2>8. ASSUME NEW k \in 1..Len(place'[q].groups)
          PROVE  /\ place'[q].groups[k] \in 1..new
                 /\ T.kind[T.of[place'[q].groups[k]]] = "group" /\ T.within[T.of[place'[q].groups[k]]] = i
      <3>1. PICK gr : gr = place'[q].groups[k]
        OBVIOUS
      <3>2. CASE gr = new /\ q = r /\ kind = "group"
        BY <1>3, <2>1, <2>2, <3>1, <3>2
      <3>3. CASE gr \in 1..(new - 1) /\ \E j \in 1..Len(place[o].groups) : orig[gr] = place[o].groups[j]
        <4>1. PICK j \in 1..Len(place[o].groups) : orig[gr] = place[o].groups[j]
          BY <3>3
        <4>2. PICK h : h = orig[gr]
          OBVIOUS
        <4>3. h \in PlaceSet /\ t.kind[t.of[h]] = "group" /\ t.within[t.of[h]] = i
          BY <2>2, <4>1, <4>2 DEF RouterIs, PlacesRight, PlaceRight
        <4>4. T.of[gr] = t.of[h] /\ T.of[gr] \in ScopeSet /\ gr \in 1..new
          BY <1>3, <3>3, <4>2
        <4>5. PICK v \in ScopeSet : v = t.of[h] /\ v = T.of[gr]
          BY <1>3, <3>3, <4>2, <4>4
        <4>6. T.kind[v] = t.kind[v] /\ T.within[v] = t.within[v]
          BY <1>3
        <4> QED BY <3>1, <4>3, <4>4, <4>5, <4>6
      <3> QED BY <2>1, <3>1, <3>2, <3>3 DEF GroupsCopied
    <2> QED BY <1>3, <2>2, <2>3, <2>4, <2>5, <2>6, <2>7, <2>8 DEF PlaceRight
  <1>8. ASSUME NEW i \in 1..s
        PROVE  \E q \in 1..new : T.of[q] = i
    <2>1. CASE i = s
      BY <1>3, <2>1
    <2>2. CASE i \in ScopeSet
      <3>1. PICK q \in PlaceSet : t.of[q] = i
        BY <2>2 DEF RouterIs, PlacesRight
      <3>2. q \in 1..new /\ T.of[q] = i
        BY <1>3, <3>1
      <3> QED BY <3>2
    <2> QED BY <1>3, <2>1, <2>2
  <1>9. ASSUME NEW p \in 1..new, NEW q \in 1..new, T.of[p] = T.of[q], p # q
        PROVE  /\ T.kind[T.of[q]] = "group" /\ ~Opening(T.of[q])'
               /\ place'[p].nodes = place'[q].nodes
    <2>1. p \in 1..(new - 1) /\ q \in 1..(new - 1)
      BY <1>3, <1>9
    <2>2. PICK a \in PlaceSet, b \in PlaceSet : a = orig[p] /\ b = orig[q] /\ t.of[a] = t.of[b] /\ T.of[q] = t.of[b]
      BY <1>3, <1>9, <2>1
    <2>3. T.of[q] \in ScopeSet /\ T.of[q] # s /\ T.kind[T.of[q]] = t.kind[T.of[q]]
      BY <1>3, <2>1
    <2>4. place'[p].nodes = place[a].nodes /\ place'[q].nodes = place[b].nodes
      BY <1>5, <2>1, <2>2
    <2>5. t.kind[t.of[b]] = "group" /\ ~Opening(t.of[b]) /\ place[a].nodes = place[b].nodes
      <3>1. CASE a = b
        <4>1. a # p \/ b # q
          BY <1>9, <3>1
        <4> QED BY <1>5, <2>1, <2>2, <3>1, <4>1
      <3>2. CASE a # b
        BY <2>2, <3>2 DEF RouterIs, PlacesRight
      <3> QED BY <3>1, <3>2
    <2> QED BY <1>0, <2>2, <2>3, <2>4, <2>5
  <1>10. ASSUME NEW p \in 1..new, NEW q \in 1..new, place'[p].nodes = place'[q].nodes, place'[p].nodes # 0
         PROVE  T.of[p] = T.of[q]
    <2>1. CASE p = new /\ q = new
      BY <2>1
    <2>2. \A x \in 1..(new - 1) : place'[x].nodes \in 0..Len(nodes)
      BY <1>5
    <2>3. place'[new].nodes \notin 1..Len(nodes)
      BY DEF Fresh
    <2>4. \A x \in 1..(new - 1) : place'[x].nodes # 0 => place'[x].nodes # place'[new].nodes
      BY <1>4, <2>2, <2>3
    <2>5. CASE p \in 1..(new - 1) /\ q \in 1..(new - 1)
      <3>1. PICK a \in PlaceSet, b \in PlaceSet : a = orig[p] /\ b = orig[q] /\ T.of[p] = t.of[a] /\ T.of[q] = t.of[b]
        BY <1>3, <2>5
      <3>2. place[a].nodes = place[b].nodes /\ place[a].nodes # 0
        BY <1>5, <1>10, <2>5, <3>1
      <3> QED BY <3>1, <3>2 DEF RouterIs, PlacesRight
    <2>6. p = new \/ p \in 1..(new - 1)
      OBVIOUS
    <2>7. q = new \/ q \in 1..(new - 1)
      OBVIOUS
    <2>8. place'[q].nodes # 0
      BY <1>10
    <2> QED BY <1>10, <2>1, <2>4, <2>5, <2>6, <2>7, <2>8
  <1>11. \A q \in 1..new : PlaceRight(T, q)'
    BY <1>3, <1>6, <1>7
  <1>12. PlaceSet' = 1..new /\ ScopeSet' = 1..s
    BY <1>3
  <1> QED BY ONLY <1>8, <1>9, <1>10, <1>11, <1>12 DEF PlacesRight

LEMMA NodesGrow ==
  ASSUME NEW t, RouterIs(t), NEW r, NEW w, NEW kind, NEW path,
         NEW new \in Nat, NEW orig, Copies(t, orig, new), Fresh(r, new), routes' = routes,
         NEW s, NEW T, Grew(t, T, w, s, kind, path, orig, new)
  PROVE  NodesRight(T)' /\ NodesStand
  <1>1. Len(nodes) \in Nat /\ Len(nodes') \in Nat /\ Len(nodes') >= Len(nodes)
    <2>1. nodes \in Seq(NodeMaps) /\ nodes' \in Seq(NodeMaps)
      BY DEF RouterIs, RouterTypes, Fresh
    <2> QED BY <2>1, LenProperties DEF Fresh
  <1>2. ASSUME NEW q \in 1..(new - 1)
        PROVE  NodesOf(q)' = NodesOf(orig[q])
    <2>1. PICK o \in PlaceSet : o = orig[q]
      BY DEF Copies
    <2>2. PICK m \in 0..Len(nodes) : m = place[o].nodes /\ m = place'[q].nodes
      <3>1. place[o].nodes \in 0..Len(nodes)
        BY DEF RouterIs, PlacesRight, PlaceRight
      <3> QED BY <2>1, <3>1 DEF Copies
    <2>3. m # 0 => nodes'[m] = nodes[m]
      BY <1>1 DEF Fresh
    <2>4. NodesOf(q)' = IF m = 0 THEN NoNodes ELSE nodes'[m]
      BY <2>2 DEF NodesOf, NoNodes
    <2>5. NodesOf(o) = IF m = 0 THEN NoNodes ELSE nodes[m]
      BY <2>2 DEF NodesOf
    <2> QED BY <2>1, <2>3, <2>4, <2>5
  <1>3. ASSUME NEW node, NEW name, NEW i \in ScopeSet, NodeRight(t, node, name, i)
        PROVE  NodeRight(T, node, name, i)'
    <2>1. T.path[i] = t.path[i] /\ T.chain[i] = t.chain[i]
      BY DEF Grew
    <2>2. \A h, k : RouteAt(t, h, k, name, i) => RouteAt(T, h, k, name, i)'
      BY <2>1 DEF RouteAt
    <2>3. ASSUME node.router \in PlaceSet
          PROVE  /\ node.router \in PlaceSet' /\ T.of[node.router] = t.of[node.router]
                 /\ T.kind[T.of[node.router]] = t.kind[t.of[node.router]]
                 /\ T.within[T.of[node.router]] = t.within[t.of[node.router]]
                 /\ T.path[T.of[node.router]] = t.path[t.of[node.router]]
      <3>1. PICK q \in PlaceSet : q = node.router
        BY <2>3
      <3>2. q \in PlaceSet' /\ T.of[q] = t.of[q] /\ t.of[q] \in ScopeSet
        <4>1. q \in 1..(new - 1) /\ T.of[q] = t.of[q] /\ PlaceSet' = 1..new
          BY DEF Grew
        <4> QED BY <4>1, ScopeOf
      <3> QED BY <3>1, <3>2 DEF Grew
    <2> QED BY <1>3, <2>1, <2>2, <2>3 DEF NodeRight
  <1>4. ASSUME NEW q \in PlaceSet', NEW name \in DOMAIN NodesOf(q)'
        PROVE  NodeRight(T, NodesOf(q)[name], name, T.of[q])'
    <2>1. CASE q = new
      <3>1. NodesOf(q)' = NoNodes
        BY <2>1 DEF Fresh
      <3> QED BY <1>4, <3>1 DEF NoNodes
    <2>2. CASE q \in 1..(new - 1)
      <3>1. PICK o \in PlaceSet : o = orig[q] /\ T.of[q] = t.of[o]
        BY <2>2 DEF Copies, Grew
      <3>2. NodesOf(q)' = NodesOf(o)
        BY <1>2, <2>2, <3>1
      <3>3. PICK x : x = NodesOf(o)[name]
        OBVIOUS
      <3>4. NodeRight(t, x, name, t.of[o]) /\ t.of[o] \in ScopeSet
        BY <1>4, <3>2, <3>3, NodeIs, ScopeOf
      <3>5. PICK i \in ScopeSet : i = t.of[o]
        BY <3>4
      <3>6. NodeRight(T, x, name, i)'
        BY <1>3, <3>4, <3>5
      <3> QED BY <3>1, <3>2, <3>3, <3>5, <3>6
    <2> QED BY <2>1, <2>2 DEF Grew
  <1>5. ASSUME NEW q \in PlaceSet PROVE NodesOf(q)' = NodesOf(q)
    <2>1. q \in 1..(new - 1) /\ orig[q] = q
      BY DEF Grew
    <2> QED BY <1>2, <2>1
  <1> QED BY <1>4, <1>5 DEF NodesRight, NodesStand

LEMMA ReachedGrow ==
  ASSUME NEW t, RouterIs(t), NEW r \in PlaceSet, NEW w, w = t.of[r], NEW kind \in {"sub", "group"}, NEW path,
         NEW new \in Nat, NEW orig, GroupsCopied(orig, r, new, kind), routes' = routes,
         NEW s, NEW T, Grew(t, T, w, s, kind, path, orig, new),
         NodesStand, OpeningGrows(s)
  PROVE  ScopesReached(T)' /\ Served(T)'
  <1>0. /\ \A i : Opening(i)' <=> Opening(i) \/ i = s
        /\ \A q \in PlaceSet : NodesOf(q)' = NodesOf(q)
    BY DEF OpeningGrows, NodesStand
  <1>1. /\ T.of[new] = s /\ T.kind[s] = kind /\ T.within[s] = w
        /\ \A q \in PlaceSet : T.of[q] = t.of[q] /\ q \in PlaceSet'
        /\ \A i \in ScopeSet : /\ T.kind[i] = t.kind[i] /\ T.within[i] = t.within[i] /\ T.path[i] = t.path[i]
        /\ \A i \in ScopeSet' : i = s \/ i \in ScopeSet
    <2>1. \A q \in 1..(new - 1) : q \in 1..new
      OBVIOUS
    <2> QED BY <2>1 DEF Grew
  <1>2. ASSUME NEW i \in ScopeSet' \ {1}
        PROVE  IF T.kind[i] = "group" THEN \E q \in PlaceSet' : T.of[q] = T.within[i] /\ GroupAt(T, q, i)'
               ELSE Opening(i)' \/ \E q \in PlaceSet' : T.of[q] = T.within[i] /\ SubAt(T, q, i)'
    <2>1. CASE i = s
      <3>1. CASE kind = "group"
        <4>1. PICK k \in 1..Len(place'[r].groups) : place'[r].groups[k] = new
          BY <3>1 DEF GroupsCopied
        <4>2. GroupAt(T, r, i)'
          BY <1>1, <2>1, <4>1 DEF GroupAt
        <4> QED BY <1>1, <2>1, <3>1, <4>2
      <3>2. CASE kind # "group"
        BY <1>0, <1>1, <2>1, <3>2
      <3> QED BY <3>1, <3>2
    <2>2. CASE i \in ScopeSet
      <3>1. T.kind[i] = t.kind[i] /\ T.within[i] = t.within[i]
        BY <1>1, <2>2
      <3>2. CASE t.kind[i] = "group"
        <4>1. PICK q \in PlaceSet : t.of[q] = t.within[i] /\ GroupAt(t, q, i)
          BY <1>2, <2>2, <3>2 DEF RouterIs, ScopesReached
        <4>2. PICK j \in 1..Len(place[q].groups) : t.of[place[q].groups[j]] = i
          BY <4>1 DEF GroupAt
        <4>3. PICK k \in 1..Len(place'[q].groups) :
                  place'[q].groups[k] \in 1..(new - 1) /\ orig[place'[q].groups[k]] = place[q].groups[j]
          BY DEF GroupsCopied
        <4>4. T.of[place'[q].groups[k]] = i
          <5>1. PICK gr \in 1..(new - 1) : gr = place'[q].groups[k] /\ orig[gr] = place[q].groups[j]
            BY <4>3
          <5>2. T.of[gr] = t.of[orig[gr]]
            BY DEF Grew
          <5> QED BY <4>2, <5>1, <5>2
        <4>5. GroupAt(T, q, i)'
          BY <4>4 DEF GroupAt
        <4> QED BY <1>1, <3>1, <3>2, <4>1, <4>5
      <3>3. CASE t.kind[i] # "group"
        <4>1. CASE Opening(i)
          BY <1>0, <3>1, <3>3, <4>1
        <4>2. CASE ~Opening(i)
          <5>1. PICK q \in PlaceSet : t.of[q] = t.within[i] /\ SubAt(t, q, i)
            BY <1>2, <2>2, <3>3, <4>2 DEF RouterIs, ScopesReached
          <5>2. PICK n \in DOMAIN NodesOf(q) :
                    NodesOf(q)[n].kind = "sub" /\ t.of[NodesOf(q)[n].router] = i
            BY <5>1 DEF SubAt
          <5>3. PICK x : x = NodesOf(q)[n]
            OBVIOUS
          <5>4. x.router \in PlaceSet
            BY <5>2, <5>3, NodeIs DEF NodeRight
          <5>5. T.of[x.router] = i
            BY <1>1, <5>2, <5>3, <5>4
          <5>6. n \in DOMAIN NodesOf(q)' /\ NodesOf(q)'[n] = x
            BY <1>0, <5>2, <5>3
          <5>7. SubAt(T, q, i)'
            BY <5>2, <5>3, <5>5, <5>6 DEF SubAt
          <5> QED BY <1>1, <3>1, <3>3, <5>1, <5>7
        <4> QED BY <4>1, <4>2
      <3> QED BY <3>2, <3>3
    <2> QED BY <1>1, <2>1, <2>2
  <1>3. ASSUME NEW i \in 1..Len(routes)
        PROVE  \E q \in PlaceSet' : ServedAt(T, routes[i], q)'
    <2>1. PICK q \in PlaceSet : ServedAt(t, routes[i], q)
      BY DEF RouterIs, Served
    <2>2. T.path[T.of[q]] = t.path[t.of[q]] /\ q \in PlaceSet' /\ NodesOf(q)' = NodesOf(q)
      BY <1>0, <1>1, ScopeOf
    <2>3. ServedAt(T, routes[i], q)'
      BY <2>1, <2>2 DEF ServedAt
    <2> QED BY <2>2, <2>3
  <1>4. ScopesReached(T)'
    BY <1>2 DEF ScopesReached
  <1> QED BY <1>3, <1>4 DEF Served

LEMMA Grows ==
  ASSUME NEW t, RouterIs(t), NEW r \in PlaceSet, r = Here, NEW kind \in {"sub", "group"}, NEW path \in Seq(Names),
         NewScope(t, t.of[r], kind, path), Len(path) < MaxDepth,
         NEW new \in Nat, new = Len(place'), new > Len(place), place' \in Seq(Routers), Opens(new, kind, path),
         NEW orig, Copies(t, orig, new), GroupsCopied(orig, r, new, kind), Fresh(r, new)
  PROVE  \E T : RouterIs(T)'
  <1>1. PICK w \in ScopeSet : w = t.of[r]
    BY ScopeOf
  <1>2. PICK s : s = Len(uses) + 1
    OBVIOUS
  <1>3. PICK T : Grew(t, T, w, s, kind, path, orig, new)
    BY <1>1, <1>2, Growing
  <1>4. /\ open' \in Seq(Opened) /\ Len(open') = Len(open) + 1 /\ Len(open) \in Nat
        /\ uses' \in Seq(Seq(Nat)) /\ Len(uses) \in Nat /\ Len(uses') = Len(uses) + 1
        /\ UsesGrow /\ routes' = routes
    BY OpensIs DEF UsesGrow
  <1>5. RouterTypes'
    <2>1. nodes' \in Seq(NodeMaps) /\ routes \in Seq(Routes) /\ Len(place) \in Nat
      BY LenProperties DEF Fresh, RouterIs, RouterTypes
    <2>2. Len(place') > 0 /\ Len(open') > 0 /\ Len(uses') > 0
      BY <1>4, <2>1
    <2> QED BY <1>4, <2>1, <2>2 DEF RouterTypes
  <1>6. Tree(T)'
    <2>1. T.of \in [PlaceSet' -> 1..s] /\ Wider(t, T, w, s, kind, path)
      BY <1>3 DEF Grew
    <2> QED BY <1>1, <1>2, <1>4, <2>1, TreeGrows
  <1>7. StackRight(T)' /\ OpeningGrows(s)
    <2>1. Wider(t, T, w, s, kind, path) /\ T.of[new] = s /\ \A q \in PlaceSet : T.of[q] = t.of[q]
      BY <1>3 DEF Grew
    <2>2. w = t.of[Here] /\ Len(place') > Len(place)
      BY <1>1
    <2> QED BY <1>2, <2>1, <2>2, StackGrows DEF OpeningGrows
  <1>8. PlacesRight(T)'
    BY <1>1, <1>2, <1>3, <1>4, <1>7, PlacesGrow
  <1>9. NodesRight(T)' /\ NodesStand
    BY <1>3, <1>4, NodesGrow
  <1>10. ScopesReached(T)' /\ Served(T)'
    BY <1>1, <1>3, <1>4, <1>7, <1>9, ReachedGrow
  <1>11. RouterIs(T)'
    BY <1>5, <1>6, <1>7, <1>8, <1>9, <1>10 DEF RouterIs
  <1> QED BY <1>11
-----------------------------------------------------------------------------
(* Sub, and Group with the groups that move.                                *)
LEMMA Closed ==
  ASSUME NEW t, RouterIs(t), NEW r \in PlaceSet, r = Here, NEW i \in 1..Len(place[r].groups)
  PROVE  /\ place[r].groups[i] \in PlaceSet /\ t.kind[t.of[place[r].groups[i]]] = "group"
         /\ ~Opening(t.of[place[r].groups[i]])
  <1>1. PICK n \in Nat : n = Len(open) /\ n > 0
    <2>1. Len(open) \in Nat /\ Len(open) > 0
      BY LenProperties DEF RouterIs, RouterTypes
    <2> QED BY <2>1
  <1>2. PICK gr \in PlaceSet : gr = place[r].groups[i] /\ t.kind[t.of[gr]] = "group" /\ t.within[t.of[gr]] = t.of[r]
    BY DEF RouterIs, PlacesRight, PlaceRight
  <1>3. open[n].scope = t.of[r]
    BY <1>1, HereIs DEF Last
  <1>4. \A k \in 1..n : t.chain[open[k].scope] = [j \in 1..k |-> open[j].scope]
    BY <1>1 DEF RouterIs, StackRight
  <1>5. ASSUME NEW k \in 1..n, open[k].scope = t.of[gr]
        PROVE  FALSE
    <2>1. CASE k = 1
      <3>1. t.of[gr] = 1
        BY <1>5, <2>1 DEF RouterIs, StackRight
      <3> QED BY <1>2, <3>1, RootIs
    <2>2. CASE k # 1
      <3>1. k \in 2..n /\ k - 1 \in 1..n /\ n \in 1..n
        BY <1>1, <2>2
      <3>2. open[k - 1].scope = open[n].scope
        BY <1>1, <1>2, <1>3, <1>5, <3>1 DEF RouterIs, StackRight
      <3>3. PICK a, b : a = [j \in 1..(k - 1) |-> open[j].scope] /\ b = [j \in 1..n |-> open[j].scope]
        OBVIOUS
      <3>4. a = b
        BY <1>4, <3>1, <3>2, <3>3
      <3>5. DOMAIN a = 1..(k - 1) /\ DOMAIN b = 1..n
        BY <3>3
      <3>6. n \in 1..n /\ n \notin 1..(k - 1)
        BY <1>1
      <3> QED BY <3>4, <3>5, <3>6
    <2> QED BY <2>1, <2>2
  <1>6. ~Opening(t.of[gr])
    BY <1>1, <1>5 DEF Opening
  <1> QED BY <1>2, <1>6

LEMMA ZeroIs ==
  ASSUME NEW r \in Nat
  PROVE  /\ Zero(r) \in Routers /\ Zero(r).nodes = 0 /\ Zero(r).parent = r
         /\ Zero(r).mws = <<>> /\ Zero(r).groups = <<>>
         /\ \A m \in Nat : LET x == [Zero(r) EXCEPT !.nodes = m] IN
                x \in Routers /\ x.nodes = m /\ x.parent = r /\ x.mws = <<>> /\ x.groups = <<>>
  <1>1. <<>> \in Seq(Nat)
    BY EmptySeq
  <1> QED BY <1>1 DEF Zero, Routers

LEMMA NoNodesIn ==
  NoNodes \in NodeMaps
  <1>1. NoNodes \in [{} -> NodeTypes] /\ {} \in SUBSET Names
    BY DEF NoNodes
  <1> QED BY <1>1 DEF NodeMaps

LEMMA SubKeeps ==
  ASSUME NEW t, RouterIs(t), NEW name \in Names, Sub(name)
  PROVE  \E T : RouterIs(T)'
  <1>1. PICK r \in PlaceSet : r = Here
    BY HereIs
  <1>2. PICK path \in Seq(Names) : path = Append(Prefix, name)
    BY HereIs, AppendProperties
  <1>3. /\ place \in Seq(Routers) /\ nodes \in Seq(NodeMaps) /\ Len(place) \in Nat /\ Len(nodes) \in Nat
    <2>1. place \in Seq(Routers) /\ nodes \in Seq(NodeMaps)
      BY DEF RouterIs, RouterTypes
    <2> QED BY <2>1, LenProperties
  <1>4. PICK new \in Nat, m \in Nat : new = Len(place) + 1 /\ m = Len(nodes) + 1
    BY <1>3
  <1>5. PICK x : x = [Zero(r) EXCEPT !.nodes = m]
    OBVIOUS
  <1>6. x \in Routers /\ x.nodes = m /\ x.parent = r /\ x.mws = <<>> /\ x.groups = <<>>
    <2>1. r \in Nat
      BY DEF PlaceSet
    <2> QED BY <1>5, <2>1, ZeroIs
  <1>7. place' = Append(place, x) /\ nodes' = Append(nodes, NoNodes) /\ Opens(new, "sub", path)
    BY <1>1, <1>2, <1>4, <1>5 DEF Sub
  <1>8. /\ place' \in Seq(Routers) /\ Len(place') = new /\ place'[new] = x /\ \A q \in PlaceSet : place'[q] = place[q]
    <2>1. PICK f : f = place'
      OBVIOUS
    <2>2. f \in Seq(Routers) /\ Len(f) = Len(place) + 1 /\ f[Len(place) + 1] = x /\ \A q \in 1..Len(place) : f[q] = place[q]
      BY <1>3, <1>6, <1>7, <2>1, AppendProperties
    <2> QED BY <1>4, <2>1, <2>2 DEF PlaceSet
  <1>9. /\ nodes' \in Seq(NodeMaps) /\ Len(nodes') = m /\ nodes'[m] = NoNodes
        /\ \A j \in 1..Len(nodes) : nodes'[j] = nodes[j]
    <2>1. PICK f, e : f = nodes' /\ e = NoNodes
      OBVIOUS
    <2>2. e \in NodeMaps /\ f = Append(nodes, e)
      BY <1>7, <2>1, NoNodesIn
    <2>3. f \in Seq(NodeMaps) /\ Len(f) = Len(nodes) + 1 /\ f[Len(nodes) + 1] = e /\ \A j \in 1..Len(nodes) : f[j] = nodes[j]
      BY <1>3, <2>2, AppendProperties
    <2> QED BY <1>4, <2>1, <2>3
  <1>10. Fresh(r, new)
    <2>1. NodesOf(new)' = NoNodes
      <3>1. place'[new].nodes = m /\ m # 0
        BY <1>3, <1>4, <1>6, <1>8
      <3>2. NodesOf(new)' = nodes'[m]
        BY <3>1 DEF NodesOf, NoNodes
      <3> QED BY <1>9, <3>2
    <2>2. m \in 0..Len(nodes') /\ m \notin 1..Len(nodes) /\ Len(nodes') >= Len(nodes)
      BY <1>3, <1>4, <1>9
    <2> QED BY <1>6, <1>8, <1>9, <2>1, <2>2 DEF Fresh
  <1>11. PICK orig : orig = [q \in PlaceSet |-> q]
    OBVIOUS
  <1>12. 1..(new - 1) = PlaceSet
    BY <1>3, <1>4 DEF PlaceSet
  <1>13. Copies(t, orig, new)
    BY <1>8, <1>11, <1>12 DEF Copies
  <1>14. GroupsCopied(orig, r, new, "sub")
    <2>1. ASSUME NEW q \in PlaceSet, NEW i \in 1..Len(place[q].groups)
          PROVE  place[q].groups[i] \in PlaceSet
      BY DEF RouterIs, PlacesRight, PlaceRight
    <2> QED BY <1>8, <1>11, <1>12, <2>1 DEF GroupsCopied
  <1>15. NewScope(t, t.of[r], "sub", path) /\ Len(path) < MaxDepth
    <2>1. PICK p \in Seq(Names) : p = Prefix /\ p = t.path[t.of[r]]
      BY <1>1, HereIs
    <2>2. Len(path) = Len(p) + 1
      BY <1>2, <2>1, AppendProperties
    <2> QED BY <1>2, <2>1, <2>2 DEF NewScope, Sub
  <1>16. new = Len(place') /\ new > Len(place)
    BY <1>3, <1>4, <1>8
  <1> QED BY <1>1, <1>7, <1>8, <1>10, <1>13, <1>14, <1>15, <1>16, Grows

LEMMA Concatenation ==
  ASSUME NEW X, NEW a \in Seq(X), NEW b \in Seq(X), NEW c, c = a \o b
  PROVE  /\ c \in Seq(X) /\ Len(c) = Len(a) + Len(b)
         /\ \A i \in 1..Len(a) : c[i] = a[i]
         /\ \A i \in 1..Len(b) : c[Len(a) + i] = b[i]
  <1>1. /\ c \in Seq(X) /\ Len(c) = Len(a) + Len(b)
        /\ \A i \in 1..(Len(a) + Len(b)) : c[i] = IF i <= Len(a) THEN a[i] ELSE b[i - Len(a)]
    BY Concatenated
  <1>2. Len(a) \in Nat /\ Len(b) \in Nat
    BY LenProperties
  <1>3. ASSUME NEW i \in 1..Len(a)
        PROVE  c[i] = a[i]
    BY <1>1, <1>2
  <1>4. ASSUME NEW i \in 1..Len(b)
        PROVE  c[Len(a) + i] = b[i]
    <2>1. Len(a) + i \in 1..(Len(a) + Len(b)) /\ ~(Len(a) + i <= Len(a)) /\ (Len(a) + i) - Len(a) = i
      BY <1>2
    <2> QED BY <1>1, <2>1
  <1> QED BY <1>1, <1>3, <1>4

(* What With does to the places: N of them before, M moved, and the new one. *)
Withed(r, N, M, new) ==
    /\ place' \in Seq(Routers) /\ Len(place') = new /\ new = N + M + 1
    /\ \A q \in 1..N : /\ q # r => place'[q] = place[q]
                       /\ place'[q].nodes = place[q].nodes /\ place'[q].mws = place[q].mws
                       /\ place'[q].parent = place[q].parent
    /\ \A i \in 1..M : place'[N + i] = place[place[r].groups[i]]
    /\ place'[new] = Zero(r)
    /\ Len(place'[r].groups) = Len(place[r].groups) + 1
    /\ place'[r].groups[Len(place[r].groups) + 1] = new
    /\ \A i \in 1..Len(place[r].groups) :
           place'[r].groups[i] = IF M = 0 THEN place[r].groups[i] ELSE N + i

LEMMA WithIs ==
  ASSUME NEW t, RouterIs(t), NEW r \in PlaceSet, NEW N \in Nat, N = Len(place), With(r)
  PROVE  \E M \in Nat, new \in Nat :
             M \in {0, Len(place[r].groups)} /\ Withed(r, N, M, new) /\ Opens(new, "group", Prefix) /\ nodes' = nodes
  <1>1. PICK gr \in Seq(Nat), G \in Nat : gr = place[r].groups /\ G = Len(gr) /\ DOMAIN gr = 1..G
    <2>1. place[r].groups \in Seq(Nat)
      BY PlaceTypes DEF RouterIs, RouterTypes
    <2> QED BY <2>1, LenProperties
  <1>2. PICK moved : moved = IF G = place[r].cap THEN [i \in DOMAIN gr |-> place[gr[i]]] ELSE <<>>
    OBVIOUS
  <1>3. PICK kept : kept = IF G = place[r].cap THEN [i \in DOMAIN gr |-> N + i] ELSE gr
    OBVIOUS
  <1>4. PICK M \in Nat : M = IF G = place[r].cap THEN G ELSE 0
    BY <1>1
  <1>5. \A i \in 1..G : gr[i] \in PlaceSet
    BY <1>1 DEF RouterIs, PlacesRight, PlaceRight
  <1>6. moved \in Seq(Routers) /\ Len(moved) = M /\ \A i \in 1..M : moved[i] = place[gr[i]]
    <2>1. \A i \in 1..G : place[gr[i]] \in Routers
      BY <1>5, PlaceTypes DEF RouterIs, RouterTypes
    <2>2. CASE G = place[r].cap
      <3>1. moved = [i \in 1..G |-> place[gr[i]]]
        BY <1>1, <1>2, <2>2
      <3>2. moved \in [1..G -> Routers] /\ \A i \in 1..G : moved[i] = place[gr[i]]
        BY <2>1, <3>1
      <3>3. moved \in Seq(Routers) /\ Len(moved) = G
        BY <3>2
      <3> QED BY <1>4, <2>2, <3>2, <3>3
    <2>3. CASE G # place[r].cap
      BY <1>2, <1>4, <2>3, EmptySeq
    <2> QED BY <2>2, <2>3
  <1>7. kept \in Seq(Nat) /\ Len(kept) = G /\ \A i \in 1..G : kept[i] = IF M = 0 THEN gr[i] ELSE N + i
    <2>1. CASE G = place[r].cap
      <3>1. kept = [i \in 1..G |-> N + i] /\ M = G
        BY <1>1, <1>3, <1>4, <2>1
      <3>2. \A i \in 1..G : M # 0
        BY <3>1
      <3> QED BY <3>1, <3>2
    <2>2. CASE G # place[r].cap
      BY <1>1, <1>3, <1>4, <2>2
    <2> QED BY <2>1, <2>2
  <1>8. PICK new \in Nat : new = N + M + 1
    BY <1>4
  <1>9. PICK c : c = IF G # place[r].cap THEN place[r].cap ELSE IF place[r].cap = 0 THEN 1 ELSE 2 * place[r].cap
    OBVIOUS
  <1>10. c \in Nat /\ place[r] \in Routers /\ place \in Seq(Routers)
    <2>1. place \in Seq(Routers)
      BY DEF RouterIs, RouterTypes
    <2>2. place[r].cap \in Nat /\ place[r] \in Routers
      BY <2>1, PlaceTypes
    <2>3. 2 * place[r].cap \in Nat
      BY <2>2
    <2> QED BY <1>9, <2>1, <2>2, <2>3
  <1>11. PICK h \in Seq(Nat) : h = Append(kept, new)
    BY <1>7, <1>8, AppendProperties
  <1>12. PICK x : x = [place[r] EXCEPT !.groups = h, !.cap = c]
    OBVIOUS
  <1>13. x \in Routers /\ x.groups = h /\ x.nodes = place[r].nodes /\ x.mws = place[r].mws /\ x.parent = place[r].parent
    BY <1>10, <1>11, <1>12 DEF Routers
  <1>14. PICK P : P = [place EXCEPT ![r] = x]
    OBVIOUS
  <1>15. P \in Seq(Routers) /\ Len(P) = N /\ \A q \in 1..N : P[q] = IF q = r THEN x ELSE place[q]
    BY <1>10, <1>13, <1>14, ExceptSeq DEF PlaceSet
  <1>16. PICK z : z = <<Zero(r)>>
    OBVIOUS
  <1>17. /\ place' = (P \o moved) \o z
         /\ Opens(new, "group", Prefix) /\ nodes' = nodes
    <2>1. Len(place) + Len(moved) + 1 = new
      BY <1>6, <1>8
    <2>2. /\ place' = ([place EXCEPT
                           ![r].groups = Append(kept, new),
                           ![r].cap = IF ~(G = place[r].cap) THEN @ ELSE IF @ = 0 THEN 1 ELSE 2 * @]
                       \o moved) \o <<Zero(r)>>
          /\ Opens(new, "group", Prefix) /\ nodes' = nodes
      BY <1>1, <1>2, <1>3, <2>1, Zenon DEF With
    <2>3. P = [place EXCEPT
                   ![r].groups = Append(kept, new),
                   ![r].cap = IF ~(G = place[r].cap) THEN @ ELSE IF @ = 0 THEN 1 ELSE 2 * @]
      BY <1>9, <1>10, <1>11, <1>12, <1>14 DEF PlaceSet, Routers
    <2> QED BY <1>16, <2>2, <2>3
  <1>18. PICK Q : Q = P \o moved
    OBVIOUS
  <1>19. /\ Q \in Seq(Routers) /\ Len(Q) = N + M
         /\ \A q \in 1..N : Q[q] = P[q]
         /\ \A i \in 1..M : Q[N + i] = place[gr[i]]
    <2>1. P \in Seq(Routers) /\ moved \in Seq(Routers)
      BY <1>6, <1>15
    <2>2. /\ Q \in Seq(Routers) /\ Len(Q) = Len(P) + Len(moved)
          /\ \A q \in 1..Len(P) : Q[q] = P[q]
          /\ \A i \in 1..Len(moved) : Q[Len(P) + i] = moved[i]
      BY <1>18, <2>1, Concatenation
    <2> QED BY <1>6, <1>15, <2>2
  <1>20. z \in Seq(Routers) /\ Len(z) = 1 /\ z[1] = Zero(r)
    <2>1. Zero(r) \in Routers
      BY ZeroIs DEF PlaceSet
    <2>2. PICK e : e = Zero(r)
      OBVIOUS
    <2>3. <<e>> \in Seq(Routers) /\ Len(<<e>>) = 1 /\ <<e>>[1] = e
      BY <2>1, <2>2
    <2> QED BY <1>16, <2>2, <2>3
  <1>21. PICK f : f = place'
    OBVIOUS
  <1>22. /\ f \in Seq(Routers) /\ Len(f) = new /\ f[new] = Zero(r)
         /\ \A q \in 1..(N + M) : f[q] = Q[q]
    <2>1. PICK K \in Nat : K = N + M
      BY <1>4
    <2>2. f = Q \o z
      BY <1>17, <1>18, <1>21
    <2>3. Q \in Seq(Routers) /\ z \in Seq(Routers) /\ Len(Q) = K /\ Len(z) = 1
      BY <1>19, <1>20, <2>1
    <2>4. /\ f \in Seq(Routers) /\ Len(f) = Len(Q) + Len(z)
          /\ \A q \in 1..Len(Q) : f[q] = Q[q]
          /\ \A i \in 1..Len(z) : f[Len(Q) + i] = z[i]
      <3>1. Q \in Seq(Routers) /\ z \in Seq(Routers)
        BY <2>3
      <3>2. f = Q \o z
        BY <2>2
      <3> QED BY <3>1, <3>2, Concatenation
    <2>5. f[K + 1] = z[1]
      BY <2>3, <2>4
    <2> QED BY <1>8, <1>20, <2>1, <2>3, <2>4, <2>5
  <1>23. /\ \A q \in 1..N : f[q] = P[q]
         /\ \A i \in 1..M : f[N + i] = place[gr[i]]
    <2>1. \A q \in 1..N : q \in 1..(N + M)
      BY <1>4
    <2>2. \A i \in 1..M : N + i \in 1..(N + M)
      BY <1>4
    <2> QED BY <1>19, <1>22, <2>1, <2>2
  <1>24. \A q \in 1..N : /\ q # r => f[q] = place[q]
                         /\ f[q].nodes = place[q].nodes /\ f[q].mws = place[q].mws /\ f[q].parent = place[q].parent
    BY <1>13, <1>15, <1>23
  <1>25. f[r].groups = h
    <2>1. r \in 1..N
      BY DEF PlaceSet
    <2> QED BY <1>13, <1>15, <1>23, <2>1
  <1>26. Len(h) = G + 1 /\ h[G + 1] = new /\ \A i \in 1..G : h[i] = kept[i]
    BY <1>7, <1>8, <1>11, AppendProperties
  <1>27. Withed(r, N, M, new)
    BY <1>1, <1>7, <1>8, <1>21, <1>22, <1>23, <1>24, <1>25, <1>26 DEF Withed
  <1>28. M \in {0, Len(place[r].groups)}
    BY <1>1, <1>4
  <1> QED BY <1>4, <1>8, <1>17, <1>27, <1>28

LEMMA GroupKeeps ==
  ASSUME NEW t, RouterIs(t), Group
  PROVE  \E T : RouterIs(T)'
  <1>1. PICK r \in PlaceSet : r = Here
    BY HereIs
  <1>2. PICK N \in Nat : N = Len(place) /\ PlaceSet = 1..N
    <2>1. Len(place) \in Nat
      BY LenProperties DEF RouterIs, RouterTypes
    <2> QED BY <2>1 DEF PlaceSet
  <1>3. PICK M \in Nat, new \in Nat :
            /\ M \in {0, Len(place[r].groups)} /\ Withed(r, N, M, new)
            /\ Opens(new, "group", Prefix) /\ nodes' = nodes
    <2>1. With(r)
      BY <1>1 DEF Group
    <2> QED BY <1>2, <2>1, WithIs
  <1>4. PICK path \in Seq(Names) : path = Prefix /\ path = t.path[t.of[r]]
    BY <1>1, HereIs
  <1>5. PICK G \in Nat : G = Len(place[r].groups) /\ M \in {0, G}
    <2>1. place[r].groups \in Seq(Nat)
      BY PlaceTypes DEF RouterIs, RouterTypes
    <2>2. Len(place[r].groups) \in Nat
      BY <2>1, LenProperties
    <2>3. M = 0 \/ M = Len(place[r].groups)
      BY <1>3
    <2> QED BY <2>2, <2>3
  <1>0. PICK gr : gr = place[r].groups
    OBVIOUS
  <1>6. /\ place' \in Seq(Routers) /\ Len(place') = new /\ new = N + M + 1
        /\ \A q \in 1..N : /\ q # r => place'[q] = place[q]
                           /\ place'[q].nodes = place[q].nodes /\ place'[q].mws = place[q].mws
                           /\ place'[q].parent = place[q].parent
        /\ \A i \in 1..M : place'[N + i] = place[gr[i]]
        /\ place'[new] = Zero(r)
        /\ Len(place'[r].groups) = G + 1 /\ place'[r].groups[G + 1] = new
        /\ \A i \in 1..G : place'[r].groups[i] = IF M = 0 THEN gr[i] ELSE N + i
    BY <1>3, <1>5, <1>0 DEF Withed
  <1>7. \A i \in 1..G : gr[i] \in 1..N /\ t.kind[t.of[gr[i]]] = "group" /\ ~Opening(t.of[gr[i]])
    BY <1>1, <1>2, <1>5, <1>0, Closed
  <1>8. PICK orig : orig = [q \in 1..(new - 1) |-> IF q <= N THEN q ELSE gr[q - N]]
    OBVIOUS
  <1>9. /\ \A q \in 1..(new - 1) : q \in 1..N \/ (q - N \in 1..M /\ q - N \in 1..G /\ N + (q - N) = q)
        /\ \A q \in 1..N : q \in 1..(new - 1) /\ q <= N
        /\ \A i \in 1..M : N + i \in 1..(new - 1) /\ ~(N + i <= N) /\ (N + i) - N = i
    <2>1. new = N + M + 1
      BY <1>6
    <2>2. ASSUME NEW q \in 1..(new - 1)
          PROVE  q \in 1..N \/ (q - N \in 1..M /\ q - N \in 1..G /\ N + (q - N) = q)
      BY <1>5, <2>1
    <2>3. ASSUME NEW q \in 1..N
          PROVE  q \in 1..(new - 1) /\ q <= N
      BY <2>1
    <2>4. ASSUME NEW i \in 1..M
          PROVE  N + i \in 1..(new - 1) /\ ~(N + i <= N) /\ (N + i) - N = i
      BY <2>1
    <2> QED BY <2>2, <2>3, <2>4
  <1>10. /\ \A q \in 1..N : orig[q] = q
         /\ \A i \in 1..M : orig[N + i] = gr[i]
    BY <1>8, <1>9
  <1>11. \A q \in 1..(new - 1) : q \in 1..N \/ \E i \in 1..M : i \in 1..G /\ q = N + i
    BY <1>9
  <1>12. orig \in [1..(new - 1) -> 1..N]
    <2>1. ASSUME NEW q \in 1..(new - 1)
          PROVE  orig[q] \in 1..N
      <3>1. CASE q \in 1..N
        BY <1>10, <3>1
      <3>2. CASE \E i \in 1..M : i \in 1..G /\ q = N + i
        <4>1. PICK i \in 1..M : i \in 1..G /\ q = N + i
          BY <3>2
        <4> QED BY <1>7, <1>10, <4>1
      <3> QED BY <1>11, <3>1, <3>2
    <2>2. orig = [q \in 1..(new - 1) |-> orig[q]]
      BY <1>8
    <2> QED BY <2>1, <2>2
  <1>13. Copies(t, orig, new)
    <2>1. ASSUME NEW q \in 1..(new - 1)
          PROVE  /\ q \in PlaceSet \/ (t.kind[t.of[orig[q]]] = "group" /\ ~Opening(t.of[orig[q]]))
                 /\ place'[q].nodes = place[orig[q]].nodes /\ place'[q].mws = place[orig[q]].mws
                 /\ place'[q].parent = place[orig[q]].parent
      <3>1. CASE q \in 1..N
        BY <1>2, <1>6, <1>10, <3>1
      <3>2. CASE \E i \in 1..M : i \in 1..G /\ q = N + i
        <4>1. PICK i \in 1..M : i \in 1..G /\ q = N + i
          BY <3>2
        <4>2. orig[q] = gr[i] /\ place'[q] = place[gr[i]]
          BY <1>6, <1>10, <4>1
        <4> QED BY <1>7, <4>1, <4>2
      <3> QED BY <1>11, <3>1, <3>2
    <2> QED BY <1>2, <1>10, <1>12, <2>1 DEF Copies
  <1>14. ASSUME NEW i \in 1..G
         PROVE  place'[r].groups[i] \in 1..(new - 1) /\ orig[place'[r].groups[i]] = gr[i]
    <2>0. place'[r].groups[i] = IF M = 0 THEN gr[i] ELSE N + i
      BY <1>6
    <2>1. CASE M = 0
      <3>1. place'[r].groups[i] = gr[i]
        BY <2>0, <2>1
      <3>2. PICK h \in 1..N : h = gr[i]
        BY <1>7
      <3>3. h \in 1..(new - 1) /\ orig[h] = h
        BY <1>9, <1>10
      <3> QED BY <3>1, <3>2, <3>3
    <2>2. CASE M = G
      <3>0. M # 0
        BY <2>2
      <3>1. place'[r].groups[i] = N + i
        BY <2>0, <3>0
      <3>2. N + i \in 1..(new - 1) /\ orig[N + i] = gr[i]
        BY <1>9, <1>10, <2>2
      <3> QED BY <3>1, <3>2
    <2> QED BY <1>5, <2>1, <2>2
  <1>15. \A q \in 1..N : \A i \in 1..Len(place[q].groups) : place[q].groups[i] \in 1..N
    BY <1>2 DEF RouterIs, PlacesRight, PlaceRight
  <1>16. GroupsCopied(orig, r, new, "group")
    <2>1. ASSUME NEW q \in 1..(new - 1), NEW i \in 1..Len(place'[q].groups)
          PROVE  \/ place'[q].groups[i] = new /\ q = r
                 \/ /\ place'[q].groups[i] \in 1..(new - 1)
                    /\ \E j \in 1..Len(place[orig[q]].groups) : orig[place'[q].groups[i]] = place[orig[q]].groups[j]
      <3>1. CASE q = r
        <4>1. i = G + 1 \/ i \in 1..G
          BY <1>6, <3>1
        <4>2. orig[q] = r
          BY <1>2, <1>10, <3>1
        <4>3. CASE i = G + 1
          BY <1>6, <3>1, <4>3
        <4>4. CASE i \in 1..G
          <5>1. /\ place'[q].groups[i] \in 1..(new - 1)
                /\ orig[place'[q].groups[i]] = place[orig[q]].groups[i]
            BY <1>0, <1>14, <3>1, <4>2, <4>4
          <5>2. i \in 1..Len(place[orig[q]].groups)
            BY <1>5, <4>2, <4>4
          <5> QED BY <5>1, <5>2
        <4> QED BY <4>1, <4>3, <4>4
      <3>2. CASE q # r
        <4>1. PICK o \in 1..N : o = orig[q] /\ place'[q].groups = place[o].groups
          <5>1. CASE q \in 1..N
            BY <1>6, <1>10, <3>2, <5>1
          <5>2. CASE \E k \in 1..M : k \in 1..G /\ q = N + k
            <6>1. PICK k \in 1..M : k \in 1..G /\ q = N + k
              BY <5>2
            <6>2. orig[q] = gr[k] /\ place'[q] = place[gr[k]]
              BY <1>6, <1>10, <6>1
            <6> QED BY <1>7, <6>1, <6>2
          <5> QED BY <1>11, <5>1, <5>2
        <4>2. PICK h \in 1..N : h = place[o].groups[i] /\ h = place'[q].groups[i]
          BY <1>15, <4>1
        <4>3. h \in 1..(new - 1) /\ orig[h] = h
          BY <1>9, <1>10
        <4>4. i \in 1..Len(place[o].groups)
          BY <4>1
        <4> QED BY <4>1, <4>2, <4>3, <4>4
      <3> QED BY <3>1, <3>2
    <2>2. ASSUME NEW q \in 1..N, NEW j \in 1..Len(place[q].groups)
          PROVE  \E i \in 1..Len(place'[q].groups) :
                     place'[q].groups[i] \in 1..(new - 1) /\ orig[place'[q].groups[i]] = place[q].groups[j]
      <3>1. CASE q = r
        <4>1. j \in 1..G /\ j \in 1..Len(place'[r].groups)
          BY <1>5, <1>0, <1>6, <3>1
        <4> QED BY <1>5, <1>0, <1>14, <3>1, <4>1
      <3>2. CASE q # r
        <4>1. place'[q] = place[q] /\ place[q].groups[j] \in 1..N
          BY <1>6, <1>15, <3>2
        <4>2. PICK h \in 1..N : h = place[q].groups[j] /\ h = place'[q].groups[j]
          BY <4>1
        <4>3. h \in 1..(new - 1) /\ orig[h] = h
          BY <1>9, <1>10
        <4>4. j \in 1..Len(place'[q].groups)
          BY <4>1
        <4> QED BY <4>2, <4>3, <4>4
      <3> QED BY <3>1, <3>2
    <2>3. G + 1 \in 1..Len(place'[r].groups)
      BY <1>6
    <2> QED BY <1>2, <1>6, <2>1, <2>2, <2>3 DEF GroupsCopied
  <1>17. Fresh(r, new)
    <2>1. r \in Nat
      BY DEF PlaceSet
    <2>2. place'[new].parent = r /\ place'[new].mws = <<>> /\ place'[new].groups = <<>> /\ place'[new].nodes = 0
      BY <1>6, <2>1, ZeroIs
    <2>3. NodesOf(new)' = NoNodes
      BY <2>2 DEF NodesOf, NoNodes
    <2>4. nodes \in Seq(NodeMaps) /\ Len(nodes) \in Nat
      <3>1. nodes \in Seq(NodeMaps)
        BY DEF RouterIs, RouterTypes
      <3> QED BY <3>1, LenProperties
    <2> QED BY <1>3, <2>2, <2>3, <2>4 DEF Fresh
  <1>18. NewScope(t, t.of[r], "group", path)
    <2>1. t.kind[t.of[r]] # "group"
      BY <1>1, HereIs DEF Group
    <2> QED BY <1>4, <2>1 DEF NewScope
  <1>19. Len(path) < MaxDepth
    BY <1>4, ScopeOf DEF RouterIs, Tree
  <1>20. new = Len(place') /\ new > Len(place) /\ place' \in Seq(Routers) /\ Opens(new, "group", path)
    BY <1>2, <1>3, <1>4, <1>6
  <1> QED BY <1>1, <1>13, <1>16, <1>17, <1>18, <1>19, <1>20, Grows

LEMMA RouterStarts ==
  ASSUME RouterInit
  PROVE  RouterIs(FirstTree)
  <1>1. PICK x : x = [Zero(0) EXCEPT !.nodes = 1]
    OBVIOUS
  <1>2. x \in Routers /\ x.nodes = 1 /\ x.parent = 0 /\ x.mws = <<>> /\ x.groups = <<>>
    <2>1. PICK r \in Nat : r = 0
      OBVIOUS
    <2>2. PICK m \in Nat : m = 1
      OBVIOUS
    <2>3. x = [Zero(r) EXCEPT !.nodes = m]
      BY <1>1, <2>1, <2>2
    <2>4. x \in Routers /\ x.nodes = m /\ x.parent = r /\ x.mws = <<>> /\ x.groups = <<>>
      BY <2>3, ZeroIs
    <2> QED BY <2>1, <2>2, <2>4
  <1>3. PICK e : e = NoNodes
    OBVIOUS
  <1>4. PICK o : o = [at |-> 1, kind |-> "root", path |-> <<>>, scope |-> 1]
    OBVIOUS
  <1>5. o \in Opened /\ o.at = 1 /\ o.kind = "root" /\ o.path = <<>> /\ o.scope = 1
    <2>1. <<>> \in Seq(Names)
      BY EmptySeq
    <2> QED BY <1>4, <2>1 DEF Opened, ScopeKinds
  <1>6. place = <<x>> /\ nodes = <<e>> /\ open = <<o>> /\ routes = <<>> /\ uses = <<<<>>>>
    BY <1>1, <1>3, <1>4 DEF RouterInit
  <1>7. PICK z \in Seq(Nat) : z = <<>>
    BY EmptySeq
  <1>8. /\ place \in Seq(Routers) /\ Len(place) = 1 /\ place[1] = x
    BY <1>2, <1>6
  <1>9. nodes \in Seq(NodeMaps) /\ Len(nodes) = 1 /\ nodes[1] = e
    <2>1. e \in NodeMaps
      BY <1>3, NoNodesIn
    <2> QED BY <1>6, <2>1
  <1>10. open \in Seq(Opened) /\ Len(open) = 1 /\ open[1] = o
    BY <1>5, <1>6
  <1>11. uses \in Seq(Seq(Nat)) /\ Len(uses) = 1 /\ uses[1] = <<>>
    <2>1. uses = <<z>>
      BY <1>6, <1>7
    <2> QED BY <1>7, <2>1
  <1>12. routes \in Seq(Routes) /\ Len(routes) = 0
    BY <1>6, EmptySeq
  <1>13. RouterTypes
    BY <1>8, <1>9, <1>10, <1>11, <1>12 DEF RouterTypes
  <1>14. PlaceSet = {1} /\ ScopeSet = {1}
    BY <1>8, <1>11 DEF PlaceSet, ScopeSet
  <1>15. PICK t : t = FirstTree
    OBVIOUS
  <1>16. PICK p \in Seq(Names) : p = <<>> /\ Len(p) = 0
    BY EmptySeq
  <1>17. PICK c \in Seq(Nat) : c = <<1>>
    <2>1. PICK n \in Nat : n = 1
      OBVIOUS
    <2>2. <<n>> \in Seq(Nat)
      OBVIOUS
    <2> QED BY <2>1, <2>2
  <1>18. /\ t.of = [i \in {1} |-> 1] /\ t.kind = [i \in {1} |-> "root"] /\ t.within = [i \in {1} |-> 0]
         /\ t.path = [i \in {1} |-> p] /\ t.chain = [i \in {1} |-> c]
    BY <1>15, <1>16, <1>17 DEF FirstTree
  <1>19. Tree(t)
    <2>1. /\ t.of \in [{1} -> {1}] /\ t.kind \in [{1} -> ScopeKinds] /\ t.within \in [{1} -> Nat]
          /\ t.path \in [{1} -> Seq(Names)] /\ t.chain \in [{1} -> Seq(Nat)]
      BY <1>18 DEF ScopeKinds
    <2>2. t.kind[1] = "root" /\ t.path[1] = <<>> /\ t.chain[1] = <<1>>
      BY <1>16, <1>17, <1>18
    <2>3. Len(t.path[1]) < MaxDepth
      BY <1>16, <1>18, RouterAssumption
    <2> QED BY <1>14, <2>1, <2>2, <2>3 DEF Tree
  <1>20. PlacesRight(t)
    <2>1. t.of[1] = 1
      BY <1>18
    <2>2. PlaceRight(t, 1)
      BY <1>2, <1>8, <1>9, <1>11, <2>1, EmptySeq DEF PlaceRight
    <2> QED BY <1>14, <2>1, <2>2 DEF PlacesRight
  <1>21. StackRight(t)
    <2>1. t.chain[1] = [k \in 1..1 |-> open[k].scope]
      BY <1>5, <1>10, <1>17, <1>18
    <2>2. t.of[1] = 1 /\ t.kind[1] = "root" /\ t.path[1] = <<>>
      BY <1>16, <1>18
    <2> QED BY <1>5, <1>10, <1>14, <2>1, <2>2 DEF StackRight
  <1>22. NodesRight(t)
    <2>1. NodesOf(1) = e
      BY <1>2, <1>3, <1>8, <1>9 DEF NodesOf
    <2>2. DOMAIN NodesOf(1) = {}
      BY <1>3, <2>1 DEF NoNodes
    <2> QED BY <1>14, <2>2 DEF NodesRight
  <1>23. ScopesReached(t) /\ Served(t)
    BY <1>12, <1>14 DEF ScopesReached, Served
  <1> QED BY <1>13, <1>15, <1>19, <1>20, <1>21, <1>22, <1>23 DEF RouterIs

(* What holds of the routers between two registrations.                     *)
RouterInv == \E t : RouterIs(t)

LEMMA RouterKeeps ==
  ASSUME RouterInv, [RouterNext]_routerVars
  PROVE  RouterInv'
  <1>1. PICK t : RouterIs(t)
    BY DEF RouterInv
  <1>2. ASSUME NEW n \in Names, AddCommand(n)
        PROVE  RouterInv'
    BY <1>1, <1>2, AddCommandKeeps DEF RouterInv
  <1>3. ASSUME NEW n \in Names, AddAutocompleter(n)
        PROVE  RouterInv'
    BY <1>1, <1>3, AddAutocompleterKeeps DEF RouterInv
  <1>4. ASSUME NEW n \in Names, AddComponent(n)
        PROVE  RouterInv'
    BY <1>1, <1>4, AddComponentKeeps DEF RouterInv
  <1>5. ASSUME NEW n \in Names, Sub(n)
        PROVE  RouterInv'
    BY <1>1, <1>5, SubKeeps DEF RouterInv
  <1>6. CASE Use
    BY <1>1, <1>6, UseKeeps DEF RouterInv
  <1>7. CASE Group
    BY <1>1, <1>7, GroupKeeps DEF RouterInv
  <1>8. CASE LeaveScope
    <2>1. CASE Last(open).kind = "group"
      BY <1>1, <1>8, <2>1, LeaveGroupKeeps DEF RouterInv
    <2>2. CASE Last(open).kind # "group"
      BY <1>1, <1>8, <2>2, LeaveSubKeeps DEF RouterInv
    <2> QED BY <2>1, <2>2
  <1>9. CASE UNCHANGED routerVars
    <2>1. place' = place /\ nodes' = nodes /\ open' = open /\ routes' = routes /\ uses' = uses
      BY <1>9 DEF routerVars
    <2>2. /\ PlaceSet' = PlaceSet /\ ScopeSet' = ScopeSet /\ RouterTypes' = RouterTypes
          /\ \A q : NodesOf(q)' = NodesOf(q)
          /\ \A s : Opening(s)' = Opening(s)
      BY <2>1 DEF PlaceSet, ScopeSet, RouterTypes, NodesOf, Opening
    <2>3. Tree(t)'
      BY <1>1, <2>2 DEF RouterIs, Tree
    <2>4. PlacesRight(t)'
      BY <1>1, <2>1, <2>2 DEF RouterIs, PlacesRight, PlaceRight
    <2>5. StackRight(t)'
      <3>1. Len(place') = Len(place) /\ Len(uses') = Len(uses)
        BY <2>1
      <3> QED BY <1>1, <2>1, <3>1, StackStays
    <2>6. NodesRight(t)'
      <3>1. \A node, name, s : NodeRight(t, node, name, s) => NodeRight(t, node, name, s)'
        <4>1. \A i, kind, name, s : RouteAt(t, i, kind, name, s) => RouteAt(t, i, kind, name, s)'
          BY <2>1 DEF RouteAt
        <4>2. PlaceSet' = PlaceSet
          BY <2>2
        <4> QED BY ONLY <4>1, <4>2 DEF NodeRight
      <3>2. NodesRight(t)
        BY <1>1 DEF RouterIs
      <3> QED BY <2>2, <3>1, <3>2, Zenon DEF NodesRight
    <2>7. ScopesReached(t)'
      BY <1>1, <2>1, <2>2 DEF RouterIs, ScopesReached, GroupAt, SubAt
    <2>8. Served(t)'
      BY <1>1, <2>1, <2>2 DEF RouterIs, Served, ServedAt
    <2>9. RouterTypes'
      BY <1>1, <2>2 DEF RouterIs
    <2> QED BY <2>3, <2>4, <2>5, <2>6, <2>7, <2>8, <2>9 DEF RouterIs, RouterInv
  <1> QED BY <1>2, <1>3, <1>4, <1>5, <1>6, <1>7, <1>8, <1>9 DEF RouterNext

(* Once registration is over, every interaction of the router reaches the   *)
(* handler that was registered for it, and no other, through the            *)
(* middlewares of the scopes it was registered in, outermost first; however *)
(* often append moved the groups of a router meanwhile.                     *)
THEOREM RoutesAreRight == RouterSpec => []RoutesRight
  <1>1. RouterInit => RouterInv
    BY RouterStarts DEF RouterInv
  <1>2. RouterInv /\ [RouterNext]_routerVars => RouterInv'
    BY RouterKeeps
  <1>3. RouterInv => RoutesRight
    BY RoutedRight DEF RouterInv
  <1> QED BY <1>1, <1>2, <1>3, PTL DEF RouterSpec
=============================================================================
