---------------------------- MODULE StateMessages ----------------------------
(***************************************************************************)
(* The message cache of state.State for one channel: a list of at most      *)
(* maxMsgs messages, latest first, that events keep up to date while calls  *)
(* of State.Messages extend it at its old end with what the API answers,    *)
(* and the mark that says that a channel has no more messages than these.   *)
(***************************************************************************)
EXTENDS Integers, FiniteSets, Sequences, SequencesExt

CONSTANTS
    Callers,  \* goroutines that call State.Messages
    Limits,   \* with these limits
    People, Self, Faces,  \* users, the user of this session, and emojis
    maxMsgs,  \* the capacity of the store
    MaxId,    \* bound on message identifiers; two share a millisecond
    MaxText,  \* bound on the edits of a message
    MaxQueued,
    Themes    \* a behaviour is about "list", about "content" or about both

ASSUME MessagesAssumption ==
    Self \in People /\ Limits \subseteq Nat /\ maxMsgs \in Nat /\ MaxId \in Nat /\ MaxText \in Nat /\ MaxQueued \in Nat

VARIABLES
    tracked,   \* tracksMessage: the intents cover this channel
    theme,
    posts,     \* server: the messages there are, id |-> [text, empty, by]: the last text, 0 for none; none now; who reacted
    latest,    \* server: the identifiers used
    feed,      \* events between the server and the handler
    msgs,      \* the store's list
    few,       \* the channel is in State.fewMessages
    clearing,  \* between the handlers of READY and handleReady
    get,       \* caller |-> its call
    unsure,    \* history: messages with an answer that is not in step with the events
    gap        \* history: something that may leave a hole in the list has happened

sideVars == <<tracked, theme>>
messageVars == <<sideVars, posts, latest, feed, msgs, few, clearing, get, unsure, gap>>

Ids == 1..MaxId
Time(id) == id \div 2

-----------------------------------------------------------------------------
(* The message store.                                                       *)

(* A message: its text, 0 if it has none, and of each emoji how many have   *)
(* reacted with it and whether Self has.                                    *)
Seen(id, p) ==
    [id |-> id, text |-> IF p.empty THEN 0 ELSE p.text,
     count |-> [e \in Faces |-> Cardinality(p.by[e])], me |-> [e \in Faces |-> Self \in p.by[e]]]

Holds(list, id) == \E i \in DOMAIN list : list[i].id = id
IndexOf(list, id) == CHOOSE i \in DOMAIN list : list[i].id = id

(* -1 to prepend, 1 to append, 0 for neither.                               *)
messageInsertPosition(m, list) ==
    LET t == Time(m.id)
        first == Time(list[1].id)
        last == Time(list[Len(list)].id) IN
    IF t > first THEN -1
    ELSE IF t < last THEN 1
    ELSE IF Holds(list, m.id) THEN 0
    ELSE IF t = first THEN -1
    ELSE IF t = last THEN 1
    ELSE 0

AddMessage_Drops(list, m) ==
    LET held == IF list = <<>> THEN <<m>> ELSE list
        pos == messageInsertPosition(m, held) IN
    IF pos < 0 THEN <<m>> \o (IF Len(held) = maxMsgs THEN Front(held) ELSE held)
    ELSE IF pos > 0 THEN (IF Len(held) < maxMsgs THEN Append(held, m) ELSE Append(Front(held), m))
    ELSE held

(* MessageSet of a new message.                                             *)
AddMessage(list, m) ==
    LET held == IF list = <<>> THEN <<m>> ELSE list
        pos == messageInsertPosition(m, held) IN
    IF maxMsgs = 0 THEN list
    ELSE IF pos < 0 THEN <<m>> \o (IF Len(held) = maxMsgs THEN Front(held) ELSE held)
    ELSE IF pos > 0 /\ Len(held) < maxMsgs THEN Append(held, m)
    ELSE held

(* MessageSet with update: a message that is not held is left out; what the *)
(* new one leaves empty or nil stays.                                       *)
DiffMessage(new, old) ==
    [old EXCEPT !.text = IF new.text = 0 THEN @ ELSE new.text,
                !.count = IF new.nil THEN @ ELSE new.count, !.me = IF new.nil THEN @ ELSE new.me]
UpdateMessage(list, id, new) ==
    IF Holds(list, id) THEN [list EXCEPT ![IndexOf(list, id)] = DiffMessage(new, @)] ELSE list

(* The elements of s at these positions, in order.                          *)
Those(s, positions) ==
    LET taken[n \in 0..Len(s)] ==
            IF n = 0 THEN <<>>
            ELSE IF n \in positions THEN Append(taken[n - 1], s[n]) ELSE taken[n - 1] IN
    taken[Len(s)]

(* For each of the identifiers; no message is held twice.                   *)
MessageRemove(list, ids) == Those(list, {i \in DOMAIN list : list[i].id \notin ids})

-----------------------------------------------------------------------------
(* Reactions: a copy of the message is changed and stored as an update.     *)

Changed(m) == [text |-> m.text, count |-> m.count, me |-> m.me, nil |-> FALSE]
editMessage(list, id, Edit(_)) ==
    IF Holds(list, id) THEN UpdateMessage(list, id, Edit(list[IndexOf(list, id)])) ELSE list

ReactionAdd(list, id, e, u) ==
    editMessage(list, id, LAMBDA m :
        Changed([m EXCEPT !.count[e] = @ + 1, !.me[e] = @ \/ u = Self]))

ReactionRemove_KeepsMe(list, id, e, u) ==
    editMessage(list, id, LAMBDA m : Changed([m EXCEPT !.count[e] = IF @ = 0 THEN 0 ELSE @ - 1]))
ReactionRemove(list, id, e, u) ==
    editMessage(list, id, LAMBDA m :
        IF m.count[e] = 0 THEN Changed(m)
        ELSE Changed([m EXCEPT !.count[e] = @ - 1,
                               !.me[e] = IF m.count[e] = 1 \/ u = Self THEN FALSE ELSE @]))

ReactionRemoveAll(list, id) == editMessage(list, id, LAMBDA m : [Changed(m) EXCEPT !.nil = TRUE])

ReactionRemoveEmoji(list, id, e) ==
    editMessage(list, id, LAMBDA m : Changed([m EXCEPT !.count[e] = 0, !.me[e] = FALSE]))

-----------------------------------------------------------------------------
NoCall == [phase |-> "idle", limit |-> 0, have |-> <<>>, ask |-> 0, todo |-> <<>>, api |-> 0]
MessagesInit ==
    /\ tracked \in BOOLEAN /\ theme \in Themes
    /\ posts = <<>> /\ latest = {} /\ feed = <<>>
    /\ msgs = <<>> /\ few = FALSE /\ clearing = FALSE
    /\ get = [c \in Callers |-> NoCall]
    /\ unsure = {} /\ gap = FALSE

(* The server.  Bound: nothing more happens to the contents of an unsure    *)
(* message.                                                                 *)
Changeable(id) == theme # "list" /\ id \notin unsure
Send(e) == IF tracked THEN Len(feed) < MaxQueued /\ feed' = Append(feed, e) ELSE UNCHANGED feed
Answered(id) == \E c \in Callers : \E i \in DOMAIN get[c].todo : get[c].todo[i].id = id
Calling == \E c \in Callers : get[c].phase \in {"asked", "answered", "storing"}
Overtakes(id) == unsure' = IF Answered(id) THEN unsure \cup {id} ELSE unsure
Rest == <<sideVars, msgs, few, clearing, get>>

Post(id, empty) ==
    /\ empty => theme = "content"
    /\ id \notin latest /\ \A o \in latest : Time(id) >= Time(o)
    /\ theme = "content" => id = 1
    /\ LET p == [text |-> IF empty THEN 0 ELSE 1, empty |-> empty, by |-> [e \in Faces |-> {}]] IN
       /\ posts' = [i \in DOMAIN posts \cup {id} |-> IF i = id THEN p ELSE posts[i]]
       /\ Send([type |-> "MessageCreate", id |-> id, post |-> p])
    /\ latest' = latest \cup {id}
    /\ gap' = (gap \/ \E o \in latest : Time(o) = Time(id))
    /\ UNCHANGED <<Rest, unsure>>

(* An edit may leave no text, if the message has an embed or a file.        *)
Edit(id, empties) ==
    LET text == posts[id].text + 1 IN
    /\ Changeable(id) /\ IF empties THEN ~posts[id].empty ELSE text <= MaxText
    /\ posts' = [posts EXCEPT ![id].text = IF empties THEN @ ELSE text, ![id].empty = empties]
    /\ Send([type |-> "MessageUpdate", id |-> id, text |-> IF empties THEN 0 ELSE text])
    /\ Overtakes(id) /\ UNCHANGED <<Rest, latest, gap>>

DeleteSome(ids) ==
    /\ posts' = [i \in DOMAIN posts \ ids |-> posts[i]]
    /\ Send([type |-> "MessageDeleteBulk", ids |-> ids])
    /\ unsure' = unsure \cup {id \in ids : Answered(id)}
    /\ UNCHANGED <<Rest, latest, gap>>

React(id, e, u) ==
    /\ Changeable(id)
    /\ LET on == u \in posts[id].by[e] IN
       /\ posts' = [posts EXCEPT ![id].by[e] = IF on THEN @ \ {u} ELSE @ \cup {u}]
       /\ Send([type |-> IF on THEN "ReactionRemove" ELSE "ReactionAdd", id |-> id, emoji |-> e, user |-> u])
    /\ Overtakes(id) /\ UNCHANGED <<Rest, latest, gap>>

ClearEmoji(id, e) ==
    /\ Changeable(id) /\ posts[id].by[e] # {}
    /\ posts' = [posts EXCEPT ![id].by[e] = {}]
    /\ Send([type |-> "ReactionRemoveEmoji", id |-> id, emoji |-> e])
    /\ Overtakes(id) /\ UNCHANGED <<Rest, latest, gap>>

(* The cache does not notice this one.                                      *)
ClearAll(id) ==
    /\ Changeable(id) /\ posts[id].by # [e \in Faces |-> {}]
    /\ posts' = [posts EXCEPT ![id].by = [e \in Faces |-> {}]]
    /\ Send([type |-> "ReactionRemoveAll", id |-> id])
    /\ unsure' = unsure \cup {id} /\ UNCHANGED <<Rest, latest, gap>>

NewSession ==
    /\ feed' = <<[type |-> "Ready"]>>
    /\ UNCHANGED <<Rest, posts, latest, unsure, gap>>

MessageServer ==
    \/ \E id \in Ids, empty \in BOOLEAN : Post(id, empty)
    \/ \E id \in DOMAIN posts : ClearAll(id) \/ \E empties \in BOOLEAN : Edit(id, empties)
    \/ \E ids \in SUBSET DOMAIN posts : Cardinality(ids) \in 1..2 /\ DeleteSome(ids)
    \/ \E id \in DOMAIN posts, e \in Faces : ClearEmoji(id, e) \/ \E u \in People : React(id, e, u)
    \/ NewSession

-----------------------------------------------------------------------------
(* The handler.                                                             *)

MessageCreate(e) == AddMessage(msgs, Seen(e.id, e.post))
MessageUpdate(e) == UpdateMessage(msgs, e.id, [text |-> e.text, nil |-> TRUE])
MessageDeleteBulk(e) == MessageRemove(msgs, e.ids)

MessageEvent ==
    /\ feed # <<>> /\ ~clearing
    /\ LET e == Head(feed) IN
       /\ msgs' = CASE e.type = "Ready" -> <<>>
                    [] e.type = "MessageCreate" -> MessageCreate(e)
                    [] e.type = "MessageUpdate" -> MessageUpdate(e)
                    [] e.type = "MessageDeleteBulk" -> MessageDeleteBulk(e)
                    [] e.type = "ReactionAdd" -> ReactionAdd(msgs, e.id, e.emoji, e.user)
                    [] e.type = "ReactionRemove" -> ReactionRemove(msgs, e.id, e.emoji, e.user)
                    [] e.type = "ReactionRemoveAll" -> ReactionRemoveAll(msgs, e.id)
                    [] e.type = "ReactionRemoveEmoji" -> ReactionRemoveEmoji(msgs, e.id, e.emoji)
       /\ clearing' = (e.type = "Ready")
       /\ gap' = (gap \/ (e.type \in {"Ready", "MessageDeleteBulk"} /\ Calling))
    /\ feed' = Tail(feed)
    /\ UNCHANGED <<sideVars, posts, latest, few, get, unsure>>

(* handleReady, after the handlers of the event have been called.           *)
ClearFew ==
    /\ clearing /\ clearing' = FALSE /\ few' = FALSE
    /\ UNCHANGED <<sideVars, posts, latest, feed, msgs, get, unsure, gap>>

-----------------------------------------------------------------------------
(* State.Messages.                                                          *)

Cut(n, limit) == IF limit > 0 /\ n > limit THEN limit ELSE n
Returns(c, limit, n) ==
    get' = [get EXCEPT ![c] = [NoCall EXCEPT !.phase = "done", !.limit = limit, !.api = n]]

MessagesCall(c, limit) ==
    LET have == IF tracked THEN msgs ELSE <<>>
        fetch == (IF limit < maxMsgs THEN maxMsgs ELSE limit) - Len(have) IN
    /\ get[c].phase = "idle"
    /\ IF have # <<>> /\ few THEN Returns(c, limit, Len(have))
       ELSE IF limit > 0 /\ Len(have) >= limit THEN Returns(c, limit, limit)
       ELSE get' = [get EXCEPT ![c] = [NoCall EXCEPT !.phase = "asked", !.limit = limit, !.have = have, !.ask = fetch]]
    /\ UNCHANGED <<sideVars, posts, latest, feed, msgs, few, clearing, unsure, gap>>

(* MessagesBefore: the latest that are older than the last one held, as     *)
(* many as asked for, all if that is none; or an error.                     *)
Older(have) == {id \in DOMAIN posts : have = <<>> \/ id < have[Len(have)].id}
Descending(ids) == Those([i \in Ids |-> MaxId + 1 - i], {i \in Ids : MaxId + 1 - i \in ids})
Behind(types) == {id \in Ids : \E n \in DOMAIN feed : feed[n].type \in types /\ feed[n].id = id}
MessagesAnswer(c) ==
    LET all == Descending(Older(get[c].have))
        some == IF get[c].ask = 0 \/ Len(all) < get[c].ask THEN all ELSE SubSeq(all, 1, get[c].ask) IN
    /\ get[c].phase = "asked"
    /\ \/ /\ get' = [get EXCEPT ![c].phase = "answered", ![c].api = Len(some),
                                ![c].todo = [i \in DOMAIN some |-> Seen(some[i], posts[some[i]])]]
          /\ unsure' = unsure \cup (Behind({"ReactionAdd", "ReactionRemove"}) \cap ToSet(some))
          /\ gap' = (gap \/ Behind({"MessageCreate"}) \cap ToSet(some) # {})
       \/ get' = [get EXCEPT ![c] = NoCall] /\ UNCHANGED <<unsure, gap>>
    /\ UNCHANGED <<sideVars, posts, latest, feed, msgs, few, clearing>>

(* Too few messages to fill the store: these are all.  The first of the     *)
(* answer, as many as the store had room for, are stored one by one.        *)
MessagesStore(c) ==
    LET g == get[c]
        room == IF tracked THEN maxMsgs - Len(g.have) ELSE 0 IN
    /\ g.phase = "answered"
    /\ few' = (few \/ Len(g.have) + g.api < maxMsgs)
    /\ get' = [get EXCEPT ![c].phase = "storing",
                          ![c].todo = IF Len(@) < room THEN @ ELSE SubSeq(@, 1, room)]
    /\ UNCHANGED <<sideVars, posts, latest, feed, msgs, clearing, unsure, gap>>

StoreOne(c) ==
    /\ get[c].phase = "storing" /\ get[c].todo # <<>>
    /\ msgs' = AddMessage(msgs, Head(get[c].todo))
    /\ get' = [get EXCEPT ![c].todo = Tail(@)]
    /\ UNCHANGED <<sideVars, posts, latest, feed, few, clearing, unsure, gap>>

MessagesReturn(c) ==
    /\ get[c].phase = "storing" /\ get[c].todo = <<>>
    /\ Returns(c, get[c].limit, Cut(Len(get[c].have) + get[c].api, get[c].limit))
    /\ UNCHANGED <<sideVars, posts, latest, feed, msgs, few, clearing, unsure, gap>>

Forget(c) ==
    /\ get[c].phase = "done" /\ get' = [get EXCEPT ![c] = NoCall]
    /\ UNCHANGED <<sideVars, posts, latest, feed, msgs, few, clearing, unsure, gap>>

MessagesNext ==
    \/ MessageServer \/ MessageEvent \/ ClearFew
    \/ \E c \in Callers :
        \/ \E limit \in Limits : MessagesCall(c, limit)
        \/ MessagesAnswer(c) \/ MessagesStore(c) \/ StoreOne(c) \/ MessagesReturn(c) \/ Forget(c)

MessagesSpec == MessagesInit /\ [][MessagesNext]_messageVars

-----------------------------------------------------------------------------
(* Properties.                                                              *)

(* The list never holds more than maxMsgs messages, none of them twice, and *)
(* goes from the latest to the earliest; and when every event has been      *)
(* handled it has no hole: it starts with the channel's latest message and  *)
(* misses none that is later than its last, unless a deletion or READY was  *)
(* handled while a call of Messages was under way, the answer held a        *)
(* message whose event was still to come, or two messages were posted in    *)
(* the same millisecond: the store then puts the earlier one first, if it   *)
(* comes second, and drops the wrong one when it is full.                   *)
InOrder ==
    /\ Len(msgs) <= maxMsgs
    /\ \A i, j \in DOMAIN msgs : i < j => msgs[i].id # msgs[j].id /\ Time(msgs[i].id) >= Time(msgs[j].id)
NoHoles ==
    feed = <<>> /\ msgs # <<>> /\ ~gap =>
        \A id \in DOMAIN posts : Time(id) > Time(msgs[Len(msgs)].id) => Holds(msgs, id)
MessageList == InOrder /\ NoHoles

(* When every event has been handled, a cached message has the reactions    *)
(* that it has in the channel, its text, if it has any, and no other than   *)
(* the last it had, if an edit has left none, which the cache ignores; and  *)
(* it has not been deleted: unless it changed while an answer that holds it *)
(* was under way, or lost all its reactions at once, which the cache        *)
(* ignores, or an answer came before the event of a reaction that it        *)
(* counts, which is then counted twice.                                     *)
Fresh(m, p) ==
    LET now == Seen(m.id, p) IN
    m = now \/ (p.empty /\ m = [now EXCEPT !.text = p.text])
MessagesFresh ==
    feed = <<>> =>
        \A i \in DOMAIN msgs :
            msgs[i].id \in unsure \/ (msgs[i].id \in DOMAIN posts /\ Fresh(msgs[i], posts[msgs[i].id]))
=============================================================================
