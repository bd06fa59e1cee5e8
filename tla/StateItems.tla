----------------------------- MODULE StateItems -----------------------------
(***************************************************************************)
(* state.State without its messages: a synchronous handler of the session   *)
(* that keeps the stores of Cabinet by the gateway's events, and getters,   *)
(* in goroutines of their own, that ask the API for what a store does not   *)
(* have and store the answer when it comes, whatever events came before it. *)
(* The server holds the items, in versions, and sends the events of the     *)
(* guilds it has shown to the gateway in the order they happen.             *)
(***************************************************************************)
EXTENDS Cabinet, FiniteSets, Sequences, SequencesExt

CONSTANTS
    Topics,      \* sets of items: a behaviour is about the items of one of them
    Getters,     \* goroutines that call the State's getters
    Threads,     \* guild channels that are threads
    Accounts,    \* of "bot" and "user"
    IntentSets,  \* the sets of intents to choose from
    MaxVer,      \* bound on the versions of an item
    MaxQueue     \* bound on the events under way

ASSUME StateAssumption ==
    /\ Threads \subseteq GuildChans /\ Accounts \subseteq {"bot", "user"} /\ MaxVer \in Nat /\ MaxQueue \in Nat

VARIABLES
    cab,        \* State.Cabinet
    unready, unavailable,  \* State.unreadyGuilds, unavailableGuilds
    call,       \* getter |-> [phase, wants, keeps, ans]
    account, intents,      \* the kind of account, and the intents it asked for
    items,      \* the items of this behaviour
    ver, here,  \* server: the latest version of an item, the items there are
    joined, shown,         \* guilds it is a member of, and those sent to the gateway
    because,    \* history: why a guild's next GuildCreate will be sent
    queue,      \* events between the server and the handler, and what it has begun
    announced,  \* history: the last derived event of a guild
    doubt       \* history: items that changed behind the cache's back

server == <<ver, here, joined, shown, because>>
vars == <<cab, unready, unavailable, call, account, intents, items, server, queue, announced, doubt>>

Item(k, g, i) == [kind |-> k, guild |-> g, id |-> i]
ItemsOf(k) ==
    CASE k = "me" -> {Item(k, NoGuild, "me")}
      [] k = "guild" -> {Item(k, g, "all") : g \in Guilds}
      [] k = "emoji" -> {Item(k, g, "all") : g \in Guilds}
      [] k = "channel" -> {Item(k, Home[c], c) : c \in GuildChans} \cup {Item(k, NoGuild, c) : c \in Directs \cup Groups}
      [] k = "role" -> {Item(k, g, r) : g \in Guilds, r \in Roles}
      [] OTHER -> {Item(k, g, u) : g \in Guilds, u \in Users}
Kinds == {"me", "guild", "emoji", "channel", "role", "member", "presence", "voice"}

ASSUME TopicsAssumption == 
    \A t \in Topics : IsFiniteSet(t) /\ \A i \in t : \E k \in Kinds : i \in ItemsOf(k)

(* Session.HasIntents: always, on a user account.                           *)
HasIntents(i) == account = "user" \/ i \in intents
IntentOf(k) ==
    CASE k = "emoji" -> "emojis" [] k = "member" -> "members" [] k = "presence" -> "presences"
      [] k = "voice" -> "voice" [] OTHER -> "guilds"

(* What a store holds of an item, and a set of it.                          *)
Stored(c, i) ==
    CASE i.kind = "me" -> c.me
      [] i.kind = "guild" -> c.guild[i.guild]
      [] i.kind = "emoji" -> c.emoji.of[i.guild]
      [] i.kind = "channel" -> c.channel.channels[i.id]
      [] i.kind = "role" -> c.role.of[i.guild, i.id]
      [] i.kind = "member" -> c.member.of[i.guild, i.id]
      [] i.kind = "presence" -> c.presence.of[i.guild, i.id]
      [] i.kind = "voice" -> c.voice.of[i.guild, i.id]
Cached(i) == Stored(cab, i)
Store(c, i, v, update) ==
    CASE i.kind = "me" -> MyselfSet(c, v, update)
      [] i.kind = "guild" -> GuildSet(c, i.guild, v, update)
      [] i.kind = "emoji" -> EmojiSet(c, i.guild, v, update)
      [] i.kind = "channel" -> ChannelSet(c, i.id, v, update)
      [] i.kind = "role" -> RoleSet(c, i.guild, i.id, v, update)
      [] i.kind = "member" -> MemberSet(c, i.guild, i.id, v, update)
      [] i.kind = "presence" -> PresenceSet(c, i.guild, i.id, v, update)
      [] i.kind = "voice" -> VoiceStateSet(c, i.guild, i.id, v, update)
(* What the server has of some of them.                                     *)
Snapshot(which) == {[item |-> i, ver |-> ver[i]] : i \in which \cap here}

(* READY lists the guilds, of a user account with most of what is in them,  *)
(* and READY_SUPPLEMENTAL brings their members.  READY is in the queue as   *)
(* the reset of the stores and what is then stored.                         *)
Late == {"member", "presence", "voice"}
GuildItems(gs) == {i \in items : i.guild \in gs}
Full == IF account = "user" THEN joined ELSE {}
Greeting ==
    LET own == {i \in items : i.kind = "me" \/ (account = "user" /\ i.guild = NoGuild)}
        data == Snapshot(GuildItems(Full) \cup own)
        late == {d \in data : d.item.kind \in Late} IN
    <<[type |-> "Ready"], [type |-> "ReadyStores", guilds |-> joined, data |-> data \ late]>> \o
    (IF account = "user" THEN <<[type |-> "ReadySupplemental", data |-> late]>> ELSE <<>>)

Idle == [phase |-> "idle", wants |-> {}, keeps |-> FALSE, ans |-> {}]
Init ==
    /\ cab = New /\ unready = {} /\ unavailable = {}
    /\ call = [c \in Getters |-> Idle]
    /\ account \in Accounts /\ intents \in IntentSets /\ items \in Topics
    /\ ver = [i \in items |-> 1] /\ here = items
    /\ joined = Guilds /\ shown = Full /\ because = [g \in Guilds |-> "ready"]
    /\ queue = Greeting /\ announced = [g \in Guilds |-> "none"] /\ doubt = {}

-----------------------------------------------------------------------------
(* The server.                                                              *)

Emit(es) == Len(queue) + Len(es) <= MaxQueue /\ queue' = queue \o es
Visible(i) == i.guild = NoGuild \/ i.guild \in shown
Told(i) == Visible(i) /\ (i.kind = "me" \/ i.guild = NoGuild \/ HasIntents(IntentOf(i.kind)))

(* Without the intent for presences, a GUILD_CREATE has hardly any members. *)
Listed(i) == i.kind = "member" => HasIntents("presences")
InAnswer(c, i) == \E d \in call[c].ans : d.item = i
InFlight(i) == \E c \in Getters : call[c].keeps /\ InAnswer(c, i)

CreateEvent(i) ==
    CASE i.kind = "channel" -> IF i.id \in Threads THEN "ThreadCreate" ELSE "ChannelCreate"
      [] i.kind = "role" -> "GuildRoleCreate" [] i.kind = "member" -> "GuildMemberAdd"
      [] i.kind = "presence" -> "PresenceUpdate" [] i.kind = "voice" -> "VoiceStateUpdate"
      [] OTHER -> "none"
UpdateEvents(i) ==
    CASE i.kind = "me" -> {"UserUpdate"} [] i.kind = "guild" -> {"GuildUpdate"}
      [] i.kind = "emoji" -> {"GuildEmojisUpdate"}
      [] i.kind = "channel" -> IF i.id \in Threads THEN {"ThreadUpdate", "ThreadListSync"} ELSE {"ChannelUpdate"}
      [] i.kind = "role" -> {"GuildRoleUpdate"} [] i.kind = "member" -> {"GuildMemberUpdate"}
      [] i.kind = "presence" -> {"PresenceUpdate", "PresencesReplace"}
      [] i.kind = "voice" -> {"VoiceStateUpdate"}
DeleteEvent(i) ==
    CASE i.kind = "channel" -> IF i.id \in Threads THEN "ThreadDelete" ELSE "ChannelDelete"
      [] i.kind = "role" -> "GuildRoleDelete" [] i.kind = "member" -> "GuildMemberRemove"
      [] i.kind = "voice" -> "VoiceStateUpdate"
      [] OTHER -> "none"
Event(t, i, v) == [type |-> t, item |-> i, ver |-> v]

(* What an event says of an item, and what there is to say.                 *)
News(e) == IF "item" \in DOMAIN e THEN {e} ELSE IF "data" \in DOMAIN e THEN e.data ELSE {}
Says(e, i) == {n.ver : n \in {d \in News(e) : d.item = i}}
Truth(i) == IF i \in here THEN ver[i] ELSE 0

(* Behind the cache's back: no event tells of a change of what it has or is *)
(* about to have, or an answer under way was given before it.               *)
Underway(i) == \E n \in DOMAIN queue : Says(queue[n], i) # {}
Doubtful(i, overtaken) ==
    doubt' = IF (~Told(i) /\ (Cached(i) # 0 \/ Underway(i) \/ InFlight(i))) \/ (overtaken /\ InFlight(i))
             THEN doubt \cup {i} ELSE doubt

Create(i) ==
    /\ i \notin here /\ CreateEvent(i) # "none" /\ ver[i] < MaxVer
    /\ ver' = [ver EXCEPT ![i] = @ + 1] /\ here' = here \cup {i}
    /\ IF Told(i) THEN Emit(<<Event(CreateEvent(i), i, ver'[i])>>) ELSE UNCHANGED queue
    /\ Doubtful(i, TRUE)
    /\ UNCHANGED <<cab, unready, unavailable, call, account, intents, items, joined, shown, because, announced>>

Update(i) ==
    /\ i \in here /\ ver[i] < MaxVer
    /\ ver' = [ver EXCEPT ![i] = @ + 1]
    /\ IF Told(i) THEN \E t \in UpdateEvents(i) : Emit(<<Event(t, i, ver'[i])>>) ELSE UNCHANGED queue
    /\ Doubtful(i, i.kind \in {"channel", "emoji"})
    /\ UNCHANGED <<cab, unready, unavailable, call, account, intents, items, here, joined, shown, because, announced>>

Delete(i) ==
    /\ i \in here /\ DeleteEvent(i) # "none"
    /\ here' = here \ {i}
    /\ IF Told(i) THEN Emit(<<Event(DeleteEvent(i), i, 0)>>) ELSE UNCHANGED queue
    /\ Doubtful(i, TRUE)
    /\ UNCHANGED <<cab, unready, unavailable, call, account, intents, items, ver, joined, shown, because, announced>>

(* A chunk carries the members asked for, a message its author's.           *)
Mention(i) ==
    /\ i \in here /\ i.kind = "member" /\ Told(i)
    /\ \/ Emit(<<Event("GuildMembersChunk", i, ver[i])>>)
       \/ \E t \in {"MessageCreate", "MessageUpdate"} : Emit(<<[type |-> t, guild |-> i.guild]>>)
    /\ UNCHANGED <<cab, unready, unavailable, call, account, intents, items, server, announced, doubt>>

(* A session that cannot be resumed: what was under way is lost, but for    *)
(* the event that the handler has begun.                                    *)
Begun == {"ReadyStores", "SupplementalStores", "GuildStores", "MemberFound", "MemberMissing"}
Identify ==
    /\ queue' = (IF queue # <<>> /\ Head(queue).type \in Begun THEN <<Head(queue)>> ELSE <<>>) \o Greeting
    /\ shown' = Full /\ because' = [g \in Guilds |-> IF g \in joined THEN "ready" ELSE because[g]]
    /\ doubt' = doubt \cup {i \in items : InFlight(i)}
    /\ UNCHANGED <<cab, unready, unavailable, call, account, intents, items, ver, here, joined, announced>>

ShowGuild(g) ==
    /\ g \in joined \ shown /\ HasIntents("guilds")
    /\ Emit(<<[type |-> "GuildCreate", guild |-> g, why |-> because[g],
               data |-> {d \in Snapshot(GuildItems({g})) : HasIntents(IntentOf(d.item.kind)) /\ Listed(d.item)}]>>)
    /\ shown' = shown \cup {g}
    /\ UNCHANGED <<cab, unready, unavailable, call, account, intents, items, ver, here, joined, because, announced, doubt>>

HideGuild(g, out) ==
    /\ g \in joined /\ (out => g \in shown) /\ HasIntents("guilds")
    /\ Emit(<<[type |-> "GuildDelete", guild |-> g, out |-> out]>>)
    /\ shown' = shown \ {g} /\ joined' = IF out THEN joined ELSE joined \ {g}
    /\ because' = [because EXCEPT ![g] = IF out THEN "outage" ELSE "join"]
    /\ doubt' = doubt \cup {i \in GuildItems({g}) : InFlight(i)}
    /\ UNCHANGED <<cab, unready, unavailable, call, account, intents, items, ver, here, announced>>

JoinGuild(g) ==
    /\ g \notin joined /\ joined' = joined \cup {g}
    /\ UNCHANGED <<cab, unready, unavailable, call, account, intents, items, ver, here, shown, because, queue, announced, doubt>>

Server ==
    \/ \E i \in items : Create(i) \/ Update(i) \/ Delete(i) \/ Mention(i)
    \/ Identify
    \/ \E g \in Guilds : ShowGuild(g) \/ JoinGuild(g) \/ \E out \in BOOLEAN : HideGuild(g, out)

-----------------------------------------------------------------------------
(* onEvent: what each event does to the stores.  What READY and the like    *)
(* bring is stored one by one, with getters in between.                     *)

OnReady(c, e) == Reset(c)
OnGuildUpdate(c, e) == GuildSet(c, e.item.guild, e.ver, TRUE)
OnGuildDelete(c, e) == GuildRemove(c, e.guild)
OnGuildMemberAdd(c, e) == MemberSet(c, e.item.guild, e.item.id, e.ver, FALSE)
OnGuildMemberUpdate(c, e) ==
    IF e.type = "MemberFound" THEN MemberSet(c, e.item.guild, e.item.id, e.ver, TRUE)
                              ELSE BareMemberSet(c, e.item.guild, e.item.id, e.ver)
OnGuildMemberRemove(c, e) == MemberRemove(c, e.item.guild, e.item.id)
OnGuildMembersChunk(c, e) == MemberSet(c, e.item.guild, e.item.id, e.ver, FALSE)
OnMessage(c, e) == NobodySet(c, e.guild)
OnGuildRoleCreate(c, e) == RoleSet(c, e.item.guild, e.item.id, e.ver, FALSE)
OnGuildRoleUpdate(c, e) == RoleSet(c, e.item.guild, e.item.id, e.ver, TRUE)
OnGuildRoleDelete(c, e) == RoleRemove(c, e.item.guild, e.item.id)
OnGuildEmojisUpdate(c, e) == EmojiSet(c, e.item.guild, e.ver, TRUE)
OnChannelCreate(c, e) == ChannelSet(c, e.item.id, e.ver, FALSE)
OnChannelUpdate(c, e) == ChannelSet(c, e.item.id, e.ver, TRUE)
OnChannelDelete(c, e) == ChannelRemove(c, e.item.id)
OnThreadDelete(c, e) == IF HasChannel(c, e.item.id) THEN ChannelRemove(c, e.item.id) ELSE c
OnPresenceUpdate(c, e) == PresenceSet(c, e.item.guild, e.item.id, e.ver, TRUE)
OnUserUpdate(c, e) == MyselfSet(c, e.ver, TRUE)
OnVoiceStateUpdate(c, e) ==
    IF e.ver = 0 THEN VoiceStateRemove(c, e.item.guild, e.item.id)
                 ELSE VoiceStateSet(c, e.item.guild, e.item.id, e.ver, TRUE)

Bringing == {"ReadyStores", "ReadySupplemental", "SupplementalStores", "GuildCreate", "GuildStores"}
onEvent(c, e) ==
    CASE e.type = "Ready" -> OnReady(c, e)
      [] e.type = "GuildUpdate" -> OnGuildUpdate(c, e)
      [] e.type = "GuildDelete" -> OnGuildDelete(c, e)
      [] e.type = "GuildMemberAdd" -> OnGuildMemberAdd(c, e)
      [] e.type \in {"MemberFound", "MemberMissing"} -> OnGuildMemberUpdate(c, e)
      [] e.type = "GuildMemberRemove" -> OnGuildMemberRemove(c, e)
      [] e.type = "GuildMembersChunk" -> OnGuildMembersChunk(c, e)
      [] e.type \in {"MessageCreate", "MessageUpdate"} -> OnMessage(c, e)
      [] e.type = "GuildRoleCreate" -> OnGuildRoleCreate(c, e)
      [] e.type = "GuildRoleUpdate" -> OnGuildRoleUpdate(c, e)
      [] e.type = "GuildRoleDelete" -> OnGuildRoleDelete(c, e)
      [] e.type = "GuildEmojisUpdate" -> OnGuildEmojisUpdate(c, e)
      [] e.type \in {"ChannelCreate", "ThreadCreate"} -> OnChannelCreate(c, e)
      [] e.type \in {"ChannelUpdate", "ThreadUpdate", "ThreadListSync"} -> OnChannelUpdate(c, e)
      [] e.type = "ChannelDelete" -> OnChannelDelete(c, e)
      [] e.type = "ThreadDelete" -> OnThreadDelete(c, e)
      [] e.type \in {"PresenceUpdate", "PresencesReplace"} -> OnPresenceUpdate(c, e)
      [] e.type = "UserUpdate" -> OnUserUpdate(c, e)
      [] e.type = "VoiceStateUpdate" -> OnVoiceStateUpdate(c, e)
      [] e.type \in Bringing -> c

(* The derived guild events.                                                *)
handleReady(e) ==
    unready' = unready \cup e.guilds /\ UNCHANGED <<unavailable, announced>>

handleGuildCreate(e) ==
    LET g == e.guild IN
    /\ unready' = unready \ {g}
    /\ unavailable' = IF g \in unready THEN unavailable ELSE unavailable \ {g}
    /\ announced' = [announced EXCEPT ![g] =
          IF g \in unready THEN "ready" ELSE IF g \in unavailable THEN "available" ELSE "join"]

handleGuildDelete_ForgetsOutage(e) ==
    /\ announced' = [announced EXCEPT ![e.guild] = IF e.out THEN "unavailable" ELSE "leave"]
    /\ UNCHANGED <<unready, unavailable>>
handleGuildDelete(e) ==
    /\ unavailable' = IF e.out THEN unavailable \cup {e.guild} ELSE unavailable \ {e.guild}
    /\ announced' = [announced EXCEPT ![e.guild] = IF e.out THEN "unavailable" ELSE "leave"]
    /\ UNCHANGED unready

(* History: an event that stores whatever is stored, and READY, settle an   *)
(* item when no event under way says anything but the truth of it.          *)
Tentative == {"GuildRoleCreate", "GuildMemberAdd", "GuildMembersChunk"}
Settles(e, i) ==
    /\ ~InFlight(i)
    /\ \/ e.type = "Ready"
       \/ "item" \in DOMAIN e /\ e.item = i /\ e.type \notin Tentative
    /\ \A n \in DOMAIN queue : Says(queue[n], i) \subseteq {Truth(i)}

(* hookSession: the stores first, then the handlers.                        *)
Taking(e) == queue # <<>> /\ e = Head(queue)

Storing(t) ==
    CASE t = "GuildCreate" -> "GuildStores" [] t = "ReadySupplemental" -> "SupplementalStores" [] OTHER -> t
stores_NoMembers(e) ==
    /\ Taking(e) /\ e.type \in Bringing
    /\ \E d \in e.data :
        /\ cab' = IF d.item.kind = "member" THEN cab ELSE Store(cab, d.item, d.ver, FALSE)
        /\ queue' = <<[e EXCEPT !.type = Storing(@), !.data = @ \ {d}]>> \o Tail(queue)
    /\ UNCHANGED <<unready, unavailable, call, account, intents, items, server, announced, doubt>>
stores(e) ==
    /\ Taking(e) /\ e.type \in Bringing
    /\ \E d \in e.data :
        /\ cab' = Store(cab, d.item, d.ver, FALSE)
        /\ queue' = <<[e EXCEPT !.type = Storing(@), !.data = @ \ {d}]>> \o Tail(queue)
    /\ UNCHANGED <<unready, unavailable, call, account, intents, items, server, announced, doubt>>

readsMember(e) ==
    /\ Taking(e) /\ e.type = "GuildMemberUpdate"
    /\ queue' = <<[e EXCEPT !.type = IF HasMember(cab, e.item.guild, e.item.id)
                                     THEN "MemberFound" ELSE "MemberMissing"]>> \o Tail(queue)
    /\ UNCHANGED <<cab, unready, unavailable, call, account, intents, items, server, announced, doubt>>

(* READY's reset leaves a list that a getter is about to write to it alone. *)
handles(e) ==
    /\ Taking(e) /\ e.type # "GuildMemberUpdate"
    /\ e.type \in Bringing => e.data = {}
    /\ cab' = onEvent(cab, e)
    /\ call' = [c \in Getters |->
          IF e.type = "Ready" /\ call[c].phase = "overwriting" THEN Idle ELSE call[c]]
    /\ IF e.type = "ReadyStores" THEN handleReady(e)
       ELSE IF e.type \in {"GuildCreate", "GuildStores"} THEN handleGuildCreate(e)
       ELSE IF e.type = "GuildDelete" THEN handleGuildDelete(e)
       ELSE UNCHANGED <<unready, unavailable, announced>>
    /\ doubt' = {i \in doubt : ~Settles(e, i)}
    /\ queue' = Tail(queue)
    /\ UNCHANGED <<account, intents, items, server>>

hookSession == \E e \in ToSet(queue) : stores(e) \/ readsMember(e) \/ handles(e)

-----------------------------------------------------------------------------
(* Getters: what each asks the API for when its store cannot answer, and    *)
(* whether the answer is stored.                                            *)

Query(cached, wants, keeps) == [cached |-> cached, wants |-> wants, keeps |-> keeps]
In(k, g) == {i \in ItemsOf(k) : i.guild = g}
Private == {i \in ItemsOf("channel") : i.guild = NoGuild}

Me == Query(HasMe(cab), ItemsOf("me"), TRUE)

tracksChannel(c) == c \in GuildChans => HasIntents("guilds")
Channel(c) ==
    Query(HasChannel(cab, c) /\ tracksChannel(c), {i \in ItemsOf("channel") : i.id = c}, tracksChannel(c))
Channels(g) ==
    Query(HasIntents("guilds") /\ HasChannels(cab, g), In("channel", g) , HasIntents("guilds"))
CreatePrivateChannel(u) ==
    Query(HasPrivateChannel(cab, u), {i \in Private : i.id \in Directs /\ Recipient[i.id] = u}, TRUE)
PrivateChannels == Query(HasPrivateChannels(cab), Private, TRUE)

(* The channel that Message asks for beside the message.                    *)
MessageChannel(c) ==
    Query(HasChannel(cab, c) /\ tracksChannel(c), {i \in ItemsOf("channel") : i.id = c}, HasIntents("guilds"))

(* A single emoji that is not in the list is looked for in a new one.       *)
Emoji(g) == Query(FALSE, In("emoji", g), HasIntents("emojis"))
Emojis(g) == Query(HasIntents("emojis") /\ HasEmojis(cab, g), In("emoji", g), HasIntents("emojis"))

fetchGuild(g) == Query(FALSE, In("guild", g), HasIntents("guilds"))
Guild(g) == [fetchGuild(g) EXCEPT !.cached = HasIntents("guilds") /\ HasGuild(cab, g)]
AllGuilds ==
    Query(HasIntents("guilds") /\ HasGuilds(cab), {i \in ItemsOf("guild") : i.guild \in joined}, HasIntents("guilds"))

fetchMember(g, u) == Query(FALSE, {i \in In("member", g) : i.id = u}, HasIntents("members"))
Member(g, u) == [fetchMember(g, u) EXCEPT !.cached = HasIntents("members") /\ HasMember(cab, g, u)]
Members(g) == Query(HasIntents("members") /\ HasMembers(cab, g), In("member", g), HasIntents("members"))

fetchRoles(g) == Query(FALSE, In("role", g), HasIntents("guilds"))
Role(g, r) == [fetchRoles(g) EXCEPT !.cached = HasIntents("guilds") /\ HasRole(cab, g, r)]
AllRoles(g) == [fetchRoles(g) EXCEPT !.cached = HasIntents("guilds") /\ HasRoles(cab, g)]

Queries ==
    {Me, PrivateChannels, AllGuilds}
    \cup {Channel(c) : c \in Chans} \cup {MessageChannel(c) : c \in Chans}
    \cup {CreatePrivateChannel(u) : u \in Users}
    \cup UNION {{Channels(g), Emoji(g), Emojis(g), Guild(g), Members(g), AllRoles(g)}
                     \cup {Member(g, u) : u \in Users} \cup {Role(g, r) : r \in Roles} : g \in Guilds}

Ask(c) ==
    /\ call[c].phase = "idle"
    /\ \E q \in Queries :
        /\ ~q.cached /\ q.wants \cap items # {}
        /\ call' = [call EXCEPT ![c] =
              [phase |-> "asked", wants |-> q.wants \cap items, keeps |-> q.keeps, ans |-> {}]]
    /\ UNCHANGED <<cab, unready, unavailable, account, intents, items, server, queue, announced, doubt>>

(* The API answers, or with an error: not in the guild, or anything.        *)
Answer(c) ==
    /\ call[c].phase = "asked"
    /\ \/ /\ \A i \in call[c].wants : i.guild \in joined \cup {NoGuild}
          /\ call' = [call EXCEPT ![c].phase = "answered", ![c].wants = {}, ![c].ans = Snapshot(call[c].wants)]
       \/ call' = [call EXCEPT ![c] = Idle]
    /\ UNCHANGED <<cab, unready, unavailable, account, intents, items, server, queue, announced, doubt>>

(* The answer is stored one by one; of emojis, the entry comes first.       *)
StoredOne(c, d) == call' = [call EXCEPT ![c].phase = "answered", ![c].ans = @ \ {d}]
Fill(c) ==
    /\ call[c].phase = "answered" /\ call[c].keeps
    /\ \E d \in call[c].ans :
        LET entering == d.item.kind = "emoji" /\ ~HasEmojis(cab, d.item.guild) IN
        \/ entering /\ cab' = EmojiEnter(cab, d.item.guild) /\ call' = [call EXCEPT ![c].phase = "overwriting"]
        \/ ~entering /\ cab' = Store(cab, d.item, d.ver, FALSE) /\ StoredOne(c, d)
    /\ UNCHANGED <<unready, unavailable, account, intents, items, server, queue, announced, doubt>>

Overwrite(c) ==
    /\ call[c].phase = "overwriting"
    /\ \E d \in call[c].ans : cab' = EmojiWrite(cab, d.item.guild, d.ver) /\ StoredOne(c, d)
    /\ UNCHANGED <<unready, unavailable, account, intents, items, server, queue, announced, doubt>>

Return(c) ==
    /\ call[c].phase = "answered" /\ (call[c].keeps => call[c].ans = {})
    /\ call' = [call EXCEPT ![c] = Idle]
    /\ UNCHANGED <<cab, unready, unavailable, account, intents, items, server, queue, announced, doubt>>

Next ==
    \/ Server \/ hookSession
    \/ \E c \in Getters : Ask(c) \/ Answer(c) \/ Fill(c) \/ Overwrite(c) \/ Return(c)
Spec == Init /\ [][Next]_vars

-----------------------------------------------------------------------------
(* Properties.                                                              *)

(* When every event that was sent has been handled, what a store has of an  *)
(* item is what the server has, and of the guilds that have been shown it   *)
(* has everything, but for members that are not listed, and emojis that a   *)
(* getter is about to write: answers of the API that arrive between the     *)
(* events do no harm, unless the item has been removed while the answer was *)
(* under way, or changed in a guild that is not available.  A channel, of   *)
(* which the store forgets the update flag, and the emojis of a guild may   *)
(* not be changed meanwhile either.  Of a member, it is what updates tell.  *)
Coming(i) == i.kind = "emoji" /\ \E c \in Getters : call[c].phase = "overwriting" /\ InAnswer(c, i)
Mirrors ==
    queue = <<>> =>
        \A i \in items \ doubt :
            \/ Cached(i) = Truth(i)
            \/ Cached(i) = 0 /\ (~Told(i) \/ i.guild = NoGuild \/ ~Listed(i) \/ Coming(i))

(* A member of a guild that lists its members is stored whole: its updates  *)
(* never come before it, whatever sessions, outages and removals there were.*)
MembersWhole ==
    \A i \in items : i.kind = "member" /\ Listed(i) => <<i.guild, i.id>> \notin cab.bare

(* A GuildJoin is announced only for a guild that has been joined, never    *)
(* for one that READY listed, or that comes back from an outage.            *)
JoinsAreReal ==
    [][\A e \in ToSet(queue) :
        handles(e) /\ e.type \in {"GuildCreate", "GuildStores"} /\ announced'[e.guild] = "join"
            => e.why = "join"]_vars
=============================================================================
