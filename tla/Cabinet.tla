------------------------------- MODULE Cabinet -------------------------------
(***************************************************************************)
(* state/store/defaultstore: the stores a State caches in, as operators on  *)
(* one record.  A cached item is the version of it that is stored, 0 when   *)
(* there is none.  The stores of items that belong to a guild keep a map    *)
(* per guild, made when the first item arrives: a guild without one is not  *)
(* found, a guild with an empty one is an empty list.                       *)
(***************************************************************************)
EXTENDS Naturals

CONSTANTS
    Guilds, Users, Roles,
    GuildChans, Directs, Groups,  \* channels of guilds, DMs and group DMs
    Home,                         \* the guild of a guild channel
    Recipient,                    \* the other side of a DM
    NoGuild, NoChan

Chans == GuildChans \cup Directs \cup Groups

ASSUME CabinetAssumption ==
    /\ Home \in [GuildChans -> Guilds] /\ Recipient \in [Directs -> Users]
    /\ NoGuild \notin Guilds /\ NoChan \notin Chans
    /\ GuildChans \cap (Directs \cup Groups) = {} /\ Directs \cap Groups = {}

-----------------------------------------------------------------------------
(* A map of guilds to maps of items.                                        *)

Maps(ids) == [known |-> {}, of |-> [x \in Guilds \X ids |-> 0]]
Found(s, g, i) == s.of[<<g, i>>] # 0
Insert(s, g, i, v, update) ==
    [known |-> s.known \cup {g},
     of |-> [s.of EXCEPT ![<<g, i>>] = IF @ = 0 \/ update THEN v ELSE @]]
Drop(s, g, i) == [s EXCEPT !.of[<<g, i>>] = 0]

NewMe == 0
NewGuild == [g \in Guilds |-> 0]
NewEmoji == [known |-> {}, of |-> [g \in Guilds |-> 0]]
NewBare == {}
NewMember == Maps(Users)
NewPresence == Maps(Users)
NewRole == Maps(Roles)
NewVoiceState == Maps(Users)
NewChannel ==
    [channels |-> [c \in Chans |-> 0],
     privates |-> [u \in Users |-> NoChan],
     listed |-> {},
     guildChs |-> [g \in Guilds \cup {NoGuild} |-> {}]]

(* defaultstore.New, and Cabinet.Reset, which does the same to every store. *)
New == [me |-> NewMe, channel |-> NewChannel, emoji |-> NewEmoji, guild |-> NewGuild,
        member |-> NewMember, bare |-> NewBare, presence |-> NewPresence,
        role |-> NewRole, voice |-> NewVoiceState]
Reset(cab) == New

-----------------------------------------------------------------------------
(* Setters.                                                                 *)

MyselfSet(cab, v, update) ==
    [cab EXCEPT !.me = IF @ = 0 \/ update THEN v ELSE @]

GuildSet(cab, g, v, update) ==
    [cab EXCEPT !.guild[g] = IF @ = 0 \/ update THEN v ELSE @]
GuildRemove(cab, g) == [cab EXCEPT !.guild[g] = 0]

(* A guild's emojis are one item, a list that is not empty.  EmojiSet makes *)
(* its entry and then writes the list, with no second look.  A getter may   *)
(* be overtaken in between; for the handler, the only one that resets and   *)
(* updates, one step is as good: who finds its entry leaves it alone.       *)
EmojiEnter(cab, g) == [cab EXCEPT !.emoji.known = @ \cup {g}]
EmojiWrite(cab, g, v) == [cab EXCEPT !.emoji.of[g] = v]
EmojiSet(cab, g, v, update) ==
    IF g \in cab.emoji.known /\ ~update THEN cab ELSE EmojiWrite(EmojiEnter(cab, g), g, v)

(* Of a bare member there is only what GuildMemberUpdateEvent.UpdateMember  *)
(* sets.  The member of a message has no user yet when it is stored: it     *)
(* goes to user 0, who is none of the members that there are.               *)
MemberSet(cab, g, u, v, update) == [cab EXCEPT !.member = Insert(@, g, u, v, update)]
BareMemberSet(cab, g, u, v) == [MemberSet(cab, g, u, v, TRUE) EXCEPT !.bare = @ \cup {<<g, u>>}]
NobodySet(cab, g) == [cab EXCEPT !.member.known = @ \cup {g}]
MemberRemove(cab, g, u) == [cab EXCEPT !.member = Drop(@, g, u), !.bare = @ \ {<<g, u>>}]

PresenceSet(cab, g, u, v, update) == [cab EXCEPT !.presence = Insert(@, g, u, v, update)]

RoleSet_Ignores(cab, g, r, v, update) == [cab EXCEPT !.role = Insert(@, g, r, v, FALSE)]
RoleSet(cab, g, r, v, update) == [cab EXCEPT !.role = Insert(@, g, r, v, update)]
RoleRemove(cab, g, r) == [cab EXCEPT !.role = Drop(@, g, r)]

VoiceStateSet(cab, g, u, v, update) == [cab EXCEPT !.voice = Insert(@, g, u, v, update)]
VoiceStateRemove(cab, g, u) == [cab EXCEPT !.voice = Drop(@, g, u)]

(* Channels: an index by recipient and one by guild; update is not looked   *)
(* at.                                                                      *)
ListOf(c) == IF c \in Groups THEN NoGuild ELSE Home[c]
addChannelID(s, g, c) ==
    [s EXCEPT !.guildChs[g] = @ \cup {c}, !.listed = @ \cup {g}]
removeChannelID(s, g, c) ==
    [s EXCEPT !.guildChs[g] = @ \ {c}, !.listed = @ \cup {g}]

ChannelSet(cab, c, v, update) ==
    LET s == [cab.channel EXCEPT !.channels[c] = v] IN
    [cab EXCEPT !.channel =
        IF c \in Directs THEN [s EXCEPT !.privates[Recipient[c]] = c]
        ELSE addChannelID(s, ListOf(c), c)]

ChannelRemove(cab, c) ==
    LET s == [cab.channel EXCEPT !.channels[c] = 0] IN
    [cab EXCEPT !.channel =
        IF c \in Directs THEN [s EXCEPT !.privates[Recipient[c]] = NoChan]
        ELSE removeChannelID(s, ListOf(c), c)]

-----------------------------------------------------------------------------
(* Getters: whether the store answers, rather than with ErrNotFound.        *)

HasMe(cab) == cab.me # 0
HasGuild(cab, g) == cab.guild[g] # 0
HasGuilds(cab) == \E g \in Guilds : HasGuild(cab, g)
HasEmojis(cab, g) == g \in cab.emoji.known
HasMember(cab, g, u) == Found(cab.member, g, u)
HasMembers(cab, g) == g \in cab.member.known
HasRole(cab, g, r) == Found(cab.role, g, r)
HasRoles(cab, g) == g \in cab.role.known
HasChannel(cab, c) == cab.channel.channels[c] # 0
HasChannels(cab, g) == g \in cab.channel.listed
HasPrivateChannel(cab, u) == cab.channel.privates[u] # NoChan
HasPrivateChannels(cab) ==
    \/ \E u \in Users : cab.channel.privates[u] # NoChan
    \/ cab.channel.guildChs[NoGuild] # {}
=============================================================================
