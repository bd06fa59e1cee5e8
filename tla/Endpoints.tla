----------------------------- MODULE Endpoints -----------------------------
(***************************************************************************)
(* The requests of api.Client and webhook.Client, and the rate limiter's    *)
(* bucket each falls into.  A call that asks the API anything sends one     *)
(* request; its operator gives the request's method and the segments of     *)
(* its path after the prefix, a segment being a word, an identifier, an     *)
(* emoji or a token.  What is sent along, and the checks before it, are     *)
(* left out: the limiter sees neither.                                      *)
(***************************************************************************)
EXTENDS Integers, Sequences, SequencesExt, TLC

CONSTANTS
    Snowflakes,    \* identifiers
    ShortEmojis,   \* Unicode emojis of one or two runes, and name:id
    LongEmojis,    \* Unicode emojis of three runes and more
    Tokens,        \* interactions' and webhooks' tokens, invites' codes
    MaxSent        \* bound on the requests of a behaviour

VARIABLES
    buckets  \* Limiter.buckets: key |-> the requests that have had it
endpointVars == <<buckets>>

EndpointsInit == buckets = [k \in {} |-> {}]

Empty == ""  \* no segment: what a key has in the place of an identifier

-----------------------------------------------------------------------------
(* Applications and their commands.                                        *)

CurrentApplication == <<"GET", Empty, "oauth2", "applications", "@me">>
Commands(i) == <<"GET", "applications", i, "commands">>
Command(i, j) == <<"GET", "applications", i, "commands", j>>
CreateCommand(i) == <<"POST", "applications", i, "commands">>
EditCommand(i, j) == <<"PATCH", "applications", i, "commands", j>>
DeleteCommand(i, j) == <<"DELETE", "applications", i, "commands", j>>
BulkOverwriteCommands(i) == <<"PUT", "applications", i, "commands">>
GuildCommands(i, g) == <<"GET", "applications", i, "guilds", g, "commands">>
GuildCommand(i, g, j) == <<"GET", "applications", i, "guilds", g, "commands", j>>
CreateGuildCommand(i, g) == <<"POST", "applications", i, "guilds", g, "commands">>
EditGuildCommand(i, g, j) == <<"PATCH", "applications", i, "guilds", g, "commands", j>>
DeleteGuildCommand(i, g, j) == <<"DELETE", "applications", i, "guilds", g, "commands", j>>
BulkOverwriteGuildCommands(i, g) == <<"PUT", "applications", i, "guilds", g, "commands">>
GuildCommandPermissions(i, g) ==
    <<"GET", "applications", i, "guilds", g, "commands", "permissions">>
CommandPermissions(i, g, j) ==
    <<"GET", "applications", i, "guilds", g, "commands", j, "permissions">>
EditCommandPermissions(i, g, j) ==
    <<"PUT", "applications", i, "guilds", g, "commands", j, "permissions">>
BatchEditCommandPermissions(i, g) ==
    <<"PUT", "applications", i, "guilds", g, "commands", "permissions">>
-----------------------------------------------------------------------------
(* Automatic moderation.                                                   *)

ListAutoModerationRules(g) == <<"GET", "guilds", g, "auto-moderation", "rules">>
GetAutoModerationRule(g, j) == <<"GET", "guilds", g, "auto-moderation", "rules", j>>
CreateAutoModerationRule(g) == <<"POST", "guilds", g, "auto-moderation", "rules">>
ModifyAutoModerationRule(g, j) == <<"PATCH", "guilds", g, "auto-moderation", "rules", j>>
DeleteAutoModerationRule(g, j) == <<"DELETE", "guilds", g, "auto-moderation", "rules", j>>
-----------------------------------------------------------------------------
(* Channels and threads.                                                   *)

BotURL == <<"GET", "gateway", "bot">>
Channels(g) == <<"GET", "guilds", g, "channels">>
CreateChannel(g) == <<"POST", "guilds", g, "channels">>
MoveChannels(g) == <<"PATCH", "guilds", g, "channels">>
Channel(c) == <<"GET", "channels", c>>
ModifyChannel(c) == <<"PATCH", "channels", c>>
DeleteChannel(c) == <<"DELETE", "channels", c>>
EditChannelPermission(c, j) == <<"PUT", "channels", c, "permissions", j>>
DeleteChannelPermission(c, j) == <<"DELETE", "channels", c, "permissions", j>>
Typing(c) == <<"POST", "channels", c, "typing">>
PinnedMessages(c) == <<"GET", "channels", c, "pins">>
PinMessage(c, i) == <<"PUT", "channels", c, "pins", i>>
UnpinMessage(c, i) == <<"DELETE", "channels", c, "pins", i>>
AddRecipient(c, i) == <<"PUT", "channels", c, "recipients", i>>
RemoveRecipient(c, i) == <<"DELETE", "channels", c, "recipients", i>>
Ack(c, i) == <<"POST", "channels", c, "messages", i, "ack">>
StartThreadWithMessage(c, i) == <<"POST", "channels", c, "messages", i, "threads">>
StartThreadWithoutMessage(c) == <<"POST", "channels", c, "threads">>
JoinThread(c) == <<"PUT", "channels", c, "thread-members", "@me">>
AddThreadMember(c, i) == <<"PUT", "channels", c, "thread-members", i>>
LeaveThread(c) == <<"DELETE", "channels", c, "thread-members", "@me">>
RemoveThreadMember(c, i) == <<"DELETE", "channels", c, "thread-members", i>>
ThreadMembers(c) == <<"GET", "channels", c, "thread-members">>
ThreadMember(c, i) == <<"GET", "channels", c, "thread-members", i>>
ActiveThreads(g) == <<"GET", "guilds", g, "threads", "active">>
PublicArchivedThreads(c) == <<"GET", "channels", c, "threads", "archived", "public">>
PrivateArchivedThreads(c) == <<"GET", "channels", c, "threads", "archived", "private">>
JoinedPrivateArchivedThreads(c) ==
    <<"GET", "channels", c, "users", "@me", "threads", "archived", "private">>
SearchThreads(c) == <<"GET", "channels", c, "threads", "search">>
-----------------------------------------------------------------------------
(* Emojis.                                                                 *)

Emojis(g) == <<"GET", "guilds", g, "emojis">>
Emoji(g, i) == <<"GET", "guilds", g, "emojis", i>>
CreateEmoji(g) == <<"POST", "guilds", g, "emojis">>
ModifyEmoji(g, i) == <<"PATCH", "guilds", g, "emojis", i>>
DeleteEmoji(g, i) == <<"DELETE", "guilds", g, "emojis", i>>
-----------------------------------------------------------------------------
(* Guilds.                                                                 *)

CreateGuild == <<"POST", "guilds">>
Guild(g) == <<"GET", "guilds", g>>
GuildPreview(g) == <<"GET", "guilds", g, "preview">>
GuildWithCount(g) == <<"GET", "guilds", g>>
Guilds == <<"GET", "users", "@me", "guilds">>
LeaveGuild(i) == <<"DELETE", "users", "@me", "guilds", i>>
ModifyGuild(g) == <<"PATCH", "guilds", g>>
DeleteGuild(g) == <<"DELETE", "guilds", g>>
VoiceRegionsGuild(g) == <<"GET", "guilds", g, "regions">>
AuditLog(g) == <<"GET", "guilds", g, "audit-logs">>
Integrations(g) == <<"GET", "guilds", g, "integrations">>
AttachIntegration(g) == <<"POST", "guilds", g, "integrations">>
ModifyIntegration(g, i) == <<"PATCH", "guilds", g, "integrations", i>>
SyncIntegration(g, i) == <<"POST", "guilds", g, "integrations", i, "sync">>
GuildWidgetSettings(g) == <<"GET", "guilds", g, "widget">>
ModifyGuildWidget(g) == <<"PATCH", "guilds", g, "widget">>
GuildWidget(g) == <<"GET", "guilds", g, "widget.json">>
GuildVanityInvite(g) == <<"GET", "guilds", g, "vanity-url">>
GuildWidgetImage(g) == <<"GET", "guilds", g, "widget.png">>
-----------------------------------------------------------------------------
(* Interactions.                                                           *)

RespondInteraction(i, t) == <<"POST", "interactions", i, t, "callback">>
InteractionResponse(i, t) == <<"GET", "webhooks", i, t, "messages", "@original">>
EditInteractionResponse(i, t) == <<"PATCH", "webhooks", i, t, "messages", "@original">>
DeleteInteractionResponse(i, t) == <<"DELETE", "webhooks", i, t, "messages", "@original">>
FollowUpInteraction(i, t) == <<"POST", "webhooks", i, t>>
EditInteractionFollowup(i, t, j) == <<"PATCH", "webhooks", i, t, "messages", j>>
DeleteInteractionFollowup(i, t, j) == <<"DELETE", "webhooks", i, t, "messages", j>>
-----------------------------------------------------------------------------
(* Invites.                                                                *)

Invite(t) == <<"GET", "invites", t>>
InviteWithCounts(t) == <<"GET", "invites", t>>
ChannelInvites(c) == <<"GET", "channels", c, "invites">>
GuildInvites(g) == <<"GET", "guilds", g, "invites">>
CreateInvite(c) == <<"POST", "channels", c, "invites">>
JoinInvite(t) == <<"POST", "invites", t>>
DeleteInvite(t) == <<"DELETE", "invites", t>>
Login == <<"POST", "auth", "login">>
TOTP == <<"POST", "auth", "mfa", "totp">>
-----------------------------------------------------------------------------
(* Members.                                                                *)

Member(g, i) == <<"GET", "guilds", g, "members", i>>
Members(g) == <<"GET", "guilds", g, "members">>
AddMember(g, i) == <<"PUT", "guilds", g, "members", i>>
ModifyMember(g, i) == <<"PATCH", "guilds", g, "members", i>>
PruneCount(g) == <<"GET", "guilds", g, "prune">>
Prune(g) == <<"POST", "guilds", g, "prune">>
Kick(g, i) == <<"DELETE", "guilds", g, "members", i>>
Bans(g) == <<"GET", "guilds", g, "bans">>
GetBan(g, i) == <<"GET", "guilds", g, "bans", i>>
Ban(g, i) == <<"PUT", "guilds", g, "bans", i>>
Unban(g, i) == <<"DELETE", "guilds", g, "bans", i>>
-----------------------------------------------------------------------------
(* Messages and reactions.                                                 *)

Messages(c) == <<"GET", "channels", c, "messages">>
Message(c, i) == <<"GET", "channels", c, "messages", i>>
EditMessageComplex(c, i) == <<"PATCH", "channels", c, "messages", i>>
CrosspostMessage(c, i) == <<"POST", "channels", c, "messages", i, "crosspost">>
DeleteMessage(c, i) == <<"DELETE", "channels", c, "messages", i>>
deleteMessages(c) == <<"POST", "channels", c, "messages", "bulk-delete">>
SendMessageComplex(c) == <<"POST", "channels", c, "messages">>
React(c, i, e) == <<"PUT", "channels", c, "messages", i, "reactions", e, "@me">>
Reactions(c, i, e) == <<"GET", "channels", c, "messages", i, "reactions", e>>
Unreact(c, i, e) == <<"DELETE", "channels", c, "messages", i, "reactions", e, "@me">>
DeleteUserReaction(c, i, e, j) == <<"DELETE", "channels", c, "messages", i, "reactions", e, j>>
DeleteReactions(c, i, e) == <<"DELETE", "channels", c, "messages", i, "reactions", e>>
DeleteAllReactions(c, i) == <<"DELETE", "channels", c, "messages", i, "reactions">>
Search(g) == <<"GET", "guilds", g, "messages", "search">>
SearchDirectMessages(c) == <<"GET", "channels", c, "messages", "search">>
-----------------------------------------------------------------------------
(* Roles.                                                                  *)

AddRole(g, i, j) == <<"PUT", "guilds", g, "members", i, "roles", j>>
RemoveRole(g, i, j) == <<"DELETE", "guilds", g, "members", i, "roles", j>>
Roles(g) == <<"GET", "guilds", g, "roles">>
CreateRole(g) == <<"POST", "guilds", g, "roles">>
MoveRoles(g) == <<"PATCH", "guilds", g, "roles">>
ModifyRole(g, i) == <<"PATCH", "guilds", g, "roles", i>>
DeleteRole(g, i) == <<"DELETE", "guilds", g, "roles", i>>
-----------------------------------------------------------------------------
(* Scheduled events and stages.                                            *)

ListScheduledEventUsers(g, i) == <<"GET", "guilds", g, "scheduled-events", i, "users">>
ListScheduledEvents(g) == <<"GET", "guilds", g, "scheduled-events">>
CreateScheduledEvent(g) == <<"POST", "guilds", g, "scheduled-events">>
EditScheduledEvent(g, i) == <<"PATCH", "guilds", g, "scheduled-events", i>>
DeleteScheduledEvent(g, i) == <<"DELETE", "guilds", g, "scheduled-events", i>>
ScheduledEvent(g, i) == <<"GET", "guilds", g, "scheduled-events", i>>
CreateStageInstance == <<"POST", "stage-instances", Empty>>
UpdateStageInstance(i) == <<"PATCH", "stage-instances", i>>
DeleteStageInstance(i) == <<"DELETE", "stage-instances", i>>
-----------------------------------------------------------------------------
(* Users.                                                                  *)

User(i) == <<"GET", "users", i>>
Me == <<"GET", "users", "@me">>
ModifyCurrentUser == <<"PATCH", "users", "@me">>
ModifyCurrentMember(g) == <<"PATCH", "guilds", g, "members", "@me">>
PrivateChannels == <<"GET", "users", "@me", "channels">>
CreatePrivateChannel == <<"POST", "users", "@me", "channels">>
UserConnections == <<"GET", "users", "@me", "connections">>
Note(i) == <<"GET", "users", "@me", "notes", i>>
SetNote(i) == <<"PUT", "users", "@me", "notes", i>>
SetRelationship(i) == <<"PUT", "users", "@me", "relationships", i>>
DeleteRelationship(i) == <<"DELETE", "users", "@me", "relationships", i>>
-----------------------------------------------------------------------------
(* Webhooks, with the bot's token and with their own.                      *)

CreateWebhook(c) == <<"POST", "channels", c, "webhooks">>
ChannelWebhooks(c) == <<"GET", "channels", c, "webhooks">>
GuildWebhooks(g) == <<"GET", "guilds", g, "webhooks">>
Webhook(i) == <<"GET", "webhooks", i>>
ModifyWebhook(i) == <<"PATCH", "webhooks", i>>
DeleteWebhook(i) == <<"DELETE", "webhooks", i>>
WebhookGet(i, t) == <<"GET", "webhooks", i, t>>
WebhookModify(i, t) == <<"PATCH", "webhooks", i, t>>
WebhookDelete(i, t) == <<"DELETE", "webhooks", i, t>>
WebhookExecute(i, t) == <<"POST", "webhooks", i, t>>
WebhookMessage(i, t, j) == <<"GET", "webhooks", i, t, "messages", j>>
WebhookEditMessage(i, t, j) == <<"PATCH", "webhooks", i, t, "messages", j>>
WebhookDeleteMessage(i, t, j) == <<"DELETE", "webhooks", i, t, "messages", j>>
-----------------------------------------------------------------------------
(* The calls about one guild, about one channel, and the others.           *)

GuildCalls(g, i, j) ==
    [ListAutoModerationRules |-> ListAutoModerationRules(g),
     GetAutoModerationRule |-> GetAutoModerationRule(g, j),
     CreateAutoModerationRule |-> CreateAutoModerationRule(g),
     ModifyAutoModerationRule |-> ModifyAutoModerationRule(g, j),
     DeleteAutoModerationRule |-> DeleteAutoModerationRule(g, j), Channels |-> Channels(g),
     CreateChannel |-> CreateChannel(g), MoveChannels |-> MoveChannels(g),
     ActiveThreads |-> ActiveThreads(g), Emojis |-> Emojis(g), Emoji |-> Emoji(g, i),
     CreateEmoji |-> CreateEmoji(g), ModifyEmoji |-> ModifyEmoji(g, i),
     DeleteEmoji |-> DeleteEmoji(g, i), Guild |-> Guild(g),
     GuildPreview |-> GuildPreview(g), GuildWithCount |-> GuildWithCount(g),
     ModifyGuild |-> ModifyGuild(g), DeleteGuild |-> DeleteGuild(g),
     VoiceRegionsGuild |-> VoiceRegionsGuild(g), AuditLog |-> AuditLog(g),
     Integrations |-> Integrations(g), AttachIntegration |-> AttachIntegration(g),
     ModifyIntegration |-> ModifyIntegration(g, i),
     SyncIntegration |-> SyncIntegration(g, i),
     GuildWidgetSettings |-> GuildWidgetSettings(g),
     ModifyGuildWidget |-> ModifyGuildWidget(g), GuildWidget |-> GuildWidget(g),
     GuildVanityInvite |-> GuildVanityInvite(g), GuildWidgetImage |-> GuildWidgetImage(g),
     GuildInvites |-> GuildInvites(g), Member |-> Member(g, i), Members |-> Members(g),
     AddMember |-> AddMember(g, i), ModifyMember |-> ModifyMember(g, i),
     PruneCount |-> PruneCount(g), Prune |-> Prune(g), Kick |-> Kick(g, i),
     Bans |-> Bans(g), GetBan |-> GetBan(g, i), Ban |-> Ban(g, i), Unban |-> Unban(g, i),
     Search |-> Search(g), AddRole |-> AddRole(g, i, j),
     RemoveRole |-> RemoveRole(g, i, j), Roles |-> Roles(g), CreateRole |-> CreateRole(g),
     MoveRoles |-> MoveRoles(g), ModifyRole |-> ModifyRole(g, i),
     DeleteRole |-> DeleteRole(g, i),
     ListScheduledEventUsers |-> ListScheduledEventUsers(g, i),
     ListScheduledEvents |-> ListScheduledEvents(g),
     CreateScheduledEvent |-> CreateScheduledEvent(g),
     EditScheduledEvent |-> EditScheduledEvent(g, i),
     DeleteScheduledEvent |-> DeleteScheduledEvent(g, i),
     ScheduledEvent |-> ScheduledEvent(g, i),
     ModifyCurrentMember |-> ModifyCurrentMember(g), GuildWebhooks |-> GuildWebhooks(g)]
ChannelCalls(c, i, j, e) ==
    [Channel |-> Channel(c), ModifyChannel |-> ModifyChannel(c),
     DeleteChannel |-> DeleteChannel(c),
     EditChannelPermission |-> EditChannelPermission(c, j),
     DeleteChannelPermission |-> DeleteChannelPermission(c, j), Typing |-> Typing(c),
     PinnedMessages |-> PinnedMessages(c), PinMessage |-> PinMessage(c, i),
     UnpinMessage |-> UnpinMessage(c, i), AddRecipient |-> AddRecipient(c, i),
     RemoveRecipient |-> RemoveRecipient(c, i), Ack |-> Ack(c, i),
     StartThreadWithMessage |-> StartThreadWithMessage(c, i),
     StartThreadWithoutMessage |-> StartThreadWithoutMessage(c),
     JoinThread |-> JoinThread(c), AddThreadMember |-> AddThreadMember(c, i),
     LeaveThread |-> LeaveThread(c), RemoveThreadMember |-> RemoveThreadMember(c, i),
     ThreadMembers |-> ThreadMembers(c), ThreadMember |-> ThreadMember(c, i),
     PublicArchivedThreads |-> PublicArchivedThreads(c),
     PrivateArchivedThreads |-> PrivateArchivedThreads(c),
     JoinedPrivateArchivedThreads |-> JoinedPrivateArchivedThreads(c),
     SearchThreads |-> SearchThreads(c), ChannelInvites |-> ChannelInvites(c),
     CreateInvite |-> CreateInvite(c), Messages |-> Messages(c), Message |-> Message(c, i),
     EditMessageComplex |-> EditMessageComplex(c, i),
     CrosspostMessage |-> CrosspostMessage(c, i), DeleteMessage |-> DeleteMessage(c, i),
     deleteMessages |-> deleteMessages(c), SendMessageComplex |-> SendMessageComplex(c),
     React |-> React(c, i, e), Reactions |-> Reactions(c, i, e),
     Unreact |-> Unreact(c, i, e), DeleteUserReaction |-> DeleteUserReaction(c, i, e, j),
     DeleteReactions |-> DeleteReactions(c, i, e),
     DeleteAllReactions |-> DeleteAllReactions(c, i),
     SearchDirectMessages |-> SearchDirectMessages(c), CreateWebhook |-> CreateWebhook(c),
     ChannelWebhooks |-> ChannelWebhooks(c)]
OtherCalls(i, j, g, t) ==
    [CurrentApplication |-> CurrentApplication, Commands |-> Commands(i),
     Command |-> Command(i, j), CreateCommand |-> CreateCommand(i),
     EditCommand |-> EditCommand(i, j), DeleteCommand |-> DeleteCommand(i, j),
     BulkOverwriteCommands |-> BulkOverwriteCommands(i),
     GuildCommands |-> GuildCommands(i, g), GuildCommand |-> GuildCommand(i, g, j),
     CreateGuildCommand |-> CreateGuildCommand(i, g),
     EditGuildCommand |-> EditGuildCommand(i, g, j),
     DeleteGuildCommand |-> DeleteGuildCommand(i, g, j),
     BulkOverwriteGuildCommands |-> BulkOverwriteGuildCommands(i, g),
     GuildCommandPermissions |-> GuildCommandPermissions(i, g),
     CommandPermissions |-> CommandPermissions(i, g, j),
     EditCommandPermissions |-> EditCommandPermissions(i, g, j),
     BatchEditCommandPermissions |-> BatchEditCommandPermissions(i, g), BotURL |-> BotURL,
     CreateGuild |-> CreateGuild, Guilds |-> Guilds, LeaveGuild |-> LeaveGuild(i),
     RespondInteraction |-> RespondInteraction(i, t),
     InteractionResponse |-> InteractionResponse(i, t),
     EditInteractionResponse |-> EditInteractionResponse(i, t),
     DeleteInteractionResponse |-> DeleteInteractionResponse(i, t),
     FollowUpInteraction |-> FollowUpInteraction(i, t),
     EditInteractionFollowup |-> EditInteractionFollowup(i, t, j),
     DeleteInteractionFollowup |-> DeleteInteractionFollowup(i, t, j),
     Invite |-> Invite(t), InviteWithCounts |-> InviteWithCounts(t),
     JoinInvite |-> JoinInvite(t), DeleteInvite |-> DeleteInvite(t), Login |-> Login,
     TOTP |-> TOTP, CreateStageInstance |-> CreateStageInstance,
     UpdateStageInstance |-> UpdateStageInstance(i),
     DeleteStageInstance |-> DeleteStageInstance(i), User |-> User(i), Me |-> Me,
     ModifyCurrentUser |-> ModifyCurrentUser, PrivateChannels |-> PrivateChannels,
     CreatePrivateChannel |-> CreatePrivateChannel, UserConnections |-> UserConnections,
     Note |-> Note(i), SetNote |-> SetNote(i), SetRelationship |-> SetRelationship(i),
     DeleteRelationship |-> DeleteRelationship(i), Webhook |-> Webhook(i),
     ModifyWebhook |-> ModifyWebhook(i), DeleteWebhook |-> DeleteWebhook(i),
     WebhookGet |-> WebhookGet(i, t), WebhookModify |-> WebhookModify(i, t),
     WebhookDelete |-> WebhookDelete(i, t), WebhookExecute |-> WebhookExecute(i, t),
     WebhookMessage |-> WebhookMessage(i, t, j),
     WebhookEditMessage |-> WebhookEditMessage(i, t, j),
     WebhookDeleteMessage |-> WebhookDeleteMessage(i, t, j)]

RequestsOf(calls, major) ==
    {[call |-> n, major |-> major, path |-> Tail(calls[n])] : n \in DOMAIN calls}
Requests ==
    UNION ({RequestsOf(GuildCalls(g, i, j), g) : g, i, j \in Snowflakes}
           \cup {RequestsOf(ChannelCalls(c, i, j, e), c) :
                     c, i, j \in Snowflakes, e \in ShortEmojis \cup LongEmojis}
           \cup {RequestsOf(OtherCalls(i, j, g, t), Empty) : i, j, g \in Snowflakes, t \in Tokens})

-----------------------------------------------------------------------------
(* The limiter's buckets.                                                   *)

MajorRootPaths == {"channels", "guilds"}

(* StringIsEmojiOnly and StringIsCustomEmoji; strconv.Atoi takes a          *)
(* snowflake where int has 64 bits.                                         *)
IsEmoji(part) == part \in ShortEmojis
IsNumber(part) == part \in Snowflakes

ParseBucketKey_NoMajor(path) ==
    [i \in DOMAIN path |->
        IF i % 2 = 0 /\ (IsNumber(path[i]) \/ IsEmoji(path[i])) THEN Empty ELSE path[i]]

(* Every second segment is looked at, from the first after the root or,     *)
(* below a major root, from the one after the next word.                    *)
ParseBucketKey(path) ==
    LET skip == IF Head(path) \in MajorRootPaths THEN 4 ELSE 2 IN
    [i \in DOMAIN path |->
        IF i >= skip /\ (i - skip) % 2 = 0 /\ (IsNumber(path[i]) \/ IsEmoji(path[i]))
        THEN Empty ELSE path[i]]

(* A request asks for its bucket, which nothing ever removes.               *)
getBucket(r) ==
    LET key == ParseBucketKey(r.path) IN
    buckets' = [k \in DOMAIN buckets \cup {key} |->
                   (IF k \in DOMAIN buckets THEN buckets[k] ELSE {})
                   \cup (IF k = key THEN {r} ELSE {})]

AllSent == UNION {buckets[k] : k \in DOMAIN buckets}
SendRequest ==
    /\ Cardinality(AllSent) < MaxSent
    /\ \E r \in Requests : getBucket(r)
EndpointsSpec == EndpointsInit /\ [][SendRequest]_endpointVars

-----------------------------------------------------------------------------
(* Calls whose buckets grow without bound, one for each thing they are      *)
(* about: an identifier at a segment that is not looked at, or a token.     *)
PerThing ==
    {"GetAutoModerationRule", "ModifyAutoModerationRule", "DeleteAutoModerationRule",
     "RespondInteraction", "InteractionResponse", "EditInteractionResponse",
     "DeleteInteractionResponse", "FollowUpInteraction", "EditInteractionFollowup",
     "DeleteInteractionFollowup", "Invite", "InviteWithCounts", "JoinInvite",
     "DeleteInvite", "DeleteUserReaction", "WebhookGet", "WebhookModify",
     "WebhookDelete", "WebhookExecute", "WebhookMessage", "WebhookEditMessage",
     "WebhookDeleteMessage"}
Plain(r) == r.call \notin PerThing /\ \A k \in DOMAIN r.path : r.path[k] \notin LongEmojis

(* Requests about different guilds, or different channels, never share a    *)
(* bucket, whatever else they have in common, so that one never waits for   *)
(* the limit of another; and the requests of one call about one guild or    *)
(* channel all share one, whatever they name in it, so that a limit is      *)
(* learnt once and the number of buckets does not grow with what is asked.  *)
KeysRight ==
    \A k, l \in DOMAIN buckets : \A p \in buckets[k], q \in buckets[l] :
        /\ k = l => p.major = q.major
        /\ p.call = q.call /\ p.major = q.major /\ Plain(p) /\ Plain(q) => k = l
=============================================================================
