# arikawa in TLA+

Formal models of arikawa v3 (Go 1.23), the Discord library in this repository: TLA+
modules translated from the source, TLC instances that check them, and TLAPS proofs
for every value of the constants.

    tlc -workers 2 -config RateLimiterQuiet.cfg RateLimiterMC
    tlapm RestProofs.tla

`PROJECT.json` maps every definition to the lines it models and lists the runs,
the mutants (a plausible bug per property, which TLC must find), the hazards and
the theorems.

## 1. The system

| Component | State | Operations | Interacts with | Hard behaviour | Correct when |
|---|---|---|---|---|---|
| REST rate limiter (`api/rate`, `internal/moreatomic/mutex.go`, retry loop of `utils/httputil/client.go`) | per bucket a cancellable mutex, `remaining`, `reset`; a global limit | Acquire, Release, the request loop | every REST method; the server's headers | locks held across a request, contexts that end while queued, retries | one request of a bucket at a time, no 429 by its own fault, no bucket left locked |
| Gateway loop (`utils/ws/gateway.go`, `gateway/gateway.go`, `identify.go`) | select loop, reconnect channel, event channel, session ID and sequence, heartbeat echo | Connect, spin, OnOp, SendHeartbeat, QueueReconnect, finalize | websocket below, Handler above, Discord | resume or identify, dead peers, cancellation in any wait | events of a session once and in order; always connected or reconnecting; a fatal close ends it |
| Websocket (`utils/ws/conn.go`, `ws.go`, `codec.go`) | current connection, two mutexes, a reader goroutine per connection | Dial, Send, Close, readLoop | gateway loop, user goroutines | one concurrent writer; closing while a write is stuck | one writer, one socket in use, Close returns |
| Event handlers (`utils/handler`, `utils/ws/ophandler`) | a slab of entries with a free list per event type, one RWMutex | AddHandler, AddSyncHandler, rm, Call, ChanFor, WaitFor | every event goes through it | entries reused while others walk over them; channels nobody reads | events reach exactly the registered handlers; rm is final and ends blocked sends |
| Session (`session/session.go`) | gateway, context, done channel under one mutex | Open, Wait, Connect, Close, SendGateway | gateway loop, Handler | an event loop that dies by itself, Open and Close from several goroutines | one event loop per session at most |
| Shard manager (`session/shard`) | the shards, a rescaling state | Open, Close, Rescale, FromGuildID | sessions | one shard of several fails; rescaling beside everything else | what fails leaves nothing running; a rescale survives |
| State cache (`state`, `state/store/defaultstore`) | stores per kind of entity, a message list per channel, sets of guilds and channels | one update per event, reads that fall back to the API | Handler, REST | API answers racing events | the cache is what the events say |
| Permissions (`State.Permissions`, `discord/permission.go`) | none | fetch guild, channel, member and roles; compute | cabinet, REST, goroutines of its own | concurrent fetches that share variables | Discord's rules for roles and overwrites |
| Voice session (`voice/session.go`), UDP manager (`voice/udp`), voice gateway | joining flag, gateway, token and endpoint; pause token, stop channel, connection | JoinChannel, updates, Leave; Pause, Dial, Continue, Close, Write | main session, second gateway loop | reconnecting below a writer; tokens given back twice; failures half-way | no socket or gateway left behind; Leave is final |
| REST endpoints (`api`) | none | a request per method, lists read page by page | rate limiter | limits that wrap around, lists that change between pages; which requests share a bucket | every item once; the key keeps the major parameters only |
| Command router (`api/cmdroute`) | a tree of routers, values in slices | Sub, Group, With, HandleInteraction, Deferrable | interactions, REST | groups that move in memory; timeout against answer | the middlewares and the handler that were registered; one answer |
| Components, interactions and commands (`discord`) | none | encode, decode, Find, Unmarshal | REST, router | an encoder and a decoder written apart, fields decoded twice | what is sent back is what came; a press leads to its component |
| Bot framework (`utils/bot`) | subcommands, aliases, plumbs, middlewares, a cache of callers | Add, Register, events | Handler, REST | middlewares and errors of one command beside others | each handler called once, the command that was named |
| Webhooks and interaction server (`api/webhook`) | none | REST calls; an HTTP handler | router | - | - |
| Copy-on-write maps (`internal/moreatomic`, `syncmod`) | read map, dirty map, misses | Load, LoadOrStore, Delete, Reset | the stores | lock-free reads, expunged entries | linearizable |
| Back-off, lazy timers (`internal/backoff`, `lazytime`) | attempt counter, timer | Next, Stop | reconnect loops | draining a timer that has fired | delays grow to the maximum |
| zlib, JSON, codecs, multipart (`internal/zlib`, `utils/json`, `utils/sendpart`) | buffers | encode, decode | websocket, REST | - | inverse of the peer |
| Gateway event types, other Discord types (`gateway`, `discord`) | none | formatting, parsing | all | - | round trips |
| Examples (`0-examples`) | - | - | - | - | - |

Calls go down (user, session, gateway loop, websocket; user, REST method,
limiter); events come up (reader goroutine, event channel of the loop, `ophandler`,
`Handler.Call`, state and user handlers).

## 2. Modules

| Module | Models | Instance | Proofs |
|---|---|---|---|
| `RateLimiter` | callers of `httputil.Client.Request` sharing a `rate.Limiter` and a server | `RateLimiterMC` | `RestProofs` |
| `SerialBuckets` | what the limiter promises: requests of a bucket take turns, and everybody gets a turn | refined by `RateLimiter` | `RestProofs` |
| `GatewayLoop` | `Gateway.spin` and `gatewayImpl` with a reader and a server | `GatewayLoopMC` | `GatewayLoopProofs` |
| `EventStream` | what the event channel promises: one stream of events per session | refined by `GatewayLoop` | `GatewayLoopProofs` |
| `WsConn` | `Websocket`, `Conn` and one reader per connection, with concurrent senders | `WsConnMC` | `WsConnProofs` |
| `Handler` | `Handler`, `slab`, and the goroutines that handle events | `HandlerMC` | `HandlerProofs` |
| `Session` | sessions, with the gateway below seen from above | `SessionMC`, `ClientMC` | `SessionProofs` |
| `ShardManager` | the manager and its rescaling, on top of `Session` | `SessionMC`, `ClientMC` | `SessionProofs` |
| `Cabinet` | the default stores as operators on one record | `StateMC` | `StateProofs` |
| `StateItems` | `State.onEvent`, the getters and the derived guild events over a `Cabinet` | `StateMC` | `StateProofs` |
| `StateMessages` | the message list of a channel, reactions, `State.Messages` | `StateMC` | `StateProofs` |
| `UDPManager` | what the methods of `udp.Manager` do | `VoiceMC` | |
| `VoiceSession` | JoinChannel, Leave, Write and updates over `UDPManager` | `VoiceMC` | `VoiceProofs` |
| `Pages` | the calls that read a list page by page | `ClientMC` | `ClientProofs` |
| `Endpoints` | method and path of every REST call, and `ParseBucketKey` | `ClientMC` | `RestProofs` |
| `CommandRouter` | building a router and looking a command up | `ClientMC` | `ClientProofs` |
| `Interactions` | the Deferrable middleware, nested, with Discord at the other end | `ClientMC` | `ClientProofs` |
| `Components` | components and modals, encoded and decoded | `ClientMC` | |
| `CommandOptions` | commands and their options, encoded, decoded and read | `ClientMC` | |
| `BotContext` | the bot framework from registration to reply | `ClientMC` | `ClientProofs` |
| `MemberPermissions` | `State.Permissions`, `CalcOverrides`, `MemberColor` | `ClientMC` | `ClientProofs` |

`ClientMC` puts the parts that share no state into one instance: `focus` says which
is at work in a behaviour, and the others rest in their initial state.

### RateLimiter

`pc[c]` is where caller c is in the request loop: `lock`, `check`, `wait`, `test`,
`take` inside `Acquire`, `send` for `Do`, `release` for the OnResponse handler, then
retry or return. `holder[b]` is who filled the one-slot channel of the bucket's
`CtxMutex`; as in the code, anybody may drain it. Times are countdowns (a time t is
the number of ticks until t), so nothing grows without bound; `remaining` is a
number modulo `UintMod`. The server has a window per bucket with `Limit` requests;
`Faults` says what may go wrong there. `granted`, `heldBack` and `spacing` are
history.

Two things of the code worth knowing, both modelled: a caller with `DontWait` that
is refused by the global limit still starts the window of a custom bucket in its
Release; and the Retry-After of a 429 is not looked at while the headers leave
`remaining` above zero.

### GatewayLoop

`pc` is where `spin` is: the `select`, emitting to its channel (`todo` holds what
is to be emitted, `after` what follows), the wait for the retry timer, the dial,
the back-off, `finalize`. `handler` variables are those of `gatewayImpl` (session,
sequence, echo); `src` is the channel of the current reader; `outer` the event
channel, of capacity one; `got` what the reader of it has seen. The server half
(sessions, replay, acknowledgements, faults) is external and follows from how the
code uses it. Heartbeat times are counted in intervals up to `DeadBeat`.
The source says of `QueueReconnect` that calling it more than once will
deadlock the loop; it does not, since the send is a non-blocking select.

### WsConn

`current` is `Conn.conn`, with a reader `readLoop(i)` per connection that has ever
been dialed; `g` is the write mutex as a channel; writers are the senders and the
loop itself (`Owner`), whose `Closing` holds `Conn.mut` from end to end. A graceful
close tries the write mutex for a limited time before it sends its frame.

### Handler

`entries[s]` and `free[s]` are the slab of event type s, or of interface handlers
(`Iface`); `freed[s]` is the free list seen as a sequence, a history variable.
`user[h]` is where the owner of h is between AddHandler and the end of its rm.
A caller in `walking` holds the read lock; a waiting writer keeps new readers out,
as Go's RWMutex does. `spawned` are the goroutines that have been started for a
handler and have yet to begin, `running` those that run one; a goroutine may begin long
after its Call, and after rm, have returned. `left[h]` is history: how many events there
had been when h was taken out of its slab.
`Targets` is the pair of loops in `AllCallersForType`: entries are looked at while
the lock is held, so looking at all of them at once is the same. `todo[c]` is the set
of places whose entry is still to be called, which `CallNext` takes slab by slab, in
the order of the slab.

### Session and ShardManager

`pc[c]` is where goroutine c is, `at[c]` the session, `mutex[s]` who holds the mutex
of s. A gateway is its event loop seen from above: it runs, READY arrives, it ends
with or without an error, its context is cancelled (`GatewayLoop` is the detail). The
goroutine of `ophandler.Loop` closes the done channel, and Wait and Close read it.
`ShardManager` opens shards one by one and closes those it has opened when one
fails; `old` are the shards a rescale has taken out. A rescale panics in its first
step (Findings), so what follows that step is not modelled.

### Cabinet, StateItems and StateMessages

`Cabinet` has one operator per method of the default stores. An item is a kind, a
guild and an identifier, its contents are a version (`ver`) that the server counts
up. `queue` holds the events on their way. `hookSession` takes the first: what READY,
READY_SUPPLEMENTAL and GUILD_CREATE bring is stored item by item (`stores`), in any order, READY's
after its reset (it is in the queue as two entries); an update of a member first reads
what is cached (`readsMember`); everything else is one step (`handles`), with
the derived guild events. A getter looks into the cabinet, asks, and stores the answer
item by item, and the emojis of a guild, if it finds no entry for them, in two steps
(`Fill`, `Overwrite`), as `EmojiSet` does. Between any two of these steps the others
go on. `bare` are the cached members of which there is only what an update says
(`UpdateMember` of an empty member). The member of a message is stored before
`hookSession` gives it its user, so it goes to user 0, who is no item (`NobodySet`).
`IntentSets` has a full set of intents, one without presences, of which GUILD_CREATE
then lists hardly any members, and none. `doubt` is history: the items whose entry has been outrun in a way the code cannot
notice (listed below), until an event that stores whatever is stored, or READY, is
handled while nothing under way says anything but the truth of it. In `StateMessages` the messages, `posts`, have a text,
which an edit may replace or empty, and reactions; `State.Messages` stores the answer message by message; `gap` and `unsure`
are the history here.

### UDPManager and VoiceSession

The manager's lock is a channel with room for one token: `full`. It does not say who
put it in, and `Continue`, `Dial` and `acquireConn` all take it out, which is the
point of the model. Sockets and voice gateways are numbers, reused when they are
gone. `mut` is `Session.mut`, `joining` the atomic flag, `attached` whether updates
are listened to. The voice gateway is what the session sees of one: READY once, the
answer to SelectProtocol, its end, its context.

### Pages, Endpoints

`Pages`: the listing changes between two pages, `paging` is the local state of one
call, whose limit counts modulo `UintMod`. `Endpoints`: a path is a sequence of segments,
`GuildCalls`, `ChannelCalls` and `OtherCalls` the tables of all REST calls with the
segments of each, and `ParseBucketKey` what of it becomes a key. Snowflakes, short and long emojis and tokens are distinct
kinds of segments because the parser tells them apart.

### CommandRouter and Interactions

A `Router` is a Go value in a slice, so `With` on a group that makes the slice grow
copies it: `place` names where a router lies, and a router refers to its parent by
place. `Interactions` nests `Layers` of Deferrable; the timer, the handler and the
goroutine of the follow-up are separate steps; `initial` and `followups` are what Discord has taken.

### Components and CommandOptions

JSON is a record with the keys the encoder writes: `omitempty` and absent keys are
modelled, wording is not. What a component has besides the fields that are told
apart travels as one value (`look`, `rest`). The program sends a message or a command,
gets it back from Discord, sends it again, and reads what users pressed, filled in or
typed into structs whose fields are described by name, mark (the tag's `?`, `*`, `-`)
and kind.

### BotContext and MemberPermissions

A struct of commands is a sequence of methods, each with the event it takes and the
kinds of its arguments. `typeCache` is filled at the first event of a type and kept;
`late` is history, the types it had when something was registered afterwards. `run` is
the event being handled: `todo` has the callers each Subcommand has left, `own` the
middlewares of the command found, `called` what was called and how it ended.
In `MemberPermissions` the goroutines of `State.Permissions` write the shared `g`,
`gerr`, `merr` and `rerr` in steps of their own. `PermissionAll` is a parameter, as the
code's constant lists some of the permissions and not all.

## 3. Runs

| Run | Constants that matter | Checks | Shows |
|---|---|---|---|
| `RateLimiterQuiet` | 2 callers, 2 buckets (one custom), Limit 2, one `DontWait` | `NeverThrottled`, `NoUnderflow`, `CustomSpaced` | nobody is throttled when nothing fails |
| `RateLimiterFaulty` | 1 bucket, all faults, 2 tries | `Serialised` (refines `SerialBuckets`), `CallReturns` | turns are taken, and end, whatever the server does |
| `RateLimiterCancel` | a caller that may be cancelled at any time, deadlines, all faults, 2 tries | `NoLeak` | ended contexts leave no bucket locked |
| `GatewayLoopAll` | every fault but a server that falls silent (`mute`) or answers late (`slow`), which `GatewayLoopLive` has; 3 events per session, one undecodable | `EventsInOrder` (refines `EventStream`), `ResumesWhereItWas`, `NoLimbo`, `FatalEnds` | no event lost, repeated or out of order; the protocol state is right at every moment |
| `GatewayLoopLive` | drops, failing dials, silent and slow servers | `Closes`, `Recovers`, `DeadDetected` | it ends when told to, and recovers otherwise |
| `WsConnSafe` | a sender and the loop, 2 connections, lost and stalled | `OneWriter`, `OneSocket`, `CloseReturns` | writes never overlap, and a stuck write does not hold up Close |
| `HandlerAll` | 3 handlers (one synchronous, one a channel, one for every event) in 2 slabs, 2 events | `NoneLost`, `SyncInOrder`, `AllCalled`, `NoLateEvent`, `SendsCancelled` | entries are reused without harm and events reach whom they should |
| `ShardRescale` | 2 sessions, a manager, a rescale | `RescaleSurvives`, violated | see Findings |
| `StateAll` | the items of one kind, or a channel of 2 stored messages out of 4; three sets of intents, bots and users | `Mirrors`, `MembersWhole`, `JoinsAreReal`; `MessageList`, `MessagesFresh` | the stores are what the events say |
| `VoiceSafe` | a joiner, a leaver, a writer and an update; 2 gateways, 3 sockets, 2 attempts | `SocketsOwned`, `OneGateway`, `LeftStaysLeft` | failures half-way leave nothing behind, and Leave is final |
| `VoicePanic` | the same | `NoPanic`, violated | see Findings |
| `ClientAll` | one part at a time, see below | `OneLoop`, `NothingLeftRunning`; `PagesComplete`; `KeysRight`; `RoutesRight`; `AnsweredOnce`; `EachCalled`, `CommandCalled`; `PermissionsRight`; `ComponentsRight`; `CommandsRight` | each part keeps its promise |

### What the properties say

- `NoLateEvent`: a handler that rm has taken out sees no event that arrived after that,
  and a synchronous one is not even in the middle of an event when rm returns. It does
  not say that nothing runs after rm: a goroutine started before may begin after it.
- `Mirrors`: with no event on its way, an item is cached with the contents the server
  has, or not cached because nothing has told of it. `MembersWhole`: where members are
  listed, none is cached with only the fields of an update. `MessageList`: the list is in
  order, within its capacity, and without holes. `MessagesFresh`: the reactions in it
  are the server's, and so is the text, or it is the last one before an edit that left
  none. `JoinsAreReal`: a GuildJoin is announced for a
  guild that was joined.
- `OneLoop`: one event loop at most feeds a session's handlers, and a session that
  says it is not alive has nothing running behind it. `NothingLeftRunning`: Open and
  Close of the manager leave all shards opened or none, whatever fails, and a shard
  that does not count as opened has nothing running.
- `PagesComplete`: whatever comes and goes between two pages, the list has everything
  once and in order and skips nothing that was there all the time, within the limit
  and the number of requests that the comments give. `KeysRight`: requests about
  different guilds or channels never share a bucket, and those of one call about one
  guild or channel always do.
- `RoutesRight`: once registration is over, an interaction reaches the handler that
  was registered for it and no other, through the middlewares of its scopes from the
  outside in. `AnsweredOnce`: the message a handler returns is shown once, whichever
  of the handler and the timeouts is faster.
- `EachCalled`: a Subcommand has its handlers of an event called once each, after the
  middlewares that guard them, up to the first failure in it and whatever fails in
  another. `CommandCalled`: a message runs one command at most, one it means, after
  what guards it, with the words after its name as its arguments.
- `PermissionsRight`: the owner and administrators get the constant `PermissionAll`,
  any other member what Discord's rules give; it fails only
  where something it needs was refused; a color is that of the highest role with one.
- `ComponentsRight`: sending received components again keeps them (`ResendKeeps`), a
  message with components of today decodes (`Decodes`), a press leads to the component
  that was pressed (`PressLeads`), a form is read into the fields with its names
  (`FormRight`). `CommandsRight`: a command that is fetched and registered again is
  the same (`CommandKept`), the options a user gave are in the struct (`OptionsRead`),
  the focused option is found (`FocusFound`).

### Bounds

Two callers of a bucket are enough for every pairwise race on it, and the proofs lift
the safety results to any number; two tries show a retry; `Limit` 2 shows both a
bucket with turns left and one without. The gateway's `MaxSeq` of 3 puts an
undecodable event between two decodable ones, which is where a resume may repeat;
three sessions are a first, a second and a stale one; a network holding one message
(`MaxNet`) already separates what was sent from what was read. Two connections are an
old and a new one. Three handlers are two in one slab and one in another.

Two sessions are the fewest of which one may fail to open after another has
opened; `MaxConns` 5 is more than the goroutines that can still refer to an old
gateway (`SessionAssumption` asks for that), and the names of forgotten gateways are
used again. Only `u1` can be cancelled in `ClientAll` (`m1` too in
`ShardRescale`). Two versions tell fresh from stale; three events on their way
(`MaxQueue`) can all be overtaken by an answer, and two of them make up for what the
third did; a capacity of two messages of four
posted ones drops some. In the voice session, one goroutine of each kind makes every
pair of methods meet, two gateways an old and a new one, three sockets the
manager's, its previous one and one that is dialled.

`ClientAll`: five items and pages of two make up to three pages with a short last
one, and limits 0 to 3 are below, at and above a page; identifiers leave the listing
and come back between pages. `MaxDepth` 3 nests a subcommand in a group, `MaxPlaces`
4 makes slices grow and move, `MaxUses` 2 puts two middlewares in order. `Depth` 2
nests two deferrals. Two requests in `MaxSent` are a pair that may share a bucket.
In `PermissionsRight`, `PermissionAll` is one permission of two. `MaxEvents` 2 is a first event and one that finds the cache filled, `MaxAdded` 2
middlewares beside two structs of commands. Two roles and two overwrites have every
order and every conflict. `MaxParts` 3 components make one row full and a second.

Deadlock is checked in the runs of the rate limiter but `RateLimiterCancel`, of the
gateway, the websocket and the handlers, which have an explicit step for everything
being over. It is not checked where the program may stop calling: `StateAll`,
`ClientAll`, the voice runs, and the runs that end in a panic.

### Fairness

Goroutines that can go on do (weak fairness of each one's steps). A channel used as
a lock, and the cases of a `select`, are served in the end (strong fairness of taking
the lock and of the cases of the loop): Go's channels queue their waiters, and
`select` chooses at random. Timers fire and honest servers answer. Nobody has to
cancel, to send an event, to register, to remove or to receive from a channel.
Liveness is checked in `RateLimiterFaulty`, `GatewayLoopLive`, `WsConnSafe` and
`HandlerAll`; the other modules are checked for safety.

## 4. Findings

- **Rescaling panics** (`ShardRescale`). `rescale` takes the shards away before
  `tryRescale` reads the first of them (`session/shard/manager.go:235`, `:266`).
- **A failed dial panics** (`VoicePanic`). `Manager.Dial` takes the pause token out
  when it fails, which the deferred `Continue` then misses (`voice/udp/manager.go:155`,
  `voice/session.go:387`).

TLC also refutes the following, which the modules state but no run of the project
checks; each needs only the constants given (the others as in a run of the same
module).

| Property | Module, constants | What happens |
|---|---|---|
| `NoPanic` | RateLimiter, two cancellable callers | Release drains the mutex even if its own Acquire failed while queued; the holder's own failing Acquire finds it empty, and `CtxMutex.Unlock` panics |
| `SuccessReturned` | RateLimiter, Faults {"malformed"}, one caller, 2 tries | one malformed header fails the call although a later try succeeds: `onRespErr` is not reset (`client.go:229`) |
| `GlobalHonoured` | RateLimiter, Faults {"global"}, 2 buckets, GlobalAfter 4 | a caller that waits for its bucket's reset goes on under a global limit it has seen (`rate.go:146`) |
| `ErrorsHaveCauses` | GatewayLoop, Faults {}, MaxRuns 2 (holds with MaxRuns 1) | a gateway connected a second time reads the channel, and hears the ticker, of its first life (`utils/ws/gateway.go:236`) |
| `FatalReported` | GatewayLoop, Faults {"fatal", "close"} | the error of the final Close replaces the fatal close in LastError (`utils/ws/gateway.go:262`) |
| `MuteDetected` | GatewayLoop, Faults {"mute"}, FairSpec | a server silent since HELLO is waited for forever |
| `NoNilWrite` | WsConn, a sender, 1 connection | Send tests the connection before it waits for the write mutex and uses it afterwards; a close in between sets it to nil |
| `ReaderEnds` | WsConn, no senders, no faults, FairSpec | the reader of a dropped connection blocks on its last send (`conn.go:249`) |
| `SendReturns` | WsConn, Faults {"stalled"}, FairSpec | a Send without a deadline never returns, nor does the heartbeat behind it (`conn.go:196`) |
| `SendErrorCloses` | WsConn, Faults {"lost"} | a failing Send leaves the websocket open, against the comment on it |
| `SendsCancelled` | Handler, one synchronous channel | rm waits for the lock that the send it should cancel holds |
| `ClosedStaysClosed` | Session, 2 goroutines | Connect goes on when Wait returns nil, as it does after Close, and opens the session again (`session.go:258`) |
| `RightServer` | VoiceSession, 2 guilds | a token of the guild before is taken for this one's (`voice/session.go:346`) |
| `NeverOvertakes` | Interactions | the follow-up is sent by a goroutine of its own and may reach Discord before the deferral |
| `PointsAtArgument` | BotContext | the index of an argument that cannot be parsed is counted twice after a variadic one (`ctx_call.go:273`, `:298`) |
| `AdminsMayAll` | MemberPermissions, `PermissionAll` a proper subset of `Bits` | owners and administrators are given the constant `PermissionAll`, which lacks six of the permissions that `permission.go` defines: ModerateMembers, ViewGuildInsights, ViewCreatorMonetizationAnalytics, UseSoundboard, UseExternalSounds and SendVoiceMessages (`discord/permission.go:13`, `:143-155`, `:179`) |
| `NoNilGuild` | MemberPermissions | the guild and its error are written by two goroutines: a nil guild with a nil error is dereferenced (`state.go:362`) |

## 5. What the properties leave out

Where the code does not keep a promise in a known case, the property is stated for
the others, and the case is named here.

State (`doubt`, `gap`, `unsure`). An answer of the API may put back an item that an
event has just removed. `EmojiSet` makes the entry of a guild and then writes the list
without a second look (`emoji.go:75-84`), so a getter may write its older answer over a
GUILD_EMOJIS_UPDATE. A GUILD_MEMBER_UPDATE of a member that is not cached stores one
without the fields the event lacks (`state_events.go:149-152`): with the intent for
presences, or on a user account, that does not happen (`MembersWhole`), without it
most members are cached like that. The member of a message is stored for user 0
(`state_events.go:19`, `:243`; `:35` comes later), so it is cached for nobody. An edit that
empties a message leaves its old text in the cache (`message.go:188`). A guild that goes loses its entry but not its roles, members
and presences, which stay stale when it comes back, as GuildCreate stores without the
`update` flag; `ChannelSet` ignores that flag altogether. A
deletion or READY that is handled during a call of Messages leaves a hole, and so does
an answer that contains a message whose event is still on its way. Two messages of the same millisecond may be misplaced. An
answer that already counts a reaction has it counted again by the event.
`MESSAGE_REACTION_REMOVE_ALL` is ignored (`state_events.go:327`), and
`REACTION_REMOVE` edits the slice that readers share (`:305`). `fewMessages` is
cleared under the wrong mutex; a channel in it returns all messages whatever the
limit; limit 0 fetches `MaxMessages` where the comment says all. A guild that is left
while it is pending and joined again is announced as ready or available.

Session and manager. Open keeps the mutex until READY arrives, so everyone else
waits for it (`session.go:278`); that every method returns once its context has
ended is `MethodsReturn` of `Session`. TLC confirms it under `SessionMC!FairAlone`
for one session and two goroutines of which one's context ends, given that `select`
does not pass over a done context for ever (without that a Connect whose context has
ended may go on reopening); that run takes minutes and is not one of the project's.
`Close` of the manager waits for the sessions with its mutex held
(`manager.go:201`). A synchronous handler that calls the registry it runs in waits
for itself (`handler.go:56`), and WaitFor's function may wait forever for a receiver
(`handler.go:94`); a second call of an rm touches another's entry (`:251`).

Voice. JoinChannel goes on after its last failed attempt as if the events had come
(`session.go:286-312`). `Manager.Close` leaves the connection itself open, against its
comment (`manager.go:79`). A failed discovery leaves its socket open
(`connection.go:99-117`), and discovery has no deadline. After a Write's token was
taken out by somebody else, that Write blocks until the next Pause, and a later Dial
is refused. Speaking before a join dereferences nil. The voice gateway ignores a
CloseEvent, so its loop reads a closed channel until a heartbeat fails
(`utils/ws/gateway.go:326`). `backoff.Timer.Stop` blocks if its timer has been drained
(`internal/backoff/backoff.go:50`).

Router and interactions. A handle kept from `With` misses what is registered after the
groups have moved: `RoutesRight` is about routers used in the callback they were given
to, and `MaxPlaces` 4 has groups that move, but no sub-router made in a group that
moves later (`RoutesAreRight` is proved for that too); a group in a group, and a component in any group, is never found.
A nil answer, or one without data, after a deferral is dropped; of two nested
Deferrables the outer one's follow-up is empty and refused. With
AlwaysDeferInteraction the interaction server writes two JSON bodies for a ping
(`interactionserver.go:127-142`). `DeferTicket.Defer` panics on a zero ticket.

Endpoints. 22 calls put identifiers, tokens or codes into the key at positions that
`majors.go` does not look at, so their buckets never stop growing in number; the
property speaks of the calls that `Plain` keeps. ReactionsBefore and GuildsBefore
without a cursor ask for the first page, before which there is nothing: `PagesComplete`
is about callers that give one (`Starts`). All webhooks share a bucket
(`majors.go:8`, a TODO), the key ignores the HTTP method, an emoji of three or more
runes is not recognised. The path of CurrentApplication has a double slash
(`application.go:18`). The client of a webhook session has no limiter
(`webhook.go:67`). DeleteMessages sends a last batch of one to the bulk endpoint
(`message.go:434-457`).

Components and commands. The limits of a select are lost when it is sent again;
user, role, mentionable and channel selects decode to UnknownComponent and cannot be
found; an unknown component at the top level (type 9 and above), or a button of style
6, fails the whole message; an encoded ComponentInteraction has lost its type.
`CommandInteraction.Resolved` has no JSON tag. An unknown option keeps only its name
and type; an absent `dm_permission` is read as no permission, and so is an absent
`default_permission`, which `CommandsRight` never gives; an error for a field of an
unsigned type is taken as right whatever was given. Attachment options, and
types derived from identifiers, cannot be read by Unmarshal; float fields refuse
Integer options, int fields fail on fractions; a `?` on a pointer fails when
the option is there; `Focused` does not look into subcommands.

Bot. A Break of a middleware for every event on a message does not stop the commands
(`ctx_call.go:50`); an error of one subcommand stops the others (`:62`); edited messages
pass by the `*` middlewares (`:74-101`); the cache of callers is stale after a late
registration (`:39`). A command of the main struct hides a subcommand of the same
name. Threads have no overwrites of their own, as in `CalcOverrides`.

## 6. Proofs

All theorems are proved by induction on the steps, from the assumptions on the
constants named in each module.

- `RestProofs`, of `RateLimiter`: `TypeCorrect`; `NeverLeaks`, since "a locked bucket has a
  call in progress in it" is inductive even when contexts end. Without ended
  contexts `HoldsLock` (whoever is past the lock holds it) is inductive as well and
  gives `MutualExclusion`. For `ServerNeverThrottles`, `TurnsNeverUnderflow` and
  `CustomBucketsSpaced` that is not enough: the invariant `KnowsInv` relates the
  limiter's `remaining` and `reset`, and an answer still on its way, to the window of
  the server - the limiter never believes in more turns, or in an earlier reset, than
  there are. `ImplementsSerialBuckets` shows that each step is a step of
  `SerialBuckets` or a stutter (its liveness is left to TLC).
  `KeysAreRight` is a computation over the tables of `Endpoints` with a small invariant:
  a bucket holds requests whose key is the bucket's (`KeysInv`). For each of the 157
  calls the key is computed with arbitrary identifiers in it: that of a call about a
  guild or a channel has it as its second segment, that of another call has nothing that
  looks so, and that of a call which is not `PerThing` does not depend on the rest
  (`GuildKeys`, `ChannelKeys`, `OtherKeys`). No constant needs an assumption.
- `GatewayLoopProofs`. `FatalCodesEnd` (`FatalEnds`) and `NeverInLimbo` (`NoLimbo`) from
  one invariant about where the loop is or goes once it has sent what it has to send
  into the event channel: towards the select only with a connection or a token in the
  reconnect channel (`Connected`), towards Dial only when the old reader's end is
  forgotten (`Fresh`), and after a fatal code only towards its exit (`Ended`). It
  needs the types (`Typed`), among them that a CloseEvent comes from the reader alone.
  A second invariant, `StreamInv`, is about what is on its way: the events in `todo`,
  in the channel and in the reader's hands follow one upon the other (`Continuous`),
  and what has been read, with what is held, ends where the handler's sequence is
  (`Held`). `ResumesAtReader` follows from it, and so does `ImplementsEventStream`: a
  step that hands an event to the reader is a step of `EventStream`, any other a
  stutter. `NoneAssumption`: the name for "no session" is not a session.
- `WsConnProofs`. `TypeCorrect`, and `WritesAreSerial` from `WritersHold`: whoever is
  inside a write call holds the write mutex, and the loop writes its close frame only
  after it has got it. `SocketsAreSerial`: an open socket is the current connection's,
  and a dial finds none.
- `HandlerProofs`. `SlabsSound`: `NoneLost` is not inductive by itself, because Put
  takes its place from a list threaded through the entries. The invariant `Sound` adds
  that list: linked from `free` through entries that are not valid to the end of the
  slab, none twice (`FreeListOf`), and every valid entry owned by a registered
  handler (`Owned`). Lemmas about the list alone (`ListGrow`, `ListTake`, `ListPush`)
  say what Put and Pop do to it. `Calling` adds the goroutines that walk: they
  have before them places of the slabs of their event (`Walks`), whose entries no owner
  changes while they hold the read lock; with it `TypeCorrect` and `EventsReachAll`.
  `NothingComesLate` adds that a run of a synchronous handler is one that a caller, which
  holds the read lock, waits for (`Awaited`), and that no run is of an event yet to come
  (`Past`). `SynchronousInOrder` needs `Ordered` too, in which a synchronous handler's next event is later than all it has seen (`Later`); it assumes
  that one goroutine calls, which is `OneLoop` of `Session`.
- `VoiceProofs`. `GatewaysOwned`: `OneGateway` is inductive as it stands, since what
  replaces or forgets a gateway cancels it first. `StaysLeft`: `LeftStaysLeft` is not;
  the invariant adds that whoever connects holds the mutex (`MutHeld`), that the
  manager stays stopped and the gateways cancelled while a Leave is under way
  (`LeaverShuts`), and that after it an update that gets the mutex has found no
  connection (`LeftAlone`). `GatewaysOwned` is used there: a session without a
  gateway has none to cancel. `SocketsAreOwned`: a socket that is neither
  the manager's nor its previous one's is never left open, and the previous one only
  while the holder of the mutex connects.
- `SessionProofs`, about `Session` and `ShardManager` together. `LoopsAreSingle`:
  `OneLoop` needs that whoever is between Lock and Unlock holds the mutex
  (`MutexHeld`), that a session without a cancel function is quiet while its mutex is
  free, and so is one that is being dialled (`Settled`), and that the goroutine
  feeding the handlers is the one `doneCh` stands for and reads from the event loop
  that runs (`Fed`). `FreshConn` finds a name for a new gateway: there are more names
  than goroutines that watch an old one. `ShardsAreSettled`: `ManagerInv` adds
  to it that the goroutines in the manager act by turns (`Turns`), that no two shards
  are one session (`Distinct`, which needs that there are finitely many to name), that
  the shards a goroutine has been through, opening or closing, are as it leaves them
  (`Through`), and that a shard that does not count as opened is quiet unless one of
  them is at it (`Rest`).
- `StateProofs`. `JoinsAnnounced`, an action property: what the handler takes from the
  queue was sent long before, so `JoinInv` follows the events under way. A guild's
  GuildCreate that is not a join finds the guild expected (`ExpectedAt`) once all that is
  in front of it has been handled: there is a READY or an outage there, or in the two
  sets already, and no later event of the guild that takes it back (`Queued`); and so
  will one that the server has yet to send (`Pending`).
  `StoresMirror`: `Mirrors` looks at an empty queue, so `MirrorInv` looks at whatever is
  under way, item by item. An event decides about an item if what is stored afterwards
  does not depend on what was before (`Decides`); what the last such event leaves is the
  truth, or nothing, and in that case all that is said of the item behind it, by events
  and answers, is true (`Reflects`). What an event wipes, of a guild that is shown, a
  later one brings, or a getter is about to write it (`Brought`); and a guild has an
  entry of emojis without a list only while one is (`Entering`). An event that brings
  many items is stored one by one: what it has brought it no longer says
  (`ReflectsBrought`, `BroughtIt`), and nothing becomes of the others (`ReflectsAgain`,
  `BroughtAgain`). It rests on what each method of the stores does to each item
  (`StoreEffect`, `RemoveEffect`, `BareEffect`, `EnterEffect`, `WriteEffect`), what each
  event does (`OnEvent`), and that the server tells the truth when it speaks
  (`SnapshotTrue`, `GreetingBrings`). `CabinetAssumption` says that a channel is of one
  kind, `TopicsAssumption` that there are finitely many items.
  `ListHasNoHoles`: `MessageList` from `ListInv`. Its first half, `KnownInv`, says what
  can be told, cached and answered at all: messages that were posted, none of which is
  there any more once a deletion of it is under way. Its second half, `HoleInv`, says
  that a message later than the last one of the list is held or still comes as an event
  (`Covers`), the same for the answer a call has in hand, whose messages follow upon each
  other as long as the list has room (`CallCovers`), and that events of new messages come
  in their order (`PendsInOrder`) and only for messages that nobody holds
  (`NotPending`). It rests on where `AddMessage` puts a message and what it drops
  (`AddCases`, `AddKeeps`), what a deletion leaves (`RemoveSome`), that an update moves
  nothing (`TurnList`), and what an answer is (`AnswerIs`). The proof found the
  property's exception wrong: it is the deletion's event, *handled* during a call, that
  leaves a hole, and not the deletion in the channel, which may lie before the call.
  `CachedMessagesAreFresh`: `MessagesFresh` looks at an empty queue, so `FreshInv`
  follows each message through what is under way, as `MirrorInv` does the items. A
  cached message, unless it is in `unsure`, is deleted by an event to come, or the events
  to come turn it into what the channel has (`Agrees`, `Becomes`): one after another they
  end in the right text, and for every emoji in the right count, or one of them clears it
  and those after it end there. The same holds for a message that is still to come as an
  event (`ComingAgree`). An answer of the API that a call has yet to store already is
  what the channel has, with no reaction under way for it that would be counted again
  (`AnswersAgree`): this is what `unsure` has to leave out. And the last edit or reaction
  told tells how the message is now (`ContentsTold`).
- `ClientProofs`. `MessagesAnsweredOnce` for any number of nested Deferrables: a
  message that has come up to a layer has passed those below (`Above`), a layer that has
  deferred has a goroutine that waits for what comes later (`LeftBehind`), so one of them
  has the message that the layers above will not see (`Carried`), and what Discord has is
  what was returned and followed up (`Responded`, `Posted`).
  `PermissionsAreRight`: the invariant `FetchInv` says which goroutine brings the guild
  (`GuildComes`), that the one that asks has an answer or none (`Asked`), and that
  nothing is returned before both are there (`NotYet`). Then it is about operators: the
  switches and loops of `CalcOverrides` give, permission by permission, what Discord's
  rules give (`OverridesAre`), and the loop of `MemberColor` ends at the highest role
  with a color (`ColorIsHighest`), by induction on how far it is. That induction is
  over a set: were there a place where the loop is wrong, there would be a first one
  (`UpFromZero`); and a loop is a recursive function, which exists (`Loop`).
  `PermissionsAssumption` says what places and looks there are.
  `PagesAreComplete`: `PageInv` says that a call that goes on has had nothing but full
  pages (`FullPages`), so that the limit that wraps around ends the loop, and that it
  has what there was up to its cursor, none of it twice and nothing beyond
  (`UpToCursor`). All eight loops keep it for the same reason (`TurnKeeps`): a page is
  the nearest of what is left (`IsPage`, `NearestIsPage`), goes to the end of the list
  where it belongs, and its farthest element is the next cursor (`PageFits`). That
  finite sets can be put in order is proved on the way (`AscendingLists`).
  `PagesAssumption`: finitely many identifiers, 0 and 1 not among them, pages of at
  least one, and limits that fit a uint.

  `HandlersCalled` and `CommandsCalled` come from one invariant, `BotInv`. `SubsRight`
  is what registration keeps: the methods of a struct have distinct names, a Subcommand
  has a name of its own and plumbs a command it has. With it `eventCallers` is what an
  event owes (`AllCallers`: each handler once, after its own middlewares and those for
  all), and the cache has that unless something was registered later (`CacheRight`).
  How far a Subcommand has come is `Calling`: what was called is a beginning of its
  callers, and the rest is still to do unless one has failed (`Through`), each handler
  after what guards it and nothing after a failure (`Ordered`). `Commanding` is about the
  message: `findCommand` gives a command that the words mean, with the words that are
  left after its name, which is also what cutting names off the raw message leaves
  (`CommandFound`), and each of its middlewares has been called or is to be (`Walking`).
  `BotAssumption`: methods have names, each its own, the Context alone has none, and
  contents are sequences of words.

  `RoutesAreRight` is about memory and about a tree at once. A router that has moved
  leaves its old place behind, which sub-routers still have for a parent, so what the
  places say is compared with a tree of scopes that nobody keeps (`RouterIs`): a scope
  lies within an earlier one and has a path and a chain of scopes down from the root
  (`Tree`). Every place belongs to a scope, has its middlewares, and has its groups and
  its parent where the tree has them; only a group whose callback has returned can have
  several places, and they share one map (`PlacesRight`), so that an old place is as good
  as the new one. That is where the order of `Sub`, `Group` and `With` matters: whoever is
  still registering has the only place of its scope (`StackRight`). What is in a map was
  registered in its scope (`NodesRight`), and what was registered can be found from the
  root down (`ScopesReached`, `Served`). An operation on the router at work keeps that
  (`Changes`), and one that opens a scope has a larger tree for it (`Grows`). When
  registration is over, the lookup is an induction over the names of the interaction
  (`FoundIs`): what it finds is right (`FindsRight`), it finds what there is
  (`EachFound`), and the parents of a place lead up the chain of its scope, past the same
  middlewares. `RouterAssumption`: interactions have at least one name.

TLC has checked the invariants of these proofs on instances before they were proved:
`StreamInv` on 3.5 million states, `ManagerInv` on 2.9, `JoinInv` (with three events
under way) on 3.4, `MirrorInv` (the same) on 2.6, `FreshInv` (the same) on 16, and
that of `ClientProofs` with three Deferrables.

(`RouterIs` is an exception: it says that there is a tree, and TLC could only guess one.
It has checked `RoutesRight` itself.)

Model-checked only: of the state, `MembersWhole`; of the client, `ComponentsRight`,
where `FindComponent` looks through all rows put end to end by `FlattenSeq`, a recursion
over the data; `CommandsRight`, whose module walks options by RECURSIVE operators; and
all liveness.
Liveness under fairness and ENABLED are beyond the prover, and so are RECURSIVE
operators; the other modules use folds and recursive functions in their place.

## 7. Not modelled

- Bytes: JSON syntax, compression, headers beyond the rate limit's, the wording of
  errors, multipart bodies, the net/http driver. Bodies and query strings of the REST
  calls, apart from those of components, commands and pages.
- Times: the identify and dial limiters and the length of back-offs (a wait ends at
  some time).
- Copy-on-write maps: a modified `sync.Map`, used by the stores. Each store method
  is taken as atomic instead; in the message store, which has a mutex, each message.
- The voice gateway's own handler, Speaking, SetDialer, ResetFrequency, encryption
  and the packets of a UDP connection.
- Reflection: which types a handler or a command takes is a constant.
- In `Handler`: an rm called twice, WaitFor, a handler that calls its own registry.
  In `Session`: the branch of Open on `s.state.ctx.Done()`, which is not reachable,
  AddIntents after Open (documented to panic), Login, ForEach. In `ShardManager`: what
  follows the panic of `tryRescale`.
- In the state: custom stores, user settings, more than one channel of messages; a list the API pages through is one answer
  (paging is `Pages`).
- In the bot framework: help texts, intents derived from handlers, splitting words
  (`SplitFunc`), sending the reply.
- The signature check and the HTTP handler of the interaction server.
- Discord types other than components, interactions, commands and permissions; most
  are structs that encoding/json copies. Snowflakes are names here; in the code 0 and
  the null snowflake both encode as null, and those from 2^63 print as negative.
- `0-examples`.

## 8. What would come next

A refinement of an atomic map by the copy-on-write map; a `Handler` whose owners call rm twice, and
WaitFor as a client of it; the rescale of `ShardManager` once its index is repaired.
