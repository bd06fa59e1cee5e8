------------------------------- MODULE ClientMC -------------------------------
(* What a program uses besides the gateway and the caches: sessions and      *)
(* their manager, the calls that page through lists, the buckets of the REST *)
(* calls, the command router, the answers to interactions, the bot framework *)
(* and the computation of permissions.  They share no state, so a behaviour  *)
(* is one of them at work and the others in their initial state.             *)
EXTENDS ShardManager, Pages, Endpoints, CommandRouter, Interactions, BotContext,
        MemberPermissions, Components, CommandOptions

CONSTANTS s1, s2, u1, m1, r1

VARIABLES focus  \* the part at work
wireVars == <<componentVars, commandVars>>
clientVars == <<vars, pageVars, endpointVars, routerVars, interactionVars, botVars, permissionVars>>
parts == <<clientVars, wireVars>>

AllInit ==
    /\ Init /\ NewManager /\ PagesInit /\ EndpointsInit /\ RouterInit
    /\ InteractionsInit /\ BotInit /\ PermissionsInit /\ ComponentsInit /\ CommandOptionsInit

(* The others are left out of the count of initial states.                   *)
Resting(f) ==
    /\ f # "pages" => paging.by = "MembersAfter" /\ listing = {} /\ paging.most = 0 /\ paging.from = 0
    /\ f # "interactions" => \A i \in Layers : ~flagged[i]
    /\ f # "permissions" => g /\ ~merr /\ ~rerr
ClientInit ==
    /\ AllInit
    /\ focus \in {"sessions", "pages", "endpoints", "router", "interactions", "bot", "permissions",
                 "components", "commands"}
    /\ Resting(focus)

Without(p) == UNCHANGED <<focus, p>>
ClientNext ==
    \/ focus = "sessions" /\ Next
       /\ Without(<<pageVars, endpointVars, routerVars, interactionVars, botVars, permissionVars, wireVars>>)
    \/ focus = "pages" /\ PagesNext
       /\ Without(<<vars, endpointVars, routerVars, interactionVars, botVars, permissionVars, wireVars>>)
    \/ focus = "endpoints" /\ SendRequest
       /\ Without(<<vars, pageVars, routerVars, interactionVars, botVars, permissionVars, wireVars>>)
    \/ focus = "router" /\ RouterNext
       /\ Without(<<vars, pageVars, endpointVars, interactionVars, botVars, permissionVars, wireVars>>)
    \/ focus = "interactions" /\ InteractionsNext
       /\ Without(<<vars, pageVars, endpointVars, routerVars, botVars, permissionVars, wireVars>>)
    \/ focus = "bot" /\ BotNext
       /\ Without(<<vars, pageVars, endpointVars, routerVars, interactionVars, permissionVars, wireVars>>)
    \/ focus = "permissions" /\ PermissionsNext
       /\ Without(<<vars, pageVars, endpointVars, routerVars, interactionVars, botVars, wireVars>>)
    \/ focus = "components" /\ ComponentsNext /\ Without(<<clientVars, commandVars>>)
    \/ focus = "commands" /\ CommandOptionsNext /\ Without(<<clientVars, componentVars>>)
ClientSpec == ClientInit /\ [][ClientNext]_<<focus, parts>>

-----------------------------------------------------------------------------
(* Two command structs and the messages sent to them.                        *)
Sig(name, event, args) == [name |-> name, event |-> event, args |-> args, returns |-> 1]
TwoStructs ==
    [main |-> <<Sig("echo", "create", <<"raw">>), Sig("sum", "create", <<"int", "ints">>),
                Sig("seen", "any", <<>>)>>,
     mod |-> <<Sig("ban", "create", <<"int", "manual", "int">>), Sig("list", "create", <<"word", "raw">>),
               Sig("typed", "typing", <<>>)>>]
AllWares == {[id |-> "m", event |-> "create"], [id |-> "n", event |-> "any"]}
SomeContents ==
    {<<>>, <<"1">>, <<"echo">>, <<"echo", "echo", "x">>, <<"sum">>, <<"sum", "1">>, <<"sum", "1", "1">>,
     <<"sum", "1", "x">>, <<"sum", "1", "1", "x">>, <<"mod">>, <<"mod", "list", "list">>,
     <<"mod", "x", "mod">>, <<"mod", "mod", "1">>, <<"mod", "ban", "1", "x">>, <<"mod", "ban", "x">>,
     <<"mod", "ban">>, <<"mod", "1">>}

-----------------------------------------------------------------------------
(* Roles with and without a color, some at the same place.                   *)
SomeLooks == [color : 0..2, position : 0..2]

-----------------------------------------------------------------------------
(* Components of each kind, posts with what is new to the library, and       *)
(* structs to read a modal into.                                             *)
Picker(kind, id, defaults) == [kind |-> kind, id |-> id, limits |-> <<1, 2>>, defaults |-> defaults]
SomeComponents ==
    {[kind |-> "button", id |-> "a", style |-> NoStyle, url |-> ""],
     [kind |-> "button", id |-> "b", style |-> 3, url |-> ""],
     [kind |-> "button", id |-> "", style |-> 5, url |-> "u"],
     [kind |-> "string", id |-> "a", limits |-> <<0, 0>>, options |-> <<"1">>],
     [kind |-> "string", id |-> "b", limits |-> <<1, 2>>, options |-> <<"x", "1">>],
     [kind |-> "text", id |-> "a", limits |-> <<0, 0>>, value |-> ""],
     [kind |-> "text", id |-> "b", limits |-> <<1, 2>>, value |-> "x"],
     Picker("user", "a", <<"1">>), Picker("role", "b", <<>>), [types |-> <<"text">>] @@ Picker("channel", "a", <<"1", "2">>),
     Picker("mentionable", "b", <<[userId |-> "1", roleId |-> ""], [userId |-> "", roleId |-> "2"]>>)}
RowOf(items) == [type |-> "row", components |-> items]
SomePosts ==
    {<<RowOf(<<[type |-> "button", style |-> 6]>>), RowOf(<<>>)>>, <<[type |-> "section"]>>,
     <<RowOf(<<[type |-> "new", custom_id |-> "a"], [type |-> "button", style |-> 5, url |-> "u"]>>)>>}
FieldOf(name, mark, kind) == [name |-> name, mark |-> mark, kind |-> kind]
SomeForms ==
    {<<FieldOf("a", "", "string"), FieldOf("b", "*", "int")>>, <<FieldOf("b", "?", "uint"), FieldOf("a", "", "float")>>,
     <<FieldOf("a", "", "bool"), FieldOf("b", "?*", "string")>>, <<FieldOf("a", "-", "other"), FieldOf("b", "", "strings")>>,
     <<FieldOf("a", "?", "other")>>, <<FieldOf("a", "?", "strings")>>}
SomeReads == [int |-> {"1", "-1"}, uint |-> {"1"}, float |-> {"1", "-1"}]

-----------------------------------------------------------------------------
(* Commands with options of each kind, structs that fit them and structs     *)
(* that do not.                                                              *)
OwnCommand(type, noDM, options) == [type |-> type, noDM |-> noDM, noDefault |-> ~noDM, options |-> options]
City == ValueOption("string", "city", TRUE)
SomeCommands ==
    {OwnCommand("", TRUE, <<City, ValueOption("integer", "n", FALSE), ValueOption("user", "who", FALSE)>>),
     OwnCommand("chat", FALSE, <<ValueOption("number", "n", TRUE), ValueOption("attachment", "city", FALSE),
                                 ValueOption("mentionable", "who", FALSE)>>),
     OwnCommand("chat", FALSE, <<SubOption("x", <<City, ValueOption("boolean", "n", FALSE)>>),
                                 GroupOption("g", <<SubOption("x", <<ValueOption("role", "who", TRUE)>>),
                                                                              SubOption("city", <<ValueOption("channel", "who", FALSE)>>)>>)>>),
     OwnCommand("user", FALSE, <<>>)}
NewOption == [type |-> "new", name |-> "n", rest |-> "r"]
CommandJSON(options) == [type |-> "chat", dm_permission |-> TRUE, default_permission |-> FALSE, options |-> options]
SomeKept == {CommandJSON(<<NewOption>>), CommandJSON(<<[type |-> "sub", name |-> "x", options |-> <<NewOption>>]>>)}
OptionField(name, mark, kind) == [name |-> name, mark |-> mark, kind |-> kind]
StructField(name, mark, fields) == [name |-> name, mark |-> mark, kind |-> "struct", fields |-> fields]
Leaf == <<OptionField("City", "", "string"), OptionField("n", "?", "bool")>>
SomeReceivers ==
    {<<OptionField("City", "", "string"), OptionField("n", "*", "int"), OptionField("who", "?", "UserID")>>,
     <<OptionField("n", "", "float"), OptionField("who", "*", "Snowflake"), OptionField("City", "?", "AttachmentID")>>,
     <<OptionField("n", "?", "uint"), OptionField("City", "-", "other"), OptionField("who", "?*", "UserID")>>,
     <<OptionField("n", "", "int"), OptionField("City", "?", "other")>>,
     <<StructField("x", "*", Leaf), StructField("g", "*", <<StructField("x", "*", <<OptionField("who", "", "RoleID")>>),
           StructField("city", "*", <<OptionField("who", "*", "ChannelID")>>)>>)>>,
     <<StructField("x", "", Leaf)>>}
JSONValue(is, v) == [is |-> is, v |-> v]
SomeGiven ==
    [string |-> {JSONValue("text", "t"), JSONValue("id", "1")}, integer |-> {JSONValue("natural", "1"), JSONValue("negative", "-1")},
     number |-> {JSONValue("natural", "1"), JSONValue("fraction", "1.5")}, boolean |-> {JSONValue("bool", "true")},
     user |-> {JSONValue("id", "1")}, role |-> {JSONValue("id", "1")}, channel |-> {JSONValue("id", "1")},
     mentionable |-> {JSONValue("id", "1")}, attachment |-> {JSONValue("id", "1")}]
SomeFolded == [n \in {"city", "City", "n", "who", "x", "g"} |-> IF n = "City" THEN "city" ELSE n]
=============================================================================
