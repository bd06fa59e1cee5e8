---------------------------- MODULE CommandOptions ----------------------------
(* Application commands (discord/command.go) and the options users give when *)
(* they call them (discord/interaction.go): the program registers a command, *)
(* Discord keeps its JSON and returns it, the program registers what it got  *)
(* again; a user calls the command, and the program reads the options of the *)
(* interaction into a struct.  What encoding/json copies both ways under one *)
(* name (localizations, choices, bounds, ...) is one key, rest.              *)
EXTENDS Naturals, SequencesExt

CONSTANTS
    OwnCommands,    \* the commands the program registers
    OtherCommands,  \* the JSON of commands that were registered before
    Given,          \* value kinds -> the JSON values users give
    Folded,         \* names -> the name strings.EqualFold compares
    Receivers,      \* the structs the program reads options into
    NoOption        \* an error, the option that is not found, and no command

VARIABLES
    kept,      \* JSON of the command at Discord
    original,  \* that JSON when it was registered first
    fetched,   \* the Command the program decoded
    asked,     \* options of the call on its way: JSON
    path,      \* names of the subcommand the user chose
    receiver,  \* the struct and what its fields got
    rounds     \* how often the command was registered
commandVars == <<kept, original, fetched, asked, path, receiver, rounds>>

BasicKinds == {"string", "integer", "boolean"}
EntityKinds == {"user", "channel", "role", "mentionable"}
OtherKinds == {"number", "attachment"}
ValueKinds == BasicKinds \cup EntityKinds \cup OtherKinds
Or(json, k, zero) == IF k \in DOMAIN json THEN json[k] ELSE zero
HasNone(s) == \E i \in DOMAIN s : s[i] = NoOption

(* The constructors; rest stands for what the caller adds to the struct.     *)
ValueOption(kind, name, required) == [kind |-> kind, name |-> name, required |-> required, rest |-> "r"]
SubOption(name, options) == [kind |-> "sub", name |-> name, options |-> options]
GroupOption(name, subs) == [kind |-> "group", name |-> name, subs |-> subs]

-----------------------------------------------------------------------------
(* Encoding.  An UnknownCommandOption has no method for it, so encoding/json *)
(* writes its exported fields only.                                          *)
MarshalValue(o) ==
    IF o.kind = "unknown" THEN [type |-> o.type, name |-> o.name]
    ELSE [type |-> o.kind, name |-> o.name, required |-> o.required, rest |-> o.rest]
MarshalSub(o) ==
    [type |-> "sub", name |-> o.name, options |-> [i \in DOMAIN o.options |-> MarshalValue(o.options[i])]]
MarshalOption(o) ==
    CASE o.kind = "sub" -> MarshalSub(o)
      [] o.kind = "group" -> [type |-> "group", name |-> o.name,
                              options |-> [i \in DOMAIN o.subs |-> MarshalSub(o.subs[i])]]
      [] OTHER -> MarshalValue(o)
MarshalCommand(c) ==
    LET all == [type |-> c.type, options |-> [i \in DOMAIN c.options |-> MarshalOption(c.options[i])],
                dm_permission |-> ~c.noDM, default_permission |-> ~c.noDefault]
        omitted == (IF c.type = "" THEN {"type"} ELSE {}) \cup (IF c.options = <<>> THEN {"options"} ELSE {}) IN
    [k \in DOMAIN all \ omitted |-> all[k]]

-----------------------------------------------------------------------------
(* Decoding.  Every option is an UnknownCommandOption first, which decodes   *)
(* itself once more by its type.                                             *)
UnmarshalValue(j) ==
    IF j.type \in ValueKinds THEN [kind |-> j.type, name |-> j.name, required |-> Or(j, "required", FALSE), rest |-> Or(j, "rest", "")]
    ELSE IF j.type \in {"sub", "group"} THEN NoOption  \* commandTypeCheckError
    ELSE [kind |-> "unknown", type |-> j.type, name |-> j.name, raw |-> j]
UnmarshalSub(j) ==
    LET options == [i \in DOMAIN Or(j, "options", <<>>) |-> UnmarshalValue(j.options[i])] IN
    IF j.type # "sub" \/ HasNone(options) THEN NoOption
    ELSE [kind |-> "sub", name |-> j.name, options |-> options]
UnmarshalOption(j) ==
    CASE j.type = "sub" -> UnmarshalSub(j)
      [] j.type = "group" -> LET subs == [i \in DOMAIN Or(j, "options", <<>>) |-> UnmarshalSub(j.options[i])] IN
                             IF HasNone(subs) THEN NoOption ELSE [kind |-> "group", name |-> j.name, subs |-> subs]
      [] OTHER -> UnmarshalValue(j)
UnmarshalCommand_NotInverted(j) ==
    LET options == [i \in DOMAIN Or(j, "options", <<>>) |-> UnmarshalOption(j.options[i])] IN
    IF HasNone(options) THEN NoOption
    ELSE [type |-> Or(j, "type", "chat"), options |-> options,
          noDM |-> ~Or(j, "dm_permission", FALSE), noDefault |-> Or(j, "default_permission", FALSE)]
UnmarshalCommand(j) ==
    LET options == [i \in DOMAIN Or(j, "options", <<>>) |-> UnmarshalOption(j.options[i])] IN
    IF HasNone(options) THEN NoOption
    ELSE [type |-> Or(j, "type", "chat"), options |-> options,
          noDM |-> ~Or(j, "dm_permission", FALSE), noDefault |-> ~Or(j, "default_permission", FALSE)]

-----------------------------------------------------------------------------
(* Options by name, without regard to case; the first one wins.              *)
FindOption(options, name) ==
    LET found == SelectSeq(options, LAMBDA o : Folded[o.name] = Folded[name]) IN
    IF found = <<>> THEN NoOption ELSE Head(found)
Focused(options) ==
    LET found == SelectSeq(options, LAMBDA o : Or(o, "focused", FALSE)) IN
    IF found = <<>> THEN NoOption ELSE Head(found)

(* The option types a Go kind takes.  Four named types are known, and others *)
(* go by their kind: an AttachmentID is an unsigned integer.                 *)
SnowflakeTypes == [ChannelID |-> "channel", UserID |-> "user", RoleID |-> "role", Snowflake |-> "mentionable"]
optionKindSwitch(kind, type) ==
    CASE kind \in {"int", "uint", "AttachmentID"} -> IF type \in {"integer", "number"} THEN type ELSE "integer"
      [] kind = "float" -> "number"
      [] kind = "string" -> "string"
      [] kind = "bool" -> "boolean"
      [] OTHER -> type
(* What encoding/json puts into a Go value of the kind.                      *)
UnmarshalTo(kind, v) ==
    CASE kind \in DOMAIN SnowflakeTypes -> IF v.is \in {"id", "natural"} THEN v ELSE NoOption
      [] kind = "int" -> IF v.is \in {"natural", "negative"} THEN v ELSE NoOption
      [] kind \in {"uint", "AttachmentID"} -> IF v.is = "natural" THEN v ELSE NoOption
      [] kind = "float" -> IF v.is \in {"natural", "negative", "fraction"} THEN v ELSE NoOption
      [] kind = "string" -> IF v.is \in {"id", "text"} THEN v ELSE NoOption
      [] kind = "bool" -> IF v.is = "bool" THEN v ELSE NoOption

(* The fields in their order, up to the first error.                         *)
Upto(results) ==
    [i \in DOMAIN results |-> IF \E k \in 1..(i - 1) : results[k].is = "error" THEN [is |-> "kept"] ELSE results[i]]
RECURSIVE unmarshalOptions(_, _)
UnmarshalOptionField(options, f) ==
    LET o == FindOption(options, f.name) kind == IF f.mark = "?*" THEN "pointer" ELSE f.kind IN
    IF f.mark = "-" THEN [is |-> "kept"]
    ELSE IF o = NoOption
    THEN CASE f.mark \in {"?", "?*"} -> [is |-> "kept"] [] f.mark = "*" -> [is |-> "nil"] [] OTHER -> [is |-> "error"]
    ELSE IF kind \in DOMAIN SnowflakeTypes /\ o.type # SnowflakeTypes[kind] THEN [is |-> "error"]
    ELSE IF kind \notin DOMAIN SnowflakeTypes /\ o.type # optionKindSwitch(kind, o.type) THEN [is |-> "error"]
    ELSE IF kind = "struct"
    THEN LET inner == unmarshalOptions(Or(o, "options", <<>>), f.fields) IN
         [is |-> IF \E i \in DOMAIN inner : inner[i].is = "error" THEN "error" ELSE "struct", fields |-> inner]
    ELSE IF kind \in {"pointer", "other"} THEN [is |-> "error"]
    ELSE LET v == UnmarshalTo(kind, o.value) IN
         IF v = NoOption THEN [is |-> "error"] ELSE [is |-> "set", v |-> v]
unmarshalOptions(options, fields) == Upto([i \in DOMAIN fields |-> UnmarshalOptionField(options, fields[i])])

-----------------------------------------------------------------------------
CommandOptionsInit ==
    /\ kept = NoOption /\ original = NoOption /\ fetched = NoOption /\ asked = NoOption
    /\ path = <<>> /\ receiver = NoOption /\ rounds = 0

(* Discord fills in the type and both flags, but knows no DM permission of a *)
(* guild's command.                                                          *)
Accepted(json, guild) ==
    LET full == [type |-> Or(json, "type", "chat"), options |-> Or(json, "options", <<>>),
                 dm_permission |-> json.dm_permission, default_permission |-> json.default_permission] IN
    [k \in (IF guild THEN DOMAIN full \ {"dm_permission"} ELSE DOMAIN full) |-> full[k]]
Register(c, guild) ==
    /\ kept = NoOption /\ kept' = Accepted(MarshalCommand(c), guild) /\ original' = kept'
    /\ UNCHANGED <<fetched, asked, path, receiver, rounds>>
RegisteredBefore(json) ==
    /\ kept = NoOption /\ kept' = json /\ original' = json
    /\ UNCHANGED <<fetched, asked, path, receiver, rounds>>
FetchCommand ==
    /\ kept # NoOption /\ fetched' = UnmarshalCommand(kept)
    /\ UNCHANGED <<kept, original, asked, path, receiver, rounds>>
RegisterAgain ==
    /\ fetched # NoOption /\ rounds < 2
    /\ kept' = Accepted(MarshalCommand(fetched), "dm_permission" \notin DOMAIN kept)
    /\ rounds' = rounds + 1
    /\ UNCHANGED <<original, fetched, asked, path, receiver>>

(* A user calls the command, or one of its subcommands, and gives some of    *)
(* its options; what they are about to give while typing has the focus.      *)
Leaves(options) ==
    LET subs(p, os) == {[names |-> Append(p, os[i].name), options |-> os[i].options] : i \in {i \in DOMAIN os : os[i].type = "sub"}} IN
    IF \E i \in DOMAIN options : options[i].type \in {"sub", "group"}
    THEN subs(<<>>, options) \cup UNION {subs(<<options[i].name>>, options[i].options) :
                                            i \in {i \in DOMAIN options : options[i].type = "group"}}
    ELSE {[names |-> <<>>, options |-> options]}
Nest(names, options) ==
    CASE names = <<>> -> options
      [] Len(names) = 1 -> <<[type |-> "sub", name |-> names[1], options |-> options]>>
      [] OTHER -> <<[type |-> "group", name |-> names[1],
                     options |-> <<[type |-> "sub", name |-> names[2], options |-> options]>>]>>
Values(options) ==
    LET may(o) == IF o.type \in DOMAIN Given
                  THEN {<<[type |-> o.type, name |-> o.name, value |-> v]>> : v \in Given[o.type]} \cup
                       (IF Or(o, "required", FALSE) THEN {} ELSE {<<>>})
                  ELSE {<<>>} IN
    {FlattenSeq(p) : p \in {p \in [DOMAIN options -> UNION {may(options[i]) : i \in DOMAIN options}] :
                               \A i \in DOMAIN options : p[i] \in may(options[i])}}
CallCommand ==
    /\ kept # NoOption /\ asked = NoOption /\ rounds = 0
    /\ \E leaf \in Leaves(kept.options) : \E given \in Values(leaf.options) :
           /\ path' = leaf.names
           /\ \/ asked' = Nest(leaf.names, given)
              \/ \E i \in DOMAIN given :
                     asked' = Nest(leaf.names, [given EXCEPT ![i] = [focused |-> TRUE] @@ given[i]])
    /\ UNCHANGED <<kept, original, fetched, receiver, rounds>>
ReadOptions(fields) ==
    /\ asked # NoOption /\ receiver = NoOption
    /\ receiver' = [of |-> fields, is |-> unmarshalOptions(asked, fields)]
    /\ UNCHANGED <<kept, original, fetched, asked, path, rounds>>

CommandOptionsNext ==
    \/ \E c \in OwnCommands, guild \in BOOLEAN : Register(c, guild)
    \/ \E json \in OtherCommands : RegisteredBefore(json)
    \/ FetchCommand \/ RegisterAgain \/ CallCommand
    \/ \E fields \in Receivers : ReadOptions(fields)
CommandOptionsSpec == CommandOptionsInit /\ [][CommandOptionsNext]_commandVars

-----------------------------------------------------------------------------
(* A command that is fetched and registered again stays what it was, except  *)
(* for the options whose type is new, of which the name and type are left;   *)
(* it can always be fetched.                                                 *)
BareValue(j) == IF j.type \in ValueKinds THEN j ELSE [type |-> j.type, name |-> j.name]
BareSub(j) == [j EXCEPT !.options = [i \in DOMAIN @ |-> BareValue(@[i])]]
BareOption(j) ==
    CASE j.type = "sub" -> BareSub(j)
      [] j.type = "group" -> [j EXCEPT !.options = [i \in DOMAIN @ |-> BareSub(@[i])]]
      [] OTHER -> BareValue(j)
BareCommand(j) == [j EXCEPT !.options = [i \in DOMAIN @ |-> BareOption(@[i])]]
CommandKept ==
    /\ kept # NoOption => BareCommand(kept) = BareCommand(original)
    /\ kept # NoOption => UnmarshalCommand(kept) # NoOption

(* What a struct holds: the value the user gave for the option of that name, *)
(* in the subcommand they chose, and of the type the field asks for; and     *)
(* when no field fails, every field that must be set is.                     *)
Natural == [string |-> "string", integer |-> "int", boolean |-> "bool", user |-> "UserID", channel |-> "ChannelID",
            role |-> "RoleID", mentionable |-> "Snowflake", number |-> "float"]
RECURSIVE Faithful(_, _, _)
Faithful(options, fields, is) == \A i \in DOMAIN fields :
    LET f == fields[i] same == {k \in DOMAIN options : Folded[options[k].name] = Folded[f.name]} IN
    CASE is[i].is = "set" -> \E k \in same : options[k].value = is[i].v
      [] is[i].is = "struct" -> \E k \in same : Faithful(Or(options[k], "options", <<>>), f.fields, is[i].fields)
      [] is[i].is \in {"nil", "kept"} -> \/ f.mark = "-" \/ (same = {} /\ f.mark # "")
                                         \/ \E k \in 1..(i - 1) : is[k].is = "error"
      [] is[i].is = "error" -> \/ (same = {} /\ f.mark = "")
                               \/ (same # {} /\ (f.mark = "?*" \/ f.kind = "struct"))
                               \/ \E k \in same : options[k].type \notin DOMAIN Natural
                               \/ \E k \in same : Natural[options[k].type] # f.kind
OptionsRead == receiver # NoOption => Faithful(asked, receiver.of, receiver.is)

(* While the user types, the option with the focus is found in the           *)
(* subcommand they chose.                                                    *)
Chosen == CASE path = <<>> -> asked
            [] Len(path) = 1 -> FindOption(asked, path[1]).options
            [] OTHER -> FindOption(FindOption(asked, path[1]).options, path[2]).options
FocusFound ==
    asked # NoOption => /\ path # <<>> => Focused(asked) = NoOption
                        /\ Focused(Chosen) # NoOption => Focused(Chosen).focused

(* Commands survive the way to Discord and back, and their options reach the *)
(* program: CommandKept, OptionsRead and FocusFound (discord/command.go and  *)
(* discord/interaction.go).                                                  *)
CommandsRight == CommandKept /\ OptionsRead /\ FocusFound
=============================================================================
