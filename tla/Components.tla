------------------------------ MODULE Components ------------------------------
(* The components of messages and modals (discord/component.go) and the      *)
(* interactions they cause (discord/interaction.go): the program puts rows   *)
(* of components together, they travel to Discord as JSON, come back with    *)
(* every message, and what the user presses or types comes back as an        *)
(* interaction.  A JSON object is a function from its keys to their values;  *)
(* the keys encoding/json copies both ways under one name (label, emoji,     *)
(* placeholder, ...) are left out.                                           *)
EXTENDS Naturals, SequencesExt

CONSTANTS
    Palette,      \* the interactive components the program puts into rows
    MaxParts,     \* at most so many of them at once
    OtherPosts,   \* the component JSON of messages other programs sent
    Texts,        \* what users type
    Reads,        \* number kinds -> the texts strconv parses for them
    FormStructs,  \* the structs the program unmarshals components into
    NoStyle,      \* the nil ButtonComponentStyle
    Bad           \* an error, and the nil Component

VARIABLES
    built,    \* the rows put together: ContainerComponents
    message,  \* the JSON of the components Discord shows
    first,    \* that JSON when it was sent first
    shown,    \* what the program decoded it to, or Bad
    typed,    \* what the user typed into the modal: custom id -> text
    interaction,  \* JSON of the InteractionEvent on its way
    got,      \* what it was decoded to
    form      \* the struct filled from the modal: what each field got
componentVars == <<built, message, first, shown, typed, interaction, got, form>>

Pickers == {"user", "role", "mentionable", "channel"}  \* the selects but the string select
LinkStyle == 5
OmitEmpty(json, zero) ==
    [k \in {k \in DOMAIN json : k \in DOMAIN zero => json[k] # zero[k]} |-> json[k]]
Key(json, k, zero) == IF k \in DOMAIN json THEN json[k] ELSE zero

-----------------------------------------------------------------------------
(* Encoding.  A button without a style becomes a primary one, the caller's   *)
(* component with it.                                                        *)
Styled(b) == IF b.style = NoStyle THEN [b EXCEPT !.style = 1] ELSE b
MarshalButton(b) ==
    OmitEmpty([type |-> "button", custom_id |-> b.id, style |-> Styled(b).style, url |-> b.url],
              [custom_id |-> "", url |-> ""])
MarshalString(s) ==
    OmitEmpty([type |-> "string", custom_id |-> s.id, options |-> s.options, limits |-> s.limits],
              [custom_id |-> "", limits |-> <<0, 0>>])
MarshalText(t) ==
    OmitEmpty([type |-> "text", custom_id |-> t.id, value |-> t.value, limits |-> t.limits],
              [value |-> "", limits |-> <<0, 0>>])
DefaultValue(what, id) == IF id = "" THEN <<>> ELSE <<[id |-> id, type |-> what]>>
DefaultValues(s) ==
    IF s.kind = "mentionable"
    THEN FlattenSeq([i \in DOMAIN s.defaults |->
             DefaultValue("user", s.defaults[i].userId) \o DefaultValue("role", s.defaults[i].roleId)])
    ELSE [i \in DOMAIN s.defaults |-> [id |-> s.defaults[i], type |-> s.kind]]
MarshalPicker(s) ==
    OmitEmpty([type |-> s.kind, custom_id |-> s.id, limits |-> s.limits, default_values |-> DefaultValues(s)],
              [custom_id |-> "", limits |-> <<0, 0>>, default_values |-> <<>>])
MarshalChannel(s) ==
    OmitEmpty([channel_types |-> s.types] @@ MarshalPicker(s), [channel_types |-> <<>>])
Marshal(c) ==
    CASE c.kind = "button" -> MarshalButton(c)
      [] c.kind = "string" -> MarshalString(c)
      [] c.kind = "text" -> MarshalText(c)
      [] c.kind = "channel" -> MarshalChannel(c)
      [] c.kind = "unknown" -> c.raw
      [] OTHER -> MarshalPicker(c)
MarshalRow(row) == [type |-> "row", components |-> [i \in DOMAIN row |-> Marshal(row[i])]]
MarshalAll(rows) == [i \in DOMAIN rows |-> MarshalRow(rows[i])]

(* Components wraps what is not in a row of its own.                         *)
Wrap(parts) == [i \in DOMAIN parts |-> IF parts[i].kind = "row" THEN parts[i].of ELSE <<parts[i]>>]

-----------------------------------------------------------------------------
(* Decoding.  Only four types are known; the limits are never read back.     *)
UnmarshalButton_ForgetsURL(j) ==
    IF Key(j, "style", 0) > LinkStyle THEN Bad
    ELSE [kind |-> "button", id |-> Key(j, "custom_id", ""), style |-> j.style, url |-> ""]
UnmarshalButton(j) ==
    LET style == Key(j, "style", 0) IN
    IF style > LinkStyle THEN Bad
    ELSE [kind |-> "button", id |-> Key(j, "custom_id", ""), style |-> style,
          url |-> IF style = LinkStyle THEN Key(j, "url", "") ELSE ""]
UnknownComponent(j) == [kind |-> "unknown", id |-> "", raw |-> j]
ParseComponent(j) ==
    CASE j.type = "button" -> UnmarshalButton(j)
      [] j.type = "string" -> [kind |-> "string", id |-> Key(j, "custom_id", ""),
                               options |-> Key(j, "options", <<>>), limits |-> <<0, 0>>]
      [] j.type = "text" -> [kind |-> "text", id |-> Key(j, "custom_id", ""),
                             value |-> Key(j, "value", ""), limits |-> <<0, 0>>]
      [] j.type = "row" -> Bad  \* expected interactive
      [] OTHER -> UnknownComponent(j)
UnmarshalRow(j) ==
    LET row == [i \in DOMAIN j.components |-> ParseComponent(j.components[i])] IN
    IF \E i \in DOMAIN row : row[i] = Bad THEN Bad ELSE row
UnmarshalAll(json) ==
    LET rows == [i \in DOMAIN json |-> IF json[i].type = "row" THEN UnmarshalRow(json[i]) ELSE Bad] IN
    IF \E i \in DOMAIN rows : rows[i] = Bad THEN Bad ELSE rows

FindComponent(rows, id) ==
    LET found == SelectSeq(FlattenSeq(rows), LAMBDA c : c.id = id) IN
    IF found = <<>> THEN Bad ELSE Head(found)

(* A field of the struct: "?" leaves a missing component's field alone, a    *)
(* pointer becomes nil, and any other is an error, which ends the work.      *)
TextOf(c) ==
    CASE c.kind = "text" -> c.value
      [] c.kind = "string" -> IF c.options = <<>> THEN "" ELSE IF Len(c.options) = 1 THEN c.options[1] ELSE Bad
      [] OTHER -> Bad
ReadComponent(c, kind) ==
    CASE kind = "bool" -> "true"
      [] kind = "string" -> TextOf(c)
      [] kind \in DOMAIN Reads -> IF TextOf(c) \in Reads[kind] THEN TextOf(c) ELSE Bad
      [] kind = "strings" -> IF c.kind = "string" THEN c.options ELSE Bad
      [] OTHER -> Bad
ReadField(rows, f) ==
    LET c == FindComponent(rows, f.name) IN
    IF f.mark = "-" THEN "kept"
    ELSE IF c # Bad THEN ReadComponent(c, IF f.mark = "?*" THEN "pointer" ELSE f.kind)
    ELSE CASE f.mark \in {"?", "?*"} -> "kept" [] f.mark = "*" -> "nil" [] OTHER -> Bad
UnmarshalForm(rows, fields) ==
    LET all == [i \in DOMAIN fields |-> ReadField(rows, fields[i])] IN
    [i \in DOMAIN all |-> IF \E k \in 1..(i - 1) : all[k] = Bad THEN "kept" ELSE all[i]]

-----------------------------------------------------------------------------
(* Interactions.                                                             *)
Pressed(kind, id, values) == [kind |-> kind, id |-> id, values |-> values]
ParseComponentInteraction(j) ==
    LET type == Key(j, "component_type", "none") IN
    IF type \in Pickers \cup {"button", "string"} THEN Pressed(type, j.custom_id, Key(j, "values", <<>>))
    ELSE [kind |-> "unknown", id |-> j.custom_id, raw |-> j]
UnmarshalEvent(e) ==
    CASE e.type = "ping" -> [kind |-> "ping"]
      [] e.type = "component" -> ParseComponentInteraction(e.data)
      [] e.type = "modal" -> LET rows == UnmarshalAll(e.data.components) IN
                             IF rows = Bad THEN Bad
                             ELSE [kind |-> "modal", id |-> e.data.custom_id, rows |-> rows]
      [] OTHER -> [kind |-> "raw", type |-> e.type, raw |-> e.data]
MarshalEvent(d) ==
    CASE d.kind = "ping" -> [type |-> "ping", data |-> <<>>]
      [] d.kind = "modal" -> [type |-> "modal", data |-> [custom_id |-> d.id, components |-> MarshalAll(d.rows)]]
      [] d.kind = "raw" -> [type |-> d.type, data |-> d.raw]
      [] d.kind = "unknown" -> [type |-> "component", data |-> d.raw]
      [] d.kind = "button" -> [type |-> "component", data |-> [custom_id |-> d.id]]
      [] OTHER -> [type |-> "component", data |-> [custom_id |-> d.id, values |-> d.values]]

-----------------------------------------------------------------------------
NoEvent == [type |-> "none"]
ComponentsInit ==
    /\ built = <<>> /\ message = <<>> /\ first = <<>> /\ shown = <<>>
    /\ typed = <<>> /\ interaction = NoEvent /\ got = Bad /\ form = <<>>

(* The program calls Components with components of its own, each alone or   *)
(* in a row with others, and sends the outcome.                              *)
Ids(rows) == SelectSeq([i \in DOMAIN FlattenSeq(rows) |-> FlattenSeq(rows)[i].id], LAMBDA id : id # "")
IsModal(rows) == rows # <<>> /\ \A i \in DOMAIN FlattenSeq(rows) : FlattenSeq(rows)[i].kind = "text"
NewRow(c) ==
    /\ message = <<>> /\ Len(FlattenSeq(built)) < MaxParts
    /\ \E part \in {c, [kind |-> "row", of |-> <<c>>]} : built' = built \o Wrap(<<part>>)
    /\ UNCHANGED <<message, first, shown, typed, interaction, got, form>>
IntoRow(c) ==
    /\ message = <<>> /\ built # <<>> /\ Len(FlattenSeq(built)) < MaxParts
    /\ built' = [built EXCEPT ![Len(built)] = Append(@, c)]
    /\ UNCHANGED <<message, first, shown, typed, interaction, got, form>>
SendComponents ==
    /\ built # <<>> /\ message = <<>> /\ IsInjective(Ids(built))
    /\ message' = MarshalAll(built) /\ first' = message'
    /\ built' = [i \in DOMAIN built |->
                   [k \in DOMAIN built[i] |-> IF built[i][k].kind = "button" THEN Styled(built[i][k]) ELSE built[i][k]]]
    /\ UNCHANGED <<shown, typed, interaction, got, form>>
OtherPost(json) ==
    /\ built = <<>> /\ message = <<>> /\ message' = json /\ first' = json
    /\ UNCHANGED <<built, shown, typed, interaction, got, form>>

(* A message arrives; the program edits it with what it decoded.             *)
MessageArrives ==
    /\ message # <<>> /\ shown' = UnmarshalAll(message)
    /\ UNCHANGED <<built, message, first, typed, interaction, got, form>>
Resend ==
    /\ shown \notin {<<>>, Bad} /\ message' = MarshalAll(shown)
    /\ UNCHANGED <<built, first, shown, typed, interaction, got, form>>

(* The user presses a button, chooses from a select or submits the modal.    *)
Press(j) ==
    /\ interaction = NoEvent /\ got = Bad /\ form = <<>> /\ "custom_id" \in DOMAIN j
    /\ interaction' \in {[type |-> "component",
                          data |-> IF j.type = "button" THEN [component_type |-> j.type, custom_id |-> j.custom_id]
                                   ELSE [component_type |-> j.type, custom_id |-> j.custom_id, values |-> v]]
                          : v \in {<<>>, <<"1">>}}
    /\ UNCHANGED <<built, message, first, shown, typed, got, form>>
Submit(texts) ==
    /\ interaction = NoEvent /\ got = Bad /\ form = <<>>
    /\ typed' = texts
    /\ interaction' = [type |-> "modal", data |-> [custom_id |-> "modal", components |->
           [i \in DOMAIN message |-> [type |-> "row", components |->
               [k \in DOMAIN message[i].components |->
                   LET id == message[i].components[k].custom_id IN
                   [type |-> "text", custom_id |-> id, value |-> texts[id]]]]]]]
    /\ UNCHANGED <<built, message, first, shown, got, form>>
OtherEvent ==
    /\ interaction = NoEvent /\ got = Bad /\ message = <<>>
    /\ interaction' \in {[type |-> "ping", data |-> <<>>], [type |-> "new", data |-> <<"x">>],
                   [type |-> "component", data |-> [component_type |-> "new", custom_id |-> "a"]]}
    /\ UNCHANGED <<built, message, first, shown, typed, got, form>>

(* The interaction arrives; the program may pass it on as JSON once more.    *)
EventArrives ==
    /\ interaction # NoEvent /\ got' = UnmarshalEvent(interaction) /\ interaction' = NoEvent
    /\ UNCHANGED <<built, message, first, shown, typed, form>>
PassOn ==
    /\ got # Bad /\ interaction = NoEvent /\ form = <<>> /\ interaction' = MarshalEvent(got)
    /\ UNCHANGED <<built, message, first, shown, typed, got, form>>
ReadRows(rows, fields) ==
    /\ form = <<>> /\ form' = [rows |-> rows, of |-> fields, is |-> UnmarshalForm(rows, fields)]
    /\ UNCHANGED <<built, message, first, shown, typed, interaction, got>>

Displayed == UNION {{message[i].components[k] : k \in DOMAIN message[i].components} :
                   i \in {i \in DOMAIN message : message[i].type = "row"}}
ComponentsNext ==
    \/ \E c \in Palette : NewRow(c) \/ IntoRow(c)
    \/ SendComponents \/ (\E json \in OtherPosts : OtherPost(json))
    \/ MessageArrives \/ Resend
    \/ \E j \in Displayed : j.type # "text" /\ Press(j)
    \/ IsModal(built) /\ message # <<>> /\ (\E texts \in [{j.custom_id : j \in Displayed} -> Texts] : Submit(texts))
    \/ OtherEvent \/ EventArrives \/ PassOn
    \/ \E fields \in FormStructs :
          \/ got # Bad /\ got.kind = "modal" /\ interaction = NoEvent /\ ReadRows(got.rows, fields)
          \/ shown \notin {<<>>, Bad} /\ got = Bad /\ interaction = NoEvent /\ ReadRows(shown, fields)
ComponentsSpec == ComponentsInit /\ [][ComponentsNext]_componentVars

-----------------------------------------------------------------------------
(* Decoding a message and sending it again, however often, changes nothing   *)
(* but the limits, which are lost.                                           *)
Bare(j) == IF j.type \in {"string", "text"} THEN [k \in DOMAIN j \ {"limits"} |-> j[k]] ELSE j
BareRow(j) == IF j.type = "row" THEN [j EXCEPT !.components = [i \in DOMAIN @ |-> Bare(@[i])]] ELSE j
ResendKeeps == [i \in DOMAIN message |-> BareRow(message[i])] = [i \in DOMAIN first |-> BareRow(first[i])]

(* What the program sent it can always decode; a message of another program  *)
(* fails as a whole for one button or container that is new.                 *)
Decodes ==
    shown = Bad => /\ built = <<>>
                   /\ \/ \E i \in DOMAIN message : message[i].type # "row"
                      \/ \E j \in Displayed : j.type = "button" /\ j.style > LinkStyle

(* A press leads to the component that was pressed, unless it is a picker,   *)
(* which no message gives back as a component.                               *)
PressLeads ==
    got # Bad /\ got.kind \in {"button", "string"} /\ shown \notin {<<>>, Bad} =>
        LET c == FindComponent(shown, got.id) IN c # Bad /\ c.kind = got.kind

(* The struct holds what the user typed: a field has the text of the input   *)
(* of its name, and only a missing input or a text that is no number keeps   *)
(* it and the fields after it from being set.                                *)
Fits(f) ==
    IF f.name \notin DOMAIN typed THEN f.mark # ""
    ELSE \/ f.mark = "-"
         \/ /\ f.mark # "?*" /\ f.kind \in {"bool", "string"} \cup DOMAIN Reads
            /\ f.kind \in DOMAIN Reads => typed[f.name] \in Reads[f.kind]
FormRight ==
    form # <<>> /\ got # Bad => \A i \in DOMAIN form.of :
        LET f == form.of[i] fine == \A k \in 1..i : Fits(form.of[k]) IN
        IF ~fine THEN form.is[i] \in {Bad, "kept"}
        ELSE IF f.mark = "-" \/ f.name \notin DOMAIN typed THEN form.is[i] \in {"kept", "nil"}
        ELSE form.is[i] = IF f.kind = "bool" THEN "true" ELSE typed[f.name]

(* Components survive the way to Discord and back, and lead to what the user *)
(* did: ResendKeeps, Decodes, PressLeads and FormRight                       *)
(* (discord/component.go and discord/interaction.go).                        *)
ComponentsRight == ResendKeeps /\ Decodes /\ PressLeads /\ FormRight
=============================================================================
