----------------------------- MODULE BotContext -----------------------------
(***************************************************************************)
(* utils/bot: how the methods of command structs and their middlewares are  *)
(* registered in a Context, which of them an event calls, and which command *)
(* a message runs, with which arguments.                                    *)
(*                                                                          *)
(* A message is a sequence of words.  No name in use begins another one.    *)
(***************************************************************************)
EXTENDS Integers, Sequences, FiniteSets, SequencesExt

CONSTANTS
    Structs,       \* command struct |-> the signatures of its methods, in order
    Main,          \* the struct of the Context itself
    Middlewares,   \* middlewares: [id, event]
    CommandNames,  \* names sub-commands are registered with, and aliases
    Contents,      \* messages after the prefix: sequences of words
    Numbers,       \* the words that are numbers
    EditableCommands, ReplyError, SilentUnknown,  \* options of the Context
    MaxAdded, MaxEvents  \* bounds

Signatures == [name : STRING \ {""}, event : STRING, args : Seq(STRING), returns : Nat]

(* Go's methods have distinct names; only the Context has the empty one.    *)
ASSUME BotAssumption ==
    /\ Main \in DOMAIN Structs /\ "" \notin CommandNames /\ Contents \subseteq Seq(STRING)
    /\ \A st \in DOMAIN Structs :
           /\ Structs[st] \in Seq(Signatures)
           /\ \A i, j \in DOMAIN Structs[st] : Structs[st][i].name = Structs[st][j].name => i = j

(* "any" is the type of handlers that take an interface.                    *)
EventTypes == {"create", "update", "typing"}

VARIABLES
    subs,       \* the Subcommands; the first is the Context's own
    typeCache,  \* event type |-> the callers of each Subcommand
    run,        \* the event being handled
    late        \* history: the types that typeCache had when something was registered
botVars == <<subs, typeCache, run, late>>

-----------------------------------------------------------------------------
(* Methods.  The last of a signature's args may be "ints" (variadic), "raw" *)
(* (CustomParser) or "manual".                                              *)

Rests == {"ints", "raw", "manual"}

(* newArgument.                                                             *)
newArgument(kind, word) == kind \in {"int", "ints"} => word \in Numbers

(* parseMethod: what is no handler is skipped, and arguments after one that *)
(* takes everything are dropped.                                            *)
IsMethod(sig) ==
    /\ sig.event # "" /\ sig.returns <= 2
    /\ sig.args # <<>> => sig.event = "create"
Kept(args) ==
    LET whole == {k \in DOMAIN args : args[k] \in {"raw", "manual"}} IN
    {k \in DOMAIN args : \A w \in whole : k <= w}
parseMethod(sig) ==
    [name |-> sig.name, event |-> sig.event,
     args |-> SubSeq(sig.args, 1, Cardinality(Kept(sig.args))), middlewares |-> <<>>,
     names |-> <<sig.name>>]

(* parseCommands: a loop that appends each method to the commands or to the *)
(* events.                                                                  *)
IsCommand(sig) == IsMethod(sig) /\ sig.event = "create"
IsHandler(sig) == IsMethod(sig) /\ sig.event # "create"
parseCommands(st, places) ==
    FlattenSeq([k \in DOMAIN Structs[st] |->
        IF k \in places THEN <<parseMethod(Structs[st][k])>> ELSE <<>>])
NewSubcommand(st, command, aliases) ==
    [command |-> command, aliases |-> aliases, hidden |-> FALSE, plumbed |-> "",
     globalmws |-> <<>>,
     Commands |-> parseCommands(st, {k \in DOMAIN Structs[st] : IsCommand(Structs[st][k])}),
     Events |-> parseCommands(st, {k \in DOMAIN Structs[st] : IsHandler(Structs[st][k])})]

isEvent(c, t) == c.event = "any" \/ c.event = t

Idle == [at |-> "idle", type |-> "", words |-> <<>>, unclosed |-> FALSE, todo |-> <<>>,
         own |-> <<>>, failed |-> FALSE, called |-> <<>>, sub |-> 0, method |-> "", parts |-> <<>>,
         plumbed |-> FALSE, argv |-> <<>>, result |-> "", index |-> -1, no |-> 0]
BotInit ==
    /\ subs = <<NewSubcommand(Main, "", <<>>)>>
    /\ typeCache = [t \in {} |-> <<>>]
    /\ run = Idle
    /\ late = {}

-----------------------------------------------------------------------------
(* Registration.                                                            *)

Added ==
    Len(subs) - 1 + FoldSeq(LAMBDA s, n : n + Len(s.globalmws) + Len(s.aliases)
        + (IF s.plumbed # "" THEN 1 ELSE 0) + (IF s.hidden THEN 1 ELSE 0)
        + FoldSeq(LAMBDA m, k : k + Len(m.middlewares) + Len(m.names) - 1, 0,
                  s.Commands \o s.Events), 0, subs)
Registering ==
    /\ run.at = "idle" /\ Added < MaxAdded
    /\ late' = late \cup DOMAIN typeCache
    /\ UNCHANGED <<typeCache, run>>

NamesOf(s) == {s.command} \cup ToSet(s.aliases)

(* An error for a name that another Subcommand has; the Context's own       *)
(* commands are not looked at.                                              *)
RegisterSubcommand(st, name) ==
    /\ Registering
    /\ \A k \in 2..Len(subs) : name \notin NamesOf(subs[k])
    /\ subs' = Append(subs, NewSubcommand(st, name, <<>>))

(* AddMiddleware with a star, and with the name of a method: it is skipped  *)
(* where the method's event is not its own.                                 *)
AddGlobal(k, mw) ==
    /\ Registering
    /\ subs' = [subs EXCEPT ![k].globalmws = Append(@, mw)]
findMethod(methods, name) == {k \in DOMAIN methods : methods[k].name = name}
addMiddleware(methods, name, mw) ==
    [k \in DOMAIN methods |->
        IF methods[k].name = name /\ isEvent(mw, methods[k].event)
        THEN [methods[k] EXCEPT !.middlewares = Append(@, mw)] ELSE methods[k]]
AddMiddleware(k, name, mw) ==
    /\ Registering
    /\ findMethod(subs[k].Commands, name) \cup findMethod(subs[k].Events, name) # {}
    /\ subs' = [subs EXCEPT ![k].Commands = addMiddleware(@, name, mw),
                            ![k].Events = addMiddleware(@, name, mw)]

SetPlumb(k, name) ==
    /\ Registering
    /\ k > 1  \* it panics for the Context itself
    /\ findMethod(subs[k].Commands, name) # {}
    /\ subs' = [subs EXCEPT ![k].plumbed = name]

addAlias(methods, name, alias) ==
    [k \in DOMAIN methods |->
        IF methods[k].name = name THEN [methods[k] EXCEPT !.names = Append(@, alias)] ELSE methods[k]]
AddAliases(k, name, alias) ==
    /\ Registering
    /\ findMethod(subs[k].Commands, name) # {}
    /\ subs' = [subs EXCEPT ![k].Commands = addAlias(@, name, alias)]

HideSubcommand(k) ==
    /\ Registering
    /\ k > 1 /\ subs' = [subs EXCEPT ![k].hidden = TRUE]

-----------------------------------------------------------------------------
(* An event.                                                                *)

Call(k, what, c) == [sub |-> k, what |-> what, id |-> IF what = "mw" THEN c.id ELSE c.name]

(* Two loops that append.                                                   *)
globalCallers(k, t) ==
    FlattenSeq([i \in DOMAIN subs[k].globalmws |->
        LET mw == subs[k].globalmws[i] IN IF isEvent(mw, t) THEN <<Call(k, "mw", mw)>> ELSE <<>>])
handlerCallers(k, t) ==
    FlattenSeq([h \in DOMAIN subs[k].Events |->
        LET m == subs[k].Events[h] IN
        IF isEvent(m, t)
        THEN Append([i \in DOMAIN m.middlewares |-> Call(k, "mw", m.middlewares[i])], Call(k, "method", m))
        ELSE <<>>])

eventCallers_HandlersFirst(k, t) == handlerCallers(k, t) \o globalCallers(k, t)

(* The middlewares for all, then each handler after its own.                *)
eventCallers(k, t) == globalCallers(k, t) \o handlerCallers(k, t)
filterEventType(t) == [k \in DOMAIN subs |-> eventCallers(k, t)]

(* callCmd: the callers come from the cache, which is filled for good.      *)
callCmd(t) ==
    /\ run.at = "idle" /\ run.no < MaxEvents
    /\ LET callers == IF t \in DOMAIN typeCache THEN typeCache[t] ELSE filterEventType(t) IN
       /\ typeCache' = [x \in DOMAIN typeCache \cup {t} |->
                           IF x = t THEN callers ELSE typeCache[x]]
       /\ run' = [Idle EXCEPT !.at = "call", !.type = t, !.todo = callers,
                      !.no = run.no + 1]
    /\ UNCHANGED <<subs, late>>

Outcomes == {"ok", "break", "err"}
Out(c, out) == [sub |-> c.sub, what |-> c.what, id |-> c.id, out |-> out]

(* One caller.  An error or a Break leaves out the rest of its Subcommand.  *)
Uncalled == {k \in DOMAIN run.todo : run.todo[k] # <<>>}
First(S) == CHOOSE x \in S : \A y \in S : x <= y
CallNext ==
    /\ run.at = "call" /\ Uncalled # {}
    /\ LET k == First(Uncalled) IN
       \E out \in Outcomes :
           run' = [run EXCEPT !.called = Append(@, Out(Head(run.todo[k]), out)),
                      !.failed = @ \/ out = "err",
                      !.todo[k] = IF out = "ok" THEN Tail(@) ELSE <<>>]
    /\ UNCHANGED <<subs, typeCache, late>>

Ends(result) == run' = [run EXCEPT !.at = "done", !.result = result]
Fails == Ends(IF ReplyError THEN "replied" ELSE "logged")

(* The rest of callCmd: only messages, and the edits of messages that are   *)
(* cached, go on, and nothing does after an error.                          *)
NoMessage ==
    /\ run.at = "call" /\ Uncalled = {}
    /\ \/ run.failed /\ Ends("logged")
       \/ ~run.failed /\ run.type \notin {"create", "update"} /\ Ends("")
       \/ ~run.failed /\ run.type = "update" /\ Ends("")
    /\ UNCHANGED <<subs, typeCache, late>>

(* findCommand.                                                             *)
Named(s, word) == {c \in DOMAIN s.Commands : word \in ToSet(s.Commands[c].names)}
Found(k, name, parts, plumbed) == [sub |-> k, method |-> name, parts |-> parts, plumbed |-> plumbed]

findCommand_PlumbFirst(parts) ==
    LET hits == {k \in 2..Len(subs) : parts[1] \in NamesOf(subs[k])}
        k == First(hits) IN
    IF Named(subs[1], parts[1]) # {}
    THEN {Found(1, subs[1].Commands[First(Named(subs[1], parts[1]))].name, Tail(parts), FALSE)}
    ELSE IF hits = {} THEN {}
    ELSE IF subs[k].plumbed # "" THEN {Found(k, subs[k].plumbed, Tail(parts), TRUE)}
    ELSE IF Len(parts) >= 2 /\ Named(subs[k], parts[2]) # {}
    THEN {Found(k, subs[k].Commands[First(Named(subs[k], parts[2]))].name,
                SubSeq(parts, 3, Len(parts)), FALSE)}
    ELSE {}

findCommand(parts) ==
    LET hits == {k \in 2..Len(subs) : parts[1] \in NamesOf(subs[k])}
        k == First(hits) IN
    IF Named(subs[1], parts[1]) # {}
    THEN {Found(1, subs[1].Commands[First(Named(subs[1], parts[1]))].name, Tail(parts), FALSE)}
    ELSE IF hits = {} THEN {}
    ELSE IF Len(parts) >= 2 /\ Named(subs[k], parts[2]) # {}
    THEN {Found(k, subs[k].Commands[First(Named(subs[k], parts[2]))].name,
                SubSeq(parts, 3, Len(parts)), FALSE)}
    ELSE IF subs[k].plumbed # "" THEN {Found(k, subs[k].plumbed, Tail(parts), TRUE)}
    ELSE {}

Silent(parts) ==
    LET hits == {k \in 2..Len(subs) : parts[1] \in NamesOf(subs[k])} IN
    SilentUnknown \/ (hits # {} /\ subs[First(hits)].hidden)

MethodOf(k, name) ==
    LET c == subs[k].Commands IN c[CHOOSE i \in DOMAIN c : c[i].name = name]
Method == MethodOf(run.sub, run.method)

(* callMessageCreateNoReply, as far as the command's own middlewares: those *)
(* for all of its Subcommand were among the callers of a new message, but   *)
(* not of an edited one.  The message is looked at here for the first time; *)
(* it has no words if it is a bot's or lacks the prefix, too.  unclosed: a  *)
(* quote in it is, which ParseArgs reports.                                 *)
FindCommand(words, unclosed) ==
    /\ run.at = "call" /\ Uncalled = {} /\ ~run.failed
    /\ run.type = "create" \/ (run.type = "update" /\ EditableCommands)
    /\ LET looked == [run EXCEPT !.words = words, !.unclosed = unclosed] IN
       IF words = <<>> THEN run' = [looked EXCEPT !.at = "done"]
       ELSE IF findCommand(words) = {}
       THEN run' = [looked EXCEPT !.at = "done",
                       !.result = IF Silent(words) THEN "" ELSE IF ReplyError THEN "replied"
                                  ELSE "logged"]
       ELSE \E f \in findCommand(words) :
                LET mws == MethodOf(f.sub, f.method).middlewares IN
                run' = [looked EXCEPT !.at = "walk", !.sub = f.sub, !.method = f.method,
                    !.parts = f.parts, !.plumbed = f.plumbed,
                    !.own = [i \in DOMAIN mws |-> Call(f.sub, "own", [name |-> mws[i].id])]]
    /\ UNCHANGED <<subs, typeCache, late>>

walkMiddlewares ==
    /\ run.at = "walk" /\ run.own # <<>>
    /\ \E out \in Outcomes :
           LET called == Append(run.called, Out(Head(run.own), out)) IN
           run' = CASE out = "ok" -> [run EXCEPT !.called = called, !.own = Tail(@)]
                    [] out = "break" ->
                           [run EXCEPT !.called = called, !.at = "done", !.result = ""]
                    [] out = "err" ->
                           [run EXCEPT !.called = called, !.at = "done",
                               !.result = IF ReplyError THEN "replied" ELSE "logged"]
    /\ UNCHANGED <<subs, typeCache, late>>

-----------------------------------------------------------------------------
(* Arguments.                                                               *)

Variadic(m) == m.args # <<>> /\ Last(m.args) \in Rests
argdelta(m) == Len(run.parts) - Len(m.args) + (IF Variadic(m) /\ Len(run.parts) # Len(m.args) THEN 1 ELSE 0)
BadCount(m) ==
    /\ m.args # <<>>
    /\ argdelta(m) < 0 \/ (argdelta(m) > 0 /\ ~Variadic(m))

(* The parts an argument is made of, and those that are no such argument.   *)
KindOf(m, i) == IF i < Len(m.args) THEN m.args[i] ELSE Last(m.args)
BadParts(m) ==
    IF m.args = <<>> THEN {}
    ELSE {i \in DOMAIN run.parts :
             /\ i < Len(m.args) \/ Last(m.args) \notin {"raw", "manual"}
             /\ ~newArgument(KindOf(m, i), run.parts[i])}

(* InvalidUsageError.Index, which counts from 0: what has been popped is    *)
(* counted twice, in each of the two loops.                                 *)
Index(m, i) ==
    LET popped == i - 1
        before == Len(run.words) - Len(run.parts) IN
    IF i < Len(m.args) THEN before + 2 * popped
    ELSE before + popped + (popped - (Len(m.args) - 1))

(* trimPrefixStringAndSlice: the Context has the empty name, which trims     *)
(* nothing.                                                                 *)
trimPrefix(content, names) ==
    IF content # <<>> /\ Head(content) \in names \ {""} THEN Tail(content) ELSE content
RawContent(m) ==
    LET content == trimPrefix(run.words, NamesOf(subs[run.sub])) IN
    IF run.plumbed THEN content ELSE trimPrefix(content, ToSet(m.names))
Taken(m) ==
    IF m.args = <<>> THEN <<>>
    ELSE IF Last(m.args) = "raw"
         THEN Append(SubSeq(run.parts, 1, Len(m.args) - 1), RawContent(m))
         ELSE run.parts

Refused(m) ==
    \/ BadCount(m) \/ BadParts(m) # {}
    \/ run.unclosed /\ m.args # <<>> /\ Last(m.args) # "raw"
Walked == run.at = "walk" /\ run.own = <<>>
RefuseArguments ==
    /\ Walked /\ Refused(Method)
    /\ run' = [run EXCEPT !.at = "done", !.result = IF ReplyError THEN "replied" ELSE "logged",
                  !.index = IF BadCount(Method) THEN Len(run.words) - 1
                            ELSE IF BadParts(Method) # {}
                                 THEN Index(Method, First(BadParts(Method))) ELSE -1]
    /\ UNCHANGED <<subs, typeCache, late>>

(* A ManualParser may refuse what it is given.                              *)
RefuseManual ==
    /\ Walked /\ ~BadCount(Method) /\ BadParts(Method) = {}
    /\ Method.args # <<>> /\ Last(Method.args) = "manual"
    /\ Fails
    /\ UNCHANGED <<subs, typeCache, late>>

(* The method runs; what it returns is the reply, if it is anything.        *)
RunCommand ==
    /\ Walked /\ ~Refused(Method)
    /\ \E result \in {"", "replied", IF ReplyError THEN "replied" ELSE "logged"} :
           run' = [run EXCEPT !.at = "done", !.result = result, !.argv = Taken(Method),
                      !.called = Append(@, [sub |-> run.sub, what |-> "command",
                                            id |-> run.method, out |-> "ok"])]
    /\ UNCHANGED <<subs, typeCache, late>>

FinishEvent ==
    /\ run.at = "done"
    /\ run' = [Idle EXCEPT !.no = run.no]
    /\ UNCHANGED <<subs, typeCache, late>>

-----------------------------------------------------------------------------
MethodNames(k) == {m.name : m \in ToSet(subs[k].Commands \o subs[k].Events)}

BotNext ==
    \/ \E st \in DOMAIN Structs \ {Main}, name \in CommandNames : RegisterSubcommand(st, name)
    \/ \E k \in DOMAIN subs :
           \/ \E mw \in Middlewares : AddGlobal(k, mw)
           \/ \E mw \in Middlewares, name \in MethodNames(k) : AddMiddleware(k, name, mw)
           \/ \E name \in MethodNames(k) : SetPlumb(k, name)
           \/ \E name \in MethodNames(k), alias \in CommandNames : AddAliases(k, name, alias)
           \/ HideSubcommand(k)
    \/ \E t \in EventTypes : callCmd(t)
    \/ CallNext \/ NoMessage \/ walkMiddlewares
    \/ \E words \in Contents, unclosed \in BOOLEAN : FindCommand(words, unclosed)
    \/ RefuseArguments \/ RefuseManual \/ RunCommand \/ FinishEvent
BotSpec == BotInit /\ [][BotNext]_botVars

-----------------------------------------------------------------------------
CallsOf(k) ==
    {i \in DOMAIN run.called : run.called[i].sub = k /\ run.called[i].what \in {"mw", "method"}}
Failed(calls) == {i \in calls : run.called[i].out # "ok"}

(* What handling an event owes to Subcommand k: nothing is called before a  *)
(* middleware that guards it.                                               *)
Guards(k, m) ==
    {mw.id : mw \in {w \in ToSet(subs[k].globalmws) : isEvent(w, run.type)}}
    \cup {mw.id : mw \in ToSet(m.middlewares)}
Handlers(k) == {m \in ToSet(subs[k].Events) : isEvent(m, run.type)}

(* Each Subcommand has its handlers of an event called, each after the      *)
(* middlewares that guard it and only if none of these failed, up to the    *)
(* first failure in that Subcommand and whatever fails in another: unless   *)
(* something was registered when the callers were cached already.           *)
EachCalled ==
    run.at \in {"walk", "done"} /\ run.type \notin late =>
        \A k \in DOMAIN subs :
            LET fails == Failed(CallsOf(k)) IN
            /\ \A m \in Handlers(k) :
                   LET mine == {i \in CallsOf(k) :
                                   run.called[i].what = "method" /\ run.called[i].id = m.name} IN
                   /\ \A i, j \in mine : i = j
                   /\ fails = {} => mine # {}
                   /\ \A i \in mine, g \in Guards(k, m) :
                          \E j \in CallsOf(k) :
                              j < i /\ run.called[j].what = "mw" /\ run.called[j].id = g
            /\ \A i \in fails, j \in CallsOf(k) : j <= i

(* The commands the words of a message may mean: a name, or the name of a   *)
(* Subcommand and one of its, or that of a plumbed one.                     *)
Meant ==
    IF run.words = <<>> THEN {}
    ELSE {<<1, m.name, 1>> : m \in {c \in ToSet(subs[1].Commands) :
                                        run.words[1] \in ToSet(c.names)}}
         \cup UNION {
             LET given == {c \in ToSet(subs[k].Commands) :
                              Len(run.words) > 1 /\ run.words[2] \in ToSet(c.names)} IN
             IF given # {} THEN {<<k, m.name, 2>> : m \in given}
             ELSE IF subs[k].plumbed # "" THEN {<<k, subs[k].plumbed, 1>>} ELSE {} :
             k \in {s \in 2..Len(subs) : run.words[1] \in NamesOf(subs[s])}}

(* A message runs one command at most, and one it means, once what guards   *)
(* the command has been called and has not failed, with the words after its *)
(* name as its arguments, a raw one getting all of them; and if it means    *)
(* one that takes these arguments and nothing failed, the command runs.  (A *)
(* Break in a middleware for all does not stop a command, and an edit does  *)
(* not call these middlewares.)                                             *)
CommandCalled ==
    run.at = "done" =>
        LET ran == {i \in DOMAIN run.called : run.called[i].what = "command"}
            Rest(n) == SubSeq(run.words, n + 1, Len(run.words)) IN
        /\ \A i, j \in ran : i = j
        /\ ran # {} =>
               LET m == Method
                   n == Len(m.args) IN
               /\ \E meant \in Meant :
                      /\ meant[1] = run.sub /\ meant[2] = run.method
                      /\ n # 0 =>
                             run.argv = IF Last(m.args) = "raw"
                                        THEN Append(SubSeq(Rest(meant[3]), 1, n - 1), Rest(meant[3]))
                                        ELSE Rest(meant[3])
               /\ \A mw \in ToSet(m.middlewares) :
                      \E i \in DOMAIN run.called :
                          /\ run.called[i].what = "own" /\ run.called[i].id = mw.id
                          /\ run.called[i].out = "ok"
               /\ run.type = "create" /\ "create" \notin late =>
                      \A mw \in ToSet(subs[run.sub].globalmws) : isEvent(mw, "create") =>
                          \E i \in CallsOf(run.sub) :
                              LET c == run.called[i] IN
                              \/ c.what = "mw" /\ c.id = mw.id /\ c.out = "ok"
                              \/ c.out = "break"
        /\ ran = {} /\ run.type = "create" /\ ~run.unclosed /\ Failed(DOMAIN run.called) = {} =>
               \/ Meant = {}
               \/ \E meant \in Meant :
                      LET m == MethodOf(meant[1], meant[2])
                          rest == Rest(meant[3]) IN
                      /\ m.args # <<>>
                      /\ \/ Last(m.args) = "manual"
                         \/ \E i \in DOMAIN rest : ~newArgument(KindOf(m, i), rest[i])
                         \/ Len(rest) # Len(m.args)

(* An error about an argument points at it, so that the reply can quote it. *)
PointsAtArgument ==
    run.index >= 0 => run.index < Len(run.words)
=============================================================================
