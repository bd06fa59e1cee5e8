--------------------------- MODULE CommandRouter ---------------------------
(***************************************************************************)
(* cmdroute.Router: how commands are registered in routers, sub-routers and *)
(* groups, and which handler an interaction reaches, through which          *)
(* middlewares.  A router keeps its groups by value in a slice, so a group  *)
(* moves when the slice grows; what still points to its old place (a        *)
(* sub-router's parent) sees the group as it was.  Routers are therefore    *)
(* places in memory, and appending may copy one place to another.           *)
(***************************************************************************)
EXTENDS Integers, Sequences, FiniteSets, SequencesExt

CONSTANTS
    Names,       \* names of commands, sub-routers and components
    MaxDepth,    \* names an interaction has at most: 3 for Discord
    MaxRoutes, MaxUses, MaxPlaces  \* bounds on the registrations

ASSUME RouterAssumption == MaxDepth \in Nat \ {0} /\ {MaxRoutes, MaxUses, MaxPlaces} \subseteq Nat

VARIABLES
    place,   \* place |-> the Router there; 1 is the root
    nodes,   \* map |-> name |-> node
    open,    \* routers whose Sub or Group callback is running, innermost last
    routes,  \* history: what has been registered, and under which scopes
    uses     \* history: scope |-> its middlewares; scopes are the callbacks
routerVars == <<place, nodes, open, routes, uses>>

(* nodes = 0: the map is nil until init makes one.                          *)
Zero(parent) == [nodes |-> 0, mws |-> <<>>, parent |-> parent, groups |-> <<>>, cap |-> 0]
NoNodes == [n \in {} |-> 0]

RouterInit ==
    /\ place = <<[Zero(0) EXCEPT !.nodes = 1]>>
    /\ nodes = <<NoNodes>>
    /\ open = <<[at |-> 1, kind |-> "root", path |-> <<>>, scope |-> 1]>>
    /\ routes = <<>>
    /\ uses = <<<<>>>>

-----------------------------------------------------------------------------
(* Registration.  Everything happens to the router of the innermost         *)
(* callback: a router outside it may have moved meanwhile.                  *)

Here == Last(open).at
Scopes == [i \in DOMAIN open |-> open[i].scope]
Prefix == Last(open).path

(* Router.init, and the map an operation on router r then uses.             *)
MapOf(r) == IF place[r].nodes = 0 THEN Len(nodes) + 1 ELSE place[r].nodes
Inited(r) == [place EXCEPT ![r].nodes = MapOf(r)]
NodesOf(r) == IF place[r].nodes = 0 THEN NoNodes ELSE nodes[place[r].nodes]

(* Router.add panics on a name the router has: no program does that.        *)
Put(r, name, node) ==
    LET new == [n \in DOMAIN NodesOf(r) \cup {name} |->
                   IF n = name THEN node ELSE NodesOf(r)[n]] IN
    IF place[r].nodes = 0 THEN Append(nodes, new)
    ELSE [nodes EXCEPT ![place[r].nodes] = new]
add(r, name, node) ==
    /\ name \notin DOMAIN NodesOf(r)
    /\ nodes' = Put(r, name, node)

Registered(kind, name) ==
    routes' = Append(routes, [kind |-> kind, path |-> Append(Prefix, name), scopes |-> Scopes])
Unregistered(kind, name) ==
    \A i \in DOMAIN routes : routes[i].kind = kind => routes[i].path # Append(Prefix, name)

Use ==
    /\ Len(FlattenSeq(uses)) < MaxUses
    /\ LET mw == Len(FlattenSeq(uses)) + 1 IN
       /\ place' = [Inited(Here) EXCEPT ![Here].mws = Append(@, mw)]
       /\ nodes' = IF place[Here].nodes = 0 THEN Append(nodes, NoNodes) ELSE nodes
       /\ uses' = [uses EXCEPT ![Last(open).scope] = Append(@, mw)]
    /\ UNCHANGED <<open, routes>>

(* Add.                                                                     *)
AddCommand(name) ==
    /\ Len(routes) < MaxRoutes /\ Unregistered("command", name)
    /\ add(Here, name, [kind |-> "command", handler |-> Len(routes) + 1, autocomplete |-> 0])
    /\ place' = Inited(Here)
    /\ Registered("command", name)
    /\ UNCHANGED <<open, uses>>

(* AddAutocompleter wants the command in the very same router, or panics.   *)
AddAutocompleter(name) ==
    /\ Len(routes) < MaxRoutes
    /\ name \in DOMAIN NodesOf(Here) /\ NodesOf(Here)[name].kind = "command"
    /\ NodesOf(Here)[name].autocomplete = 0
    /\ nodes' = Put(Here, name, [NodesOf(Here)[name] EXCEPT !.autocomplete = Len(routes) + 1])
    /\ Registered("autocomplete", name)
    /\ UNCHANGED <<place, open, uses>>

(* Components are looked for in the root only: they are added there.        *)
AddComponent(name) ==
    /\ Len(routes) < MaxRoutes /\ Here = 1
    /\ add(1, name, [kind |-> "component", handler |-> Len(routes) + 1])
    /\ Registered("component", name)
    /\ UNCHANGED <<place, open, uses>>

Opens(at, kind, path) ==
    /\ open' = Append(open, [at |-> at, kind |-> kind, path |-> path, scope |-> Len(uses) + 1])
    /\ uses' = Append(uses, <<>>)
    /\ UNCHANGED routes

(* Sub: a router of its own, which is added when its callback has returned. *)
Sub(name) ==
    /\ Len(place) < MaxPlaces /\ Len(Prefix) + 1 < MaxDepth
    /\ name \notin DOMAIN NodesOf(Here)
    /\ place' = Append(place, [Zero(Here) EXCEPT !.nodes = Len(nodes) + 1])
    /\ nodes' = Append(nodes, NoNodes)
    /\ Opens(Len(place) + 1, "sub", Append(Prefix, name))

(* With: append(r.groups, Router{}).  A slice at its capacity moves: the    *)
(* groups so far get new places (1, 2, 4, ... of them), and the new one is  *)
(* the last.                                                                *)
With(r) ==
    LET g == place[r].groups
        moves == Len(g) = place[r].cap
        moved == IF moves THEN [i \in DOMAIN g |-> place[g[i]]] ELSE <<>>
        kept == IF moves THEN [i \in DOMAIN g |-> Len(place) + i] ELSE g
        new == Len(place) + Len(moved) + 1 IN
    /\ new <= MaxPlaces
    /\ place' = [place EXCEPT
                    ![r].groups = Append(kept, new),
                    ![r].cap = IF ~moves THEN @ ELSE IF @ = 0 THEN 1 ELSE 2 * @]
                \o moved \o <<Zero(r)>>
    /\ Opens(new, "group", Prefix)
    /\ UNCHANGED nodes

(* Group: its callback runs on what With returns.  A group of a group is    *)
(* never looked into: nobody makes one.                                     *)
Group ==
    /\ Last(open).kind # "group"
    /\ With(Here)

(* A callback returns; Sub now adds its router.                             *)
LeaveScope ==
    /\ Len(open) > 1
    /\ open' = Front(open)
    /\ LET done == Last(open)
           r == open[Len(open) - 1].at IN
       IF done.kind = "group" THEN UNCHANGED <<place, nodes>>
       ELSE /\ add(r, Last(done.path), [kind |-> "sub", router |-> done.at])
            /\ place' = Inited(r)
    /\ UNCHANGED <<routes, uses>>

RouterNext ==
    \/ \E n \in Names : AddCommand(n) \/ AddAutocompleter(n) \/ AddComponent(n) \/ Sub(n)
    \/ Use \/ Group \/ LeaveScope
RouterSpec == RouterInit /\ [][RouterNext]_routerVars

-----------------------------------------------------------------------------
(* Dispatch.  A path has the names of a command and its sub-commands; all   *)
(* but the last of its options are groups.                                  *)

Paths == UNION {[1..n -> Names] : n \in 1..MaxDepth}
Nobody == [router |-> 0, handler |-> 0]

(* What a command's node has for an interaction of the kind; 0 is nil.      *)
HandlerOf(node, kind) == IF kind = "command" THEN node.handler ELSE node.autocomplete

(* findCommandHandlerOnce, and findAutocompleterOnce, which is the same for *)
(* the other handler; deeper is what each router finds for the tail.        *)
findOnce(kind, r, path, deeper) ==
    LET ns == NodesOf(r) IN
    IF Head(path) \notin DOMAIN ns THEN Nobody
    ELSE LET node == ns[Head(path)] IN
         CASE node.kind = "sub" /\ Len(path) > 1 -> deeper[node.router]
           [] node.kind = "command" /\ HandlerOf(node, kind) # 0 /\ Len(path) = 1 ->
                  [router |-> r, handler |-> HandlerOf(node, kind)]
           [] OTHER -> Nobody

(* The router itself, then each of its groups, but not theirs.              *)
FirstHit(found) ==
    LET hits == {i \in DOMAIN found : found[i] # Nobody} IN
    IF hits = {} THEN Nobody ELSE found[CHOOSE i \in hits : \A j \in hits : i <= j]
Searched(r) == [i \in 0..Len(place[r].groups) |-> IF i = 0 THEN r ELSE place[r].groups[i]]
findHandler(kind, r, path) ==
    LET find[p \in Paths] ==
            [q \in DOMAIN place |->
                FirstHit([i \in DOMAIN Searched(q) |-> findOnce(kind, Searched(q)[i], p, find[Tail(p)])])]
    IN find[path][r]
findCommandHandler(r, path) == findHandler("command", r, path)
findAutocompleter(r, path) == findHandler("autocomplete", r, path)

handleComponent(name) ==
    IF name \in DOMAIN NodesOf(1) /\ NodesOf(1)[name].kind = "component"
    THEN [router |-> 1, handler |-> NodesOf(1)[name].handler] ELSE Nobody

callHandler_Reversed(r) ==
    LET chain[q \in 0..Len(place)] ==
            IF q = 0 THEN <<>> ELSE place[q].mws \o chain[place[q].parent] IN chain[r]

(* The middlewares around a handler, outermost first: wrapped from the last *)
(* of the router to the first of the root.                                  *)
callHandler(r) ==
    LET chain[q \in 0..Len(place)] ==
            IF q = 0 THEN <<>> ELSE chain[place[q].parent] \o place[q].mws IN chain[r]

(* HandleInteraction.                                                       *)
HandleInteraction(kind, path) ==
    CASE kind = "command" -> findCommandHandler(1, path)
      [] kind = "autocomplete" -> findAutocompleter(1, path)
      [] kind = "component" -> IF Len(path) = 1 THEN handleComponent(path[1]) ELSE Nobody

-----------------------------------------------------------------------------
Kinds == {"command", "autocomplete", "component"}

(* Once registration is over, each interaction reaches the handler that was *)
(* registered for it and no other, through the middlewares of the scopes it *)
(* was registered in, outermost first and whenever they were added: however *)
(* often the groups moved.                                                  *)
RoutesRight ==
    Len(open) = 1 /\ routes # <<>> =>
        \A kind \in Kinds, path \in Paths :
            LET mine == {i \in DOMAIN routes : routes[i].kind = kind /\ routes[i].path = path}
                hit == HandleInteraction(kind, path) IN
            IF mine = {} THEN hit = Nobody
            ELSE /\ hit.handler \in mine
                 /\ callHandler(hit.router) =
                        FlattenSeq([k \in DOMAIN routes[hit.handler].scopes |->
                                       uses[routes[hit.handler].scopes[k]]])
=============================================================================
