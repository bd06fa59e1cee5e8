-------------------------- MODULE MemberPermissions --------------------------
(***************************************************************************)
(* State.Permissions: it takes the guild, its roles and the member from the *)
(* cabinet or asks for them, several at a time, and works out what the      *)
(* member may do in a channel; and State.MemberColor.                       *)
(*                                                                          *)
(* The guild may be asked for twice, by two goroutines that write g and     *)
(* gerr without a lock: their writes are steps of their own here.           *)
(***************************************************************************)
EXTENDS Integers, Sequences, SequencesExt

CONSTANTS
    Bits,        \* permissions; "admin" is one of them
    PermissionAll,  \* those that the constant of that name has: not all of them
    RoleIDs,     \* the guild's roles besides everyone's
    MaxOverwrites,
    LooksOf,     \* what roles look like: [color, position]
    MaxLooks     \* bound on the roles of a member

ASSUME PermissionsAssumption ==
    /\ PermissionAll \subseteq Bits /\ "admin" \in PermissionAll
    /\ {"everyone", "user"} \cap RoleIDs = {} /\ MaxOverwrites \in Nat
    /\ LooksOf \subseteq [color : Nat, position : Nat] /\ MaxLooks \in Nat

VARIABLES
    stage,   \* where Permissions is
    g, gerr, merr, rerr,  \* its variables: TRUE for a value, and for an error
    fetching, \* goroutine |-> "no", "ask", or the answer it is writing
    refused,  \* history: what could not be had at least once
    perms     \* the result, and what it was worked out from
permissionVars == <<stage, g, gerr, merr, rerr, fetching, refused, perms>>

Fetchers == {"guild1", "guild2", "member", "roles"}
NoPerms == [at |-> "none"]

(* What the cabinet has; without the intents it is not asked.               *)
PermissionsInit ==
    /\ stage = "start"
    /\ \E hasG, hasM, hasR \in BOOLEAN :
           g = hasG /\ gerr = ~hasG /\ merr = ~hasM /\ rerr = ~hasR
    /\ fetching = [f \in Fetchers |-> "no"]
    /\ refused = {}
    /\ perms = NoPerms

-----------------------------------------------------------------------------
(* Permissions.                                                             *)

(* The channel is asked for first, and has to be in a guild.                *)
NoGuildChannel ==
    /\ stage = "start"
    /\ stage' = "done"
    /\ \E of \in {"channel", "not in a guild"} :
           refused' = refused \cup {of} /\ perms' = [at |-> "error", of |-> of]
    /\ UNCHANGED <<g, gerr, merr, rerr, fetching>>

(* The switch: if neither the guild nor the member is there, the guild is   *)
(* asked for in a goroutine; the caller asks for what is missing otherwise. *)
StartFetching ==
    /\ stage = "start"
    /\ fetching' = [fetching EXCEPT !["guild1"] = IF gerr /\ merr THEN "ask" ELSE @]
    /\ stage' = IF merr THEN "member" ELSE IF gerr THEN "guild" ELSE "more"
    /\ UNCHANGED <<g, gerr, merr, rerr, refused, perms>>

Refusal(what, ok) == refused' = IF ok THEN refused ELSE refused \cup {what}

(* The caller's own request: both writes are done before anyone looks.      *)
CallerFetchesMember ==
    /\ stage = "member"
    /\ \E ok \in BOOLEAN : merr' = ~ok /\ Refusal("member", ok)
    /\ stage' = "more"
    /\ UNCHANGED <<g, gerr, rerr, fetching, perms>>
CallerFetchesGuild ==
    /\ stage = "guild"
    /\ \E ok \in BOOLEAN : g' = ok /\ gerr' = ~ok /\ Refusal("guild", ok)
    /\ stage' = "more"
    /\ UNCHANGED <<merr, rerr, fetching, perms>>

(* What is still missing is asked for again: the guild too, where the first *)
(* goroutine has not written gerr yet.                                      *)
FetchMore ==
    /\ stage = "more"
    /\ stage' = "wait"
    /\ fetching' = [fetching EXCEPT
           !["guild2"] = IF gerr THEN "ask" ELSE @,
           !["member"] = IF merr THEN "ask" ELSE @,
           !["roles"] = IF rerr THEN "ask" ELSE @]
    /\ UNCHANGED <<g, gerr, merr, rerr, refused, perms>>

GuildAnswers(f) ==
    /\ fetching[f] = "ask"
    /\ \E ok \in BOOLEAN :
           fetching' = [fetching EXCEPT ![f] = IF ok THEN "g" ELSE "nil"] /\ Refusal("guild", ok)
    /\ UNCHANGED <<stage, g, gerr, merr, rerr, perms>>
WriteG(f) ==
    /\ fetching[f] \in {"g", "nil"}
    /\ g' = (fetching[f] = "g")
    /\ fetching' = [fetching EXCEPT ![f] = IF @ = "g" THEN "noerr" ELSE "err"]
    /\ UNCHANGED <<stage, gerr, merr, rerr, refused, perms>>
WriteGerr(f) ==
    /\ fetching[f] \in {"noerr", "err"}
    /\ gerr' = (fetching[f] = "err")
    /\ fetching' = [fetching EXCEPT ![f] = "no"]
    /\ UNCHANGED <<stage, g, merr, rerr, refused, perms>>
MemberAnswers ==
    /\ fetching["member"] = "ask"
    /\ \E ok \in BOOLEAN : merr' = ~ok /\ Refusal("member", ok)
    /\ fetching' = [fetching EXCEPT !["member"] = "no"]
    /\ UNCHANGED <<stage, g, gerr, rerr, perms>>
RolesAnswer ==
    /\ fetching["roles"] = "ask"
    /\ \E ok \in BOOLEAN : rerr' = ~ok /\ Refusal("roles", ok)
    /\ fetching' = [fetching EXCEPT !["roles"] = "no"]
    /\ UNCHANGED <<stage, g, gerr, merr, perms>>

Waited == stage = "wait" /\ \A f \in Fetchers : fetching[f] = "no"
PermissionsFail ==
    /\ Waited /\ (gerr \/ merr \/ rerr)
    /\ stage' = "done"
    /\ perms' = [at |-> "error", of |-> IF gerr THEN "guild" ELSE IF merr THEN "member" ELSE "roles"]
    /\ UNCHANGED <<g, gerr, merr, rerr, fetching, refused>>

-----------------------------------------------------------------------------
(* CalcOverrides.  An overwrite is [of, allow, deny]: for "everyone", for a *)
(* role or for the "user".  A member has the roles member.roles.            *)

Has(perm, bits) == bits \subseteq perm

(* The places of the overwrites for some of them; a loop that breaks takes  *)
(* the first, the one over the roles takes all.                             *)
For(overwrites, who) == {k \in DOMAIN overwrites : overwrites[k].of \in who}
Over(perm, overwrites, found) ==
    IF found = {} THEN perm
    ELSE LET o == overwrites[CHOOSE k \in found : \A l \in found : k <= l] IN
         (perm \ o.deny) \cup o.allow
All(overwrites, found, field) == UNION {overwrites[k][field] : k \in found}

CalcOverrides_DenyLast(owner, granted, roles, overwrites) ==
    LET base == granted["everyone"] \cup UNION {granted[r] : r \in roles}
        general == Over(base, overwrites, For(overwrites, {"everyone"}))
        mine == For(overwrites, roles)
        forRoles == (general \cup All(overwrites, mine, "allow")) \ All(overwrites, mine, "deny")
        final == Over(forRoles, overwrites, For(overwrites, {"user"})) IN
    IF owner \/ Has(base, {"admin"}) \/ Has(final, {"admin"}) THEN PermissionAll ELSE final

CalcOverrides(owner, granted, roles, overwrites) ==
    LET base == granted["everyone"] \cup UNION {granted[r] : r \in roles}
        general == Over(base, overwrites, For(overwrites, {"everyone"}))
        mine == For(overwrites, roles)
        forRoles == (general \ All(overwrites, mine, "deny")) \cup All(overwrites, mine, "allow")
        final == Over(forRoles, overwrites, For(overwrites, {"user"})) IN
    IF owner \/ Has(base, {"admin"}) \/ Has(final, {"admin"}) THEN PermissionAll ELSE final

(* MemberColor: a role is [color, position]; 0 is no color.  What the       *)
(* getter does not find is left out.                                        *)
Higher(best, r) == IF r.color > 0 /\ r.position > best.position THEN r ELSE best
MemberColor(rolesInOrder) ==
    LET best[n \in 0..Len(rolesInOrder)] ==
            IF n = 0 THEN [color |-> 0, position |-> -1] ELSE Higher(best[n - 1], rolesInOrder[n])
    IN best[Len(rolesInOrder)]

Overwrite ==
    {[of |-> of, allow |-> allow, deny |-> deny] :
        of \in RoleIDs \cup {"everyone", "user"}, allow, deny \in SUBSET (Bits \ {"admin"})}
Disjoint(o) == o.allow \cap o.deny = {}
OverwriteLists ==
    {s \in UNION {[1..n -> {o \in Overwrite : Disjoint(o)}] : n \in 0..MaxOverwrites} :
        \A i, j \in DOMAIN s : s[i].of = s[j].of => i = j}

(* The rest of Permissions, which dereferences g.                           *)
PermissionsReturn ==
    /\ Waited /\ ~gerr /\ ~merr /\ ~rerr
    /\ stage' = "done"
    /\ IF ~g THEN perms' = [at |-> "nil dereference"]
       ELSE \E owner \in BOOLEAN, granted \in [RoleIDs \cup {"everyone"} -> SUBSET Bits],
               roles \in SUBSET RoleIDs, overwrites \in OverwriteLists :
                perms' = [at |-> "result", owner |-> owner, granted |-> granted,
                          roles |-> roles, overwrites |-> overwrites,
                          may |-> CalcOverrides(owner, granted, roles, overwrites)]
    /\ g' = TRUE
    /\ UNCHANGED <<gerr, merr, rerr, fetching, refused>>

(* State.MemberColor instead, for the roles it finds.                       *)
ReturnColor ==
    /\ stage = "start"
    /\ stage' = "done"
    /\ \E looks \in UNION {[1..n -> LooksOf] : n \in 0..MaxLooks} :
           perms' = [at |-> "color", looks |-> looks, color |-> MemberColor(looks).color]
    /\ UNCHANGED <<g, gerr, merr, rerr, fetching, refused>>

PermissionsNext ==
    \/ ReturnColor \/ NoGuildChannel
    \/ StartFetching \/ CallerFetchesMember \/ CallerFetchesGuild \/ FetchMore
    \/ \E f \in {"guild1", "guild2"} : GuildAnswers(f) \/ WriteG(f) \/ WriteGerr(f)
    \/ MemberAnswers \/ RolesAnswer
    \/ PermissionsFail \/ PermissionsReturn
PermissionsSpec == PermissionsInit /\ [][PermissionsNext]_permissionVars

-----------------------------------------------------------------------------
(* What one permission is worth to a member, by the rank of who says so:    *)
(* what is said to the member alone, to its roles (where one that allows    *)
(* outweighs those that deny), to everyone, and to the roles in general.    *)
Said(overwrites, who, how, b) ==
    \E k \in DOMAIN overwrites : overwrites[k].of \in who /\ b \in overwrites[k][how]
May(p, b) ==
    LET Says(who, how) == Said(p.overwrites, who, how, b) IN
    CASE Says({"user"}, "allow") -> TRUE
      [] Says({"user"}, "deny") /\ ~Says({"user"}, "allow") -> FALSE
      [] OTHER ->
             CASE Says(p.roles, "allow") -> TRUE
               [] Says(p.roles, "deny") /\ ~Says(p.roles, "allow") -> FALSE
               [] OTHER ->
                      CASE Says({"everyone"}, "allow") -> TRUE
                        [] Says({"everyone"}, "deny") -> FALSE
                        [] OTHER -> \E r \in p.roles \cup {"everyone"} : b \in p.granted[r]
MayAll(p) == p.owner \/ \E r \in p.roles \cup {"everyone"} : "admin" \in p.granted[r]

(* Permissions fails only where something it needs was refused, the channel *)
(* included, and gives the owner and administrators PermissionAll and       *)
(* others what Discord would; if nothing is refused, it succeeds, whatever  *)
(* is cached and however its goroutines interleave.  (The guild refused to  *)
(* one goroutine and given to the other may leave it without either.)  A    *)
(* member's color is that of its highest role with one.                     *)
PermissionsRight ==
    /\ perms.at = "error" => perms.of \in refused
    /\ perms.at = "nil dereference" => "guild" \in refused
    /\ perms.at = "result" =>
           perms.may = IF MayAll(perms) THEN PermissionAll ELSE {b \in Bits : May(perms, b)}
    /\ perms.at = "color" =>
           LET colored == {r \in ToSet(perms.looks) : r.color > 0} IN
           IF colored = {} THEN perms.color = 0
           ELSE \E r \in colored : /\ perms.color = r.color
                                   /\ \A x \in colored : x.position <= r.position

(* The owner and administrators are given every permission there is.        *)
AdminsMayAll == perms.at = "result" /\ MayAll(perms) => perms.may = Bits

(* Whatever is refused, the guild is there when its error is not.           *)
NoNilGuild == perms.at # "nil dereference"
=============================================================================
