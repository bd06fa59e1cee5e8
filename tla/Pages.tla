------------------------------- MODULE Pages -------------------------------
(***************************************************************************)
(* The calls of api.Client that ask for more than one page: messages,       *)
(* reactions, guilds and members.  Each loops, one request a turn, and      *)
(* goes on where the last page ended; what the server has changes between   *)
(* two requests.  MaxFetch stands for the 100 messages or reactions, the    *)
(* 200 guilds or the 1000 members of a page.                                *)
(***************************************************************************)
EXTENDS Integers, Sequences, FiniteSets, SequencesExt

CONSTANTS
    Listed,      \* the identifiers things may have; none is 0 or 1
    PageLimits,  \* limits callers give, 0 among them for "all"
    MaxFetch,
    UintMod      \* 2^w: a limit is a uint

ASSUME PagesAssumption ==
    /\ Listed \subseteq Nat \ {0, 1} /\ IsFiniteSet(Listed)
    /\ MaxFetch \in Nat \ {0} /\ UintMod \in Nat \ {0} /\ PageLimits \subseteq 0..(UintMod - 1)

Down == {"MessagesBefore", "ReactionsBefore", "GuildsBefore"}  \* towards older ones
Up == {"MessagesAfter", "ReactionsAfter", "GuildsAfter", "MembersAfter"}

VARIABLES
    listing,  \* server: the identifiers there are
    paging    \* the call
pageVars == <<listing, paging>>

(* With no cursor ReactionsBefore and GuildsBefore ask for the first page   *)
(* and nothing comes before it: they are for callers that have a cursor.    *)
Starts(by) == IF by \in {"ReactionsBefore", "GuildsBefore"} THEN Listed ELSE Listed \cup {0}

PagesInit ==
    /\ listing \in SUBSET Listed
    /\ \E by \in Down \cup Up, most \in PageLimits : \E from \in Starts(by) :
           paging = [by |-> by, from |-> from, most |-> most, cursor |-> from,
                     limit |-> most, got |-> <<>>, asked |-> 0, at |-> "loop",
                     stayed |-> listing]

-----------------------------------------------------------------------------
(* The server's pages, and the order it puts them in.                       *)

Ascending(S) == [n \in 1..Cardinality(S) |-> CHOOSE i \in S : Cardinality({j \in S : j < i}) = n - 1]
NewestFirst(S) == Reverse(Ascending(S))
Below(x, n) ==
    LET S == {i \in listing : x = 0 \/ i < x} IN
    {i \in S : Cardinality({j \in S : j > i}) < n}
Above(x, n) ==
    LET S == {i \in listing : i > x} IN
    {i \in S : Cardinality({j \in S : j < i}) < n}

messagesRange(before, after, limit) ==
    NewestFirst(IF after # 0 THEN Above(after, limit) ELSE Below(before, limit))
reactionsRange(before, after, limit) ==
    Ascending(IF before # 0 THEN Below(before, limit) ELSE Above(after, limit))
guildsRange(before, after, limit) ==
    Ascending(IF before # 0 THEN Below(before, limit) ELSE Above(after, limit))
membersAfter(after, limit) == Ascending(Above(after, limit))

-----------------------------------------------------------------------------
(* One turn of each loop.                                                   *)

Looping(by) == paging.by = by /\ paging.at = "loop"
Unlimited == paging.most = 0
Fetch == IF paging.limit > 0 /\ paging.limit < MaxFetch THEN paging.limit ELSE MaxFetch

(* A page: what the list is now, where the next page starts, and what is    *)
(* left of the limit.  A page that is not full is the last.                 *)
Turn(page, got, next, left) ==
    /\ paging' = [paging EXCEPT !.got = got, !.limit = left, !.asked = @ + 1,
           !.cursor = IF Len(page) < MaxFetch THEN @ ELSE next,
           !.at = IF Len(page) < MaxFetch \/ ~(left > 0 \/ Unlimited) THEN "done" ELSE "loop"]
    /\ UNCHANGED listing

(* The message loops take a whole page off the limit, which wraps around on *)
(* the last; the others take off what they ask for.                         *)
LessAPage == IF paging.limit > 0 THEN (paging.limit - MaxFetch) % UintMod ELSE 0
LessFetched == IF paging.limit > 0 THEN paging.limit - Fetch ELSE 0

MessagesBefore ==
    /\ Looping("MessagesBefore")
    /\ LET m == messagesRange(paging.cursor, 0, Fetch) IN
       Turn(m, paging.got \o m, m[Len(m)], LessAPage)

MessagesAfter_FromTheEnd ==
    /\ Looping("MessagesAfter")
    /\ LET m == messagesRange(0, IF paging.cursor = 0 THEN 1 ELSE paging.cursor, Fetch) IN
       Turn(m, m \o paging.got, m[Len(m)], LessAPage)

(* A cursor of 0 would be left out of the request, and means 1.             *)
MessagesAfter ==
    /\ Looping("MessagesAfter")
    /\ LET m == messagesRange(0, IF paging.cursor = 0 THEN 1 ELSE paging.cursor, Fetch) IN
       Turn(m, m \o paging.got, m[1], LessAPage)

ReactionsBefore ==
    /\ Looping("ReactionsBefore")
    /\ LET r == reactionsRange(paging.cursor, 0, Fetch) IN
       Turn(r, r \o paging.got, r[1], LessFetched)

ReactionsAfter ==
    /\ Looping("ReactionsAfter")
    /\ LET r == reactionsRange(0, paging.cursor, Fetch) IN
       Turn(r, paging.got \o r, r[Len(r)], LessFetched)

GuildsBefore ==
    /\ Looping("GuildsBefore")
    /\ LET g == guildsRange(paging.cursor, 0, Fetch) IN
       Turn(g, g \o paging.got, g[1], LessFetched)

GuildsAfter ==
    /\ Looping("GuildsAfter")
    /\ LET g == guildsRange(0, paging.cursor, Fetch) IN
       Turn(g, paging.got \o g, g[Len(g)], LessFetched)

(* The next page starts after the last member of the list so far.           *)
MembersAfter ==
    /\ Looping("MembersAfter")
    /\ LET m == membersAfter(paging.cursor, Fetch)
           mems == paging.got \o m IN
       Turn(m, mems, mems[Len(mems)], LessFetched)

(* A request fails: the call returns what it has, with the error.           *)
PageFails ==
    /\ paging.at = "loop"
    /\ paging' = [paging EXCEPT !.at = "failed"]
    /\ UNCHANGED listing

(* Server: something new is listed, or something goes.                      *)
Listing ==
    /\ paging.at = "loop" /\ paging.asked > 0
    /\ \E i \in Listed :
           \/ i \notin listing /\ listing' = listing \cup {i} /\ UNCHANGED paging
           \/ /\ i \in listing /\ listing' = listing \ {i}
              /\ paging' = [paging EXCEPT !.stayed = @ \ {i}]

PagesNext ==
    \/ MessagesBefore \/ MessagesAfter \/ ReactionsBefore \/ ReactionsAfter
    \/ GuildsBefore \/ GuildsAfter \/ MembersAfter
    \/ PageFails \/ Listing
PagesSpec == PagesInit /\ [][PagesNext]_pageVars

-----------------------------------------------------------------------------
(* In the range that was asked for, and what comes earlier on the way.      *)
InRange(i) == IF paging.by \in Down THEN paging.from = 0 \/ i < paging.from
              ELSE i > paging.from
Sooner(i, j) == IF paging.by \in Down THEN i > j ELSE i < j
NewestComesFirst == paging.by \in {"MessagesBefore", "MessagesAfter"}

(* Whatever comes and goes between two requests, the list has everything    *)
(* once and in order, and skips nothing that was there all the time: all of *)
(* the range once the call is done, or as much as the limit allows.  It     *)
(* never exceeds the limit, nor the number of requests the documentation    *)
(* gives.                                                                   *)
PagesComplete ==
    LET got == ToSet(paging.got)
        missing == {i \in paging.stayed \ got : InRange(i)} IN
    /\ \A i, j \in DOMAIN paging.got :
           i < j => IF NewestComesFirst THEN paging.got[i] > paging.got[j]
                    ELSE paging.got[i] < paging.got[j]
    /\ \A i \in got : InRange(i)
    /\ \A i \in missing, j \in got : Sooner(j, i)
    /\ paging.most > 0 => /\ Len(paging.got) <= paging.most
                          /\ (paging.asked - 1) * MaxFetch < paging.most
    /\ paging.at = "done" =>
           missing = {} \/ (paging.most > 0 /\ Len(paging.got) = paging.most)
=============================================================================
