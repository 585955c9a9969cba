---------------------------- MODULE PlaceSearch ----------------------------
(***************************************************************************)
(* Places looked for by a keyword and by tags, sorted by a column and read *)
(* page by page (get_place_list and the two views that call it): three     *)
(* tiers, of which the best one with a match is listed.  Every page asks   *)
(* anew for the tier, for the number of rows and for its rows, and each of *)
(* these queries sees the database as it is then.                          *)
(***************************************************************************)
EXTENDS Integers, Sequences, FiniteSets, SequencesExt

CONSTANTS Catalogues,      \* what the places may be like: functions from ids to Facts
          SearchTags,      \* the tags
          HitTags,         \* tags whose name has the keyword, when it has no particle
          SearchKeywords,  \* what is looked for
          SearchFilters,   \* the sets of tags asked for
          SearchPage,      \* page_size: 8 in the code
          MaxEdits         \* bound: places hidden, shown again or ranked anew

VARIABLES facts,           \* the places
          query,           \* the client who scrolls, and the request under way
          edits

searchVars == <<facts, query, edits>>

\* name: whether it has the whole keyword, only its stem, something alike or
\* nothing of it; rank: the value of the column to sort by.
Facts == [shown : BOOLEAN, name : {"whole", "stem", "alike", "other"},
          tags : SUBSET SearchTags, addressed : BOOLEAN, rank : 0 .. 1]

\* A keyword: the length of its stem, and whether a particle and the kind of
\* place follow it; or no keyword at all.
NoKeyword == [stem |-> 0, particle |-> FALSE, kind |-> FALSE]

ASSUME SearchAssumption ==
    /\ HitTags \subseteq SearchTags /\ SearchFilters \subseteq SUBSET SearchTags
    /\ "no tag" \notin SearchTags
    /\ SearchPage \in Nat \ {0} /\ MaxEdits \in Nat
    /\ \A c \in Catalogues : /\ IsFiniteSet(DOMAIN c) /\ DOMAIN c \subseteq Nat
                             /\ c \in [DOMAIN c -> Facts]
    /\ NoKeyword \in SearchKeywords
    /\ \A k \in SearchKeywords \ {NoKeyword} : k \in [stem : Nat \ {0}, particle : BOOLEAN, kind : BOOLEAN]

NoQuery == [at |-> "idle", kw |-> NoKeyword, tags |-> {}, page |-> 1, tier |-> 0, total |-> 0,
            seen |-> <<>>, steady |-> {}, settled |-> TRUE]

SearchInit ==
    /\ facts \in Catalogues
    /\ query = NoQuery /\ edits = 0
-----------------------------------------------------------------------------
(* What a keyword matches *)

\* extract_core_keyword: only what a particle sets apart is looked for alone.
HasCore(kw) == kw.particle /\ kw.kind /\ kw.stem >= 2

\* No tag has a name with a particle in it.
Hits(kw) == IF kw.particle THEN {} ELSE HitTags

ShownIds == {p \in DOMAIN facts : facts[p].shown}
WithTags(tags) == {p \in ShownIds : tags \subseteq facts[p].tags}

\* A row of the query: a place with one of its tags, or with none.
TagRows(p) == IF facts[p].tags = {} THEN {"no tag"} ELSE facts[p].tags

Exact(kw, p, t) == facts[p].name = "whole" \/ t \in Hits(kw)
Core(kw, p) == HasCore(kw) /\ facts[p].name \in {"whole", "stem"}

\* _tier as it would be if an address counted as much as a name.
TierWithAddress(kw, p, t) ==
    IF Exact(kw, p, t) \/ Core(kw, p) \/ facts[p].addressed THEN 1 ELSE 99

\* _tier and _relevance of a row.
Tier(kw, p, t) ==
    IF Exact(kw, p, t) \/ Core(kw, p) THEN 1 ELSE IF facts[p].addressed THEN 2 ELSE 99
Relevance(kw, p, t) == IF Exact(kw, p, t) THEN 2 ELSE IF Core(kw, p) THEN 1 ELSE 0

\* aggregate(Min("_tier")): over all places, the tags asked for come later.
\* Names alike are the third tier.
BestTier(kw) ==
    LET tiers == UNION {{Tier(kw, p, t) : t \in TagRows(p)} : p \in ShownIds}
    IN  IF kw = NoKeyword THEN 0 ELSE IF 1 \in tiers THEN 1 ELSE IF 2 \in tiers THEN 2 ELSE 3

\* The rows that are listed: one for each relevance that a place has in the tier.
ListedRows(kw, tier, tags) ==
    CASE tier = 0 -> {<<p, 0>> : p \in WithTags(tags)}
      [] tier = 3 -> {<<p, 0>> : p \in {q \in WithTags(tags) : facts[q].name = "alike"}}
      [] OTHER -> UNION {{<<p, Relevance(kw, p, t)>> : t \in {u \in TagRows(p) : Tier(kw, p, u) = tier}}
                         : p \in WithTags(tags)}

\* order_by: relevance, the column, and the id where they are equal.
Before(x, y) ==
    \/ x[2] > y[2]
    \/ x[2] = y[2] /\ facts[x[1]].rank > facts[y[1]].rank
    \/ x[2] = y[2] /\ facts[x[1]].rank = facts[y[1]].rank /\ x[1] > y[1]

\* The orders that a database may answer in.
Orders(rows) == {s \in SetToSeqs(rows) : \A i, j \in DOMAIN s : i < j => ~Before(s[j], s[i])}
-----------------------------------------------------------------------------
(* One client *)

AskPlaces(kw, tags) ==
    /\ query.at \in {"idle", "end"}
    /\ query' = [NoQuery EXCEPT !.at = "tier", !.kw = kw, !.tags = tags, !.steady = ShownIds]
    /\ UNCHANGED <<facts, edits>>

ReadTier ==
    /\ query.at = "tier"
    /\ query' = [query EXCEPT !.at = "count", !.tier = BestTier(query.kw)]
    /\ UNCHANGED <<facts, edits>>

\* A page behind the last one is not found, but the first page always is.
CountRows ==
    /\ query.at = "count"
    /\ LET total == Cardinality(ListedRows(query.kw, query.tier, query.tags)) IN
       query' = [query EXCEPT !.total = total,
                    !.at = IF query.page > 1 /\ (query.page - 1) * SearchPage >= total
                           THEN "end" ELSE "page"]
    /\ UNCHANGED <<facts, edits>>

\* The places of the page: its slice of the list, cut at the number of rows counted before.
PlacesOf(rows) == [i \in DOMAIN rows |-> rows[i][1]]
OnePage(list) ==
    SubSeq(list, (query.page - 1) * SearchPage + 1,
           Min({query.page * SearchPage, query.total, Len(list)}))

\* The rows of the page; the client asks for the next one as long as the count
\* says that there is one.
ReadRows ==
    /\ query.at = "page"
    /\ \E rows \in Orders(ListedRows(query.kw, query.tier, query.tags)) :
         query' = [query EXCEPT
                    !.seen = query.seen \o OnePage(PlacesOf(rows)),
                    !.page = query.page + 1,
                    !.at = IF query.page * SearchPage < query.total THEN "tier" ELSE "end"]
    /\ UNCHANGED <<facts, edits>>

Ranked(fact, shown, rank) == [fact EXCEPT !.shown = shown, !.rank = rank]

\* A place is hidden or shown again, or its bookmarks and ratings change its rank.
EditListed(p, shown, rank) ==
    /\ edits < MaxEdits /\ <<shown, rank>> # <<facts[p].shown, facts[p].rank>>
    /\ facts' = [facts EXCEPT ![p] = Ranked(facts[p], shown, rank)]
    /\ query' = [query EXCEPT !.settled = (query.at = "idle"),
                    !.steady = IF shown THEN query.steady ELSE query.steady \ {p}]
    /\ edits' = edits + 1

SearchNext ==
    \/ \E kw \in SearchKeywords, tags \in SearchFilters : AskPlaces(kw, tags)
    \/ ReadTier \/ CountRows \/ ReadRows
    \/ \E p \in DOMAIN facts, shown \in BOOLEAN, rank \in 0 .. 1 : EditListed(p, shown, rank)

SearchSpec == SearchInit /\ [][SearchNext]_searchVars
-----------------------------------------------------------------------------
(* Properties *)

Ended == query.at = "end"

\* The pages are slices of one list: as long as nothing changes, who scrolls to
\* the end sees every place of the list once, though each page is a query of
\* its own and places have equal ranks (place_services.py:103-108).
EachPlaceOnce ==
    Ended /\ query.settled =>
        /\ IsInjective(query.seen)
        /\ ToSet(query.seen) = {r[1] : r \in ListedRows(query.kw, query.tier, query.tags)}

\* Whatever changes between the queries, a place that only its address or a
\* likeness speaks for is never shown while a place that has the keyword in its
\* name or tags is there all the time (place_services.py:61-96).
NamesBeforeAddresses ==
    \A i \in DOMAIN query.seen :
        LET p == query.seen[i] IN
        query.kw # NoKeyword /\ facts[p].name \in {"alike", "other"} /\ facts[p].tags \cap Hits(query.kw) = {} =>
            \A q \in query.steady : facts[q].name # "whole" /\ facts[q].tags \cap Hits(query.kw) = {}

\* The places _get_places_hybrid takes as candidates for the recommended order:
\* it filters by the tags first, then looks tier by tier.
Candidates(kw, tags) ==
    LET base == WithTags(tags)
        one == {p \in base : \/ facts[p].name = "whole"
                             \/ facts[p].tags \cap Hits(kw) # {}
                             \/ facts[p].name = "stem" /\ HasCore(kw)}
        two == {p \in base : facts[p].addressed}
    IN  IF one # {} THEN one ELSE IF two # {} THEN two
        ELSE {p \in base : facts[p].name = "alike"}

\* Sorted by a column or by recommendation, a search finds the same places; with
\* tags the first may find fewer, since it chooses the tier before it looks at
\* the tags, but never another place (place_services.py:89-102 and :147-184).
SameInEitherOrder ==
    Ended /\ query.settled /\ query.kw # NoKeyword =>
        /\ ToSet(query.seen) \subseteq Candidates(query.kw, query.tags)
        /\ query.tags = {} => ToSet(query.seen) = Candidates(query.kw, query.tags)

\* What a search shows is one list in the promised order: the three together.
SearchConsistent == EachPlaceOnce /\ NamesBeforeAddresses /\ SameInEitherOrder
=============================================================================
