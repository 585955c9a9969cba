------------------------------- MODULE PlaceLists -------------------------------
(***************************************************************************)
(* Lists of places (place_services.py, sort_algorithm_service.py): the     *)
(* recommended order with its three ways of being computed, the caches of  *)
(* ids behind it, the cached details, and the pages of /places/recommend,  *)
(* while places are hidden, shown again, deleted and given vectors.        *)
(*                                                                         *)
(* A request runs several queries, each of which sees the database as it   *)
(* is then.  The order within a list, scores and the stage of the member   *)
(* (ActionPipeline) are left out: which way a request takes is its kind.   *)
(***************************************************************************)
EXTENDS Integers, Sequences, FiniteSets, SequencesExt

CONSTANTS
    ListReads,      \* requests that may be on their way at the same time
    Nearest,        \* the places, from the nearest vector to the farthest
    TagsOf,         \* the tags of each place
    Named,          \* places whose name or tag has the keyword
    Addressed,      \* places whose address has it
    TagChoices,     \* sets of tags that requests filter by
    RemainingCap,   \* _REMAINING_CAP: 500 in the code
    SearchLimit,    \* most popular places that a keyword is looked for in: 100
    CandidateLimit, \* HYBRID_CANDIDATE_LIMIT: 200
    OverFetch,      \* _OVER_FETCH: 4
    MaxChanges      \* bound: places hidden, shown, deleted, given or robbed of a vector

ListPlaces == ToSet(Nearest)
ListTags == UNION {TagsOf[p] : p \in ListPlaces}

ASSUME ListAssumption ==
    /\ Nearest \in Seq(ToSet(Nearest)) /\ IsInjective(Nearest)
    /\ IsFiniteSet(ListTags) /\ {} \in TagChoices
    /\ {RemainingCap, SearchLimit, CandidateLimit, OverFetch} \subseteq Nat \ {0}
    /\ MaxChanges \in Nat

VARIABLES
    status,     \* the Place rows: shown, hidden (is_active false) or gone
    vectors,    \* places that have a vector
    popular,    \* cache popular_places:limit
    hybrid,     \* cache hybrid_ids
    detail,     \* cache place_detail: the places in it
    read,       \* what each request is doing
    changes

listVars == <<status, vectors, popular, hybrid, detail, read, changes>>

-----------------------------------------------------------------------------
(* Data *)

Kinds == {"feed", "hybrid", "popular", "search", "detail"}
Cached == [there : BOOLEAN, ids : SUBSET ListPlaces]
NotCached == [there |-> FALSE, ids |-> {}]
Entry(ids) == [there |-> TRUE, ids |-> ids]

\* rest: what follows the places in vec.  History: places shown since the start, and
\* whether ids came from a cache.
Read == [pc : {"idle", "ids", "store", "load", "rest", "done"}, kind : Kinds,
         tags : TagChoices, tier : 1..3, ids : SUBSET ListPlaces, vec : SUBSET ListPlaces,
         rest : SUBSET ListPlaces, steady : SUBSET ListPlaces, hit : BOOLEAN]
NoRead == [pc |-> "idle", kind |-> "feed", tags |-> {}, tier |-> 1, ids |-> {}, vec |-> {},
           rest |-> {}, steady |-> {}, hit |-> FALSE]

PlacesIn(s) == {p \in ListPlaces : status[p] = s}
Existing == ListPlaces \ PlacesIn("gone")
HasAll(tags) == {p \in ListPlaces : tags \subseteq TagsOf[p]}
HasAny(tags) == {p \in ListPlaces : tags = {} \/ tags \cap TagsOf[p] # {}}

\* The first n of an order that is left open.
Tops(set, n) == {s \in SUBSET set : Cardinality(s) = (IF Cardinality(set) < n THEN Cardinality(set) ELSE n)}

ListInit ==
    /\ status = [p \in ListPlaces |-> "shown"] /\ vectors = {}
    /\ popular = [n \in {RemainingCap, SearchLimit} |-> NotCached]
    /\ hybrid = [tags \in TagChoices |-> NotCached]
    /\ detail = {}
    /\ read = [r \in ListReads |-> NoRead]
    /\ changes = 0

Become(r, rec) == read' = [read EXCEPT ![r] = rec]
Then(r, pc, ids) == [read[r] EXCEPT !.pc = pc, !.ids = ids]
Reply(r, ids) == [read[r] EXCEPT !.pc = "done", !.vec = ids]

-----------------------------------------------------------------------------
(* Requests *)

StartRead(r, kind, tags) ==
    /\ read[r].pc = "idle"
    /\ Become(r, [NoRead EXCEPT !.pc = "ids", !.kind = kind, !.tags = tags,
                                !.steady = PlacesIn("shown")])
    /\ UNCHANGED <<status, vectors, popular, hybrid, detail, changes>>

EndRead(r) ==
    /\ read[r].pc = "done" /\ Become(r, NoRead)
    /\ UNCHANGED <<status, vectors, popular, hybrid, detail, changes>>

\* get_places_sorted_by_vector, get_places_sorted_by_content_vector: one tag is enough.
ReadVectorIds(r) ==
    /\ read[r].pc = "ids" /\ read[r].kind = "feed"
    /\ Become(r, Then(r, "load", PlacesIn("shown") \cap vectors \cap HasAny(read[r].tags)))
    /\ UNCHANGED <<status, vectors, popular, hybrid, detail, changes>>

\* Objects are loaded by their ids, whatever is_active says by now.
LoadPlaces(r) ==
    /\ read[r].pc = "load"
    /\ LET objects == read[r].ids \cap Existing IN
       Become(r, IF read[r].kind = "feed" THEN [read[r] EXCEPT !.pc = "rest", !.vec = objects]
                 ELSE Reply(r, objects))
    /\ UNCHANGED <<status, vectors, popular, hybrid, detail, changes>>

\* Mutated form of Remaining: places that have a vector are left out.
RemainingByVector(r) == (PlacesIn("shown") \ vectors) \cap HasAll(read[r].tags)

\* _append_remaining: here every tag counts.
Remaining(r) == (PlacesIn("shown") \ read[r].vec) \cap HasAll(read[r].tags)

AppendRemaining(r) ==
    /\ read[r].pc = "rest"
    /\ \E rest \in Tops(Remaining(r), RemainingCap) :
          Become(r, [read[r] EXCEPT !.pc = "done", !.rest = rest])
    /\ UNCHANGED <<status, vectors, popular, hybrid, detail, changes>>

\* The cached ids of _get_places_hybrid.
HybridHit(r) ==
    /\ read[r].pc = "ids" /\ read[r].kind = "hybrid" /\ hybrid[read[r].tags].there
    /\ Become(r, [Then(r, "load", hybrid[read[r].tags].ids) EXCEPT !.hit = TRUE])
    /\ UNCHANGED <<status, vectors, popular, hybrid, detail, changes>>

\* Names and tags first, then addresses, then names alike: any.
ListCandidates(r) ==
    LET base == PlacesIn("shown") \cap HasAll(read[r].tags) IN
    CASE read[r].tier = 1 -> {base \cap Named}
      [] read[r].tier = 2 -> {base \cap Addressed}
      [] OTHER -> SUBSET (base \ (Named \cup Addressed))

\* Each tier is a query of its own; nothing is cached when nothing is found.
ReadCandidates(r) ==
    /\ read[r].pc = "ids" /\ read[r].kind = "hybrid"
    /\ read[r].tier > 1 \/ ~hybrid[read[r].tags].there
    /\ \E found \in ListCandidates(r) :
          IF found # {} THEN \E ids \in Tops(found, CandidateLimit) : Become(r, Then(r, "store", ids))
          ELSE IF read[r].tier = 3 THEN Become(r, Reply(r, {}))
          ELSE Become(r, [read[r] EXCEPT !.tier = read[r].tier + 1])
    /\ UNCHANGED <<status, vectors, popular, hybrid, detail, changes>>

\* Scores are computed from further queries, then the ids are cached.
StoreHybrid(r) ==
    /\ read[r].pc = "store" /\ read[r].kind = "hybrid"
    /\ hybrid' = [hybrid EXCEPT ![read[r].tags] = Entry(read[r].ids)]
    /\ Become(r, Then(r, "load", read[r].ids))
    /\ UNCHANGED <<status, vectors, popular, detail, changes>>

LimitOf(r) == IF read[r].kind = "search" THEN SearchLimit ELSE RemainingCap

\* The keyword is looked for in the popular places that were loaded.
Search(r, objects) ==
    IF read[r].kind = "popular" THEN objects
    ELSE IF objects \cap Named # {} THEN objects \cap Named ELSE objects \cap Addressed

\* get_popular_places: without tags the ids come from the cache if they are there.
PopularHit(r) ==
    /\ read[r].pc = "ids" /\ read[r].kind \in {"popular", "search"} /\ read[r].tags = {}
    /\ popular[LimitOf(r)].there
    /\ Become(r, [Reply(r, Search(r, popular[LimitOf(r)].ids \cap Existing)) EXCEPT !.hit = TRUE])
    /\ UNCHANGED <<status, vectors, popular, hybrid, detail, changes>>

\* Mutated form of PopularIds: hidden places are among them.
AllIds(tags) == Existing \cap HasAny(tags)

PopularIds(tags) == PlacesIn("shown") \cap HasAny(tags)

ReadPopular(r) ==
    /\ read[r].pc = "ids" /\ read[r].kind \in {"popular", "search"}
    /\ read[r].tags # {} \/ ~popular[LimitOf(r)].there
    /\ \E ids \in Tops(PopularIds(read[r].tags), LimitOf(r)) :
          Become(r, IF read[r].tags = {} THEN Then(r, "store", ids) ELSE Reply(r, Search(r, ids)))
    /\ UNCHANGED <<status, vectors, popular, hybrid, detail, changes>>

StorePopular(r) ==
    /\ read[r].pc = "store" /\ read[r].kind \in {"popular", "search"}
    /\ popular' = [popular EXCEPT ![LimitOf(r)] = Entry(read[r].ids)]
    /\ Become(r, Reply(r, Search(r, read[r].ids)))
    /\ UNCHANGED <<status, vectors, hybrid, detail, changes>>

\* get_place_detail
ReadDetail(r, p) ==
    /\ read[r].pc = "ids" /\ read[r].kind = "detail"
    /\ Become(r, IF p \in detail THEN [Reply(r, {p}) EXCEPT !.hit = TRUE]
                 ELSE IF status[p] = "shown" THEN Then(r, "store", {p})
                 ELSE Reply(r, {}))
    /\ UNCHANGED <<status, vectors, popular, hybrid, detail, changes>>

StoreDetail(r) ==
    /\ read[r].pc = "store" /\ read[r].kind = "detail"
    /\ detail' = detail \cup read[r].ids
    /\ Become(r, Reply(r, read[r].ids))
    /\ UNCHANGED <<status, vectors, popular, hybrid, changes>>

-----------------------------------------------------------------------------
(* Caches expire, 300 s and an hour after they were written *)

ExpirePopular(n) ==
    /\ popular[n].there /\ popular' = [popular EXCEPT ![n] = NotCached]
    /\ UNCHANGED <<status, vectors, hybrid, detail, read, changes>>

ExpireHybrid(tags) ==
    /\ hybrid[tags].there /\ hybrid' = [hybrid EXCEPT ![tags] = NotCached]
    /\ UNCHANGED <<status, vectors, popular, detail, read, changes>>

ExpireDetail(p) ==
    /\ p \in detail /\ detail' = detail \ {p}
    /\ UNCHANGED <<status, vectors, popular, hybrid, read, changes>>

-----------------------------------------------------------------------------
(* Places change: none of this touches a cache *)

Change == changes < MaxChanges /\ changes' = changes + 1

\* PlaceFeature belongs to its place.
VectorsLeft(p, s) == IF s = "gone" THEN vectors \ {p} ELSE vectors

\* The collection hides a place and shows it again, an administrator deletes it.
ChangePlace(p, s) ==
    /\ Change /\ status[p] \notin {s, "gone"}
    /\ status' = [status EXCEPT ![p] = s]
    /\ vectors' = VectorsLeft(p, s)
    /\ read' = [r \in ListReads |-> [read[r] EXCEPT !.steady = read[r].steady \ {p}]]
    /\ UNCHANGED <<popular, hybrid, detail>>

\* Tagging and embedding add vectors; a dump may take one away.
ChangeVector(p) ==
    /\ Change /\ status[p] # "gone"
    /\ vectors' = IF p \in vectors THEN vectors \ {p} ELSE vectors \cup {p}
    /\ UNCHANGED <<status, popular, hybrid, detail, read>>

-----------------------------------------------------------------------------
(* Pages of /places/recommend: get_place_ids_sorted_by_vector *)

Nearer(p, q) == \E i, j \in DOMAIN Nearest : i < j /\ Nearest[i] = p /\ Nearest[j] = q
Before(set, p) == Cardinality({q \in set : Nearer(q, p)})

\* list[from : to], in the order of the distance.
Slice(set, from, to) == {p \in set : from <= Before(set, p) /\ Before(set, p) < to}

\* tag_ids and region_tag_id, of which there may be one.
Found(places, tags, region) == places \cap HasAny(tags) \cap HasAll(region)

\* The join has a row of a place for each tag that it shares with the filter.
JoinRows(set, tags) == IF tags = {} THEN set \X {"place"}
                       ELSE {entry \in set \X tags : entry[2] \in TagsOf[entry[1]]}

\* The places whose first row is one of the first rows of the join.
Fetched(found, tags, count) ==
    {p \in found : Cardinality(JoinRows({q \in found : Nearer(q, p)}, tags)) < count}

\* With a filter the rows are fetched from the first one to the end of the page, four for
\* each place, and every place counts once.
PageIds(places, tags, region, offset, size) ==
    LET found == Found(places, tags, region)
        all == IF tags \cup region = {} THEN found
               ELSE Fetched(found, tags, (offset + size) * OverFetch)
    IN Slice(all, offset, offset + size)

-----------------------------------------------------------------------------
(* Specification *)

ReadStep(r) ==
    \/ ReadVectorIds(r) \/ LoadPlaces(r) \/ AppendRemaining(r)
    \/ HybridHit(r) \/ ReadCandidates(r) \/ StoreHybrid(r)
    \/ PopularHit(r) \/ ReadPopular(r) \/ StorePopular(r)
    \/ (\E p \in ListPlaces : ReadDetail(r, p)) \/ StoreDetail(r)
    \/ EndRead(r)

Expire ==
    \/ \E n \in DOMAIN popular : ExpirePopular(n)
    \/ \E tags \in TagChoices : ExpireHybrid(tags)
    \/ \E p \in ListPlaces : ExpireDetail(p)

ListNext ==
    \/ \E r \in ListReads :
          \/ \E kind \in Kinds, tags \in TagChoices : StartRead(r, kind, tags)
          \/ ReadStep(r)
    \/ Expire
    \/ \E p \in ListPlaces :
          ChangeVector(p) \/ \E s \in {"shown", "hidden", "gone"} : ChangePlace(p, s)

ListSpec == ListInit /\ [][ListNext]_listVars

-----------------------------------------------------------------------------
(* Properties *)

\* Every variable keeps its type: a place has no vector after its row is gone, and caches
\* hold ids that a query could have returned.
ListTypeOK ==
    /\ status \in [ListPlaces -> {"shown", "hidden", "gone"}] /\ vectors \subseteq Existing
    /\ popular \in [{RemainingCap, SearchLimit} -> Cached]
    /\ hybrid \in [TagChoices -> Cached] /\ detail \subseteq ListPlaces
    /\ read \in [ListReads -> Read] /\ changes \in 0..MaxChanges

Listed(r) == read[r].vec \cup read[r].rest

\* No place is listed twice, though its vector may come or go between the query for the
\* places with one and the query for the others.
NoneTwice == \A r \in ListReads : read[r].vec \cap read[r].rest = {}

\* And none is missed: a place that is shown all the time and has the tags is listed,
\* whatever its vector does, unless the answer is cached or a limit is reached.
Sought(r) ==
    CASE read[r].kind = "feed" -> HasAll(read[r].tags)
      [] read[r].kind = "hybrid" -> HasAll(read[r].tags) \cap Named
      [] read[r].kind = "popular" -> HasAll(read[r].tags)
      [] OTHER -> {}
Room(r) ==
    CASE read[r].kind = "feed" -> Cardinality(read[r].rest) < RemainingCap
      [] read[r].kind = "hybrid" -> Cardinality(read[r].ids) < CandidateLimit
      [] OTHER -> Cardinality(read[r].vec) < RemainingCap
NoneMissed == \A r \in ListReads :
    read[r].pc = "done" /\ ~read[r].hit /\ Room(r) => read[r].steady \cap Sought(r) \subseteq Listed(r)

\* The pages of /places/recommend are the slices of one list, whatever places are shown
\* and have a vector, as long as a request does not name more tags than the rows that
\* are fetched for a place.  (Pages are read from the database alone: it is enough to
\* look while no request for a list is under way.)
Indexed == PlacesIn("shown") \cap vectors
PagesAreSlices ==
    (Indexed # {} /\ \A r \in ListReads : read[r].pc = "idle") =>
    \A tags \in SUBSET ListTags, region \in {{}} \cup {{t} : t \in ListTags},
       size, page \in 1..Len(Nearest) :
        Cardinality(tags) <= OverFetch =>
            PageIds(Indexed, tags, region, (page - 1) * size, size) =
                Slice(Found(Indexed, tags, region), (page - 1) * size, page * size)

\* A place that is hidden or deleted for good disappears from every answer, though no
\* cache is told: the ids in the caches come from queries for active places, and expire.
HiddenInTheEnd ==
    \A p \in ListPlaces :
        <>[](status[p] # "shown") => <>[](\A r \in ListReads : read[r].pc = "done" => p \notin Listed(r))

\* A list shows every place once, in one query or in several, on one page or on several:
\* the three together.
ListsComplete == NoneTwice /\ NoneMissed /\ PagesAreSlices
=============================================================================
