--------------------------------- MODULE TagRun ---------------------------------
(***************************************************************************)
(* AI tags and vectors of places: the ai_tag command (the daily task of    *)
(* place/tasks.py, or an operator's run), the embed_places command and the *)
(* loading of a dump (ai_tagging.py, embedding_service.py, tagging.py,     *)
(* place_feature_dump_service.py).                                         *)
(*                                                                         *)
(* A run reads its places once and writes them in autocommit mode, one     *)
(* statement after another: a crash, or another run, may come in between.  *)
(* Of an answer of the model only the tags are kept; the style vector is   *)
(* represented by the tags of the answer that it came with.                *)
(***************************************************************************)
EXTENDS Integers, FiniteSets

CONSTANTS
    TagPlaces,     \* places, numbers that stand for their ids
    TagRuns,       \* commands and tasks that may run at the same time
    Sort,          \* content_type_id, lclsSystm1 and the sea or not, of each place
    Answers,       \* the tags that the model may answer with
    Hopeless,      \* places for which every request is refused or answered without JSON
    Misshapen,     \* places for which every answer is JSON of the wrong shape
    TagLimit,      \* --limit: places of a run
    BatchSize,     \* --batch-size of embed_places
    MaxTagFaults   \* bound: refused and malformed answers, crashes, and loaded dumps

ASSUME TagAssumption ==
    /\ TagPlaces \subseteq Nat /\ IsFiniteSet(TagPlaces)
    /\ Hopeless \subseteq TagPlaces /\ Misshapen \subseteq TagPlaces
    /\ TagLimit \in Nat \ {0} /\ BatchSize \in Nat \ {0} /\ MaxTagFaults \in Nat

VARIABLES
    described,  \* the places that have an overview
    aiTags,     \* the AI tags of each place
    feature,    \* the PlaceFeature row of each place
    job,        \* what each run does with each place
    mode,       \* how each run goes about it
    tagFaults,
    recut,      \* history: places with a vector whose tagging was cut short again
    crossed     \* history: places that two runs have tagged at the same time

tagVars == <<described, aiTags, feature, job, mode, tagFaults, recut, crossed>>

-----------------------------------------------------------------------------
(* From an answer to tags *)

\* Of TAG_SEEDS: the styles, and a theme with and one without food.
Styles == {"beach", "mountain", "city", "culture", "gourmet", "activity"}
Candidates == Styles \cup {"museum", "restaurant"}
FoodTags == {"gourmet", "restaurant"}

FilterTags(answer) == answer \cap Candidates

IsFoodPlace(p) == Sort[p].lcls1 = "FD" \/ Sort[p].ctype = 39

DropNonFoodTags(p, tags) ==
    IF IsFoodPlace(p) \/ Sort[p].ctype = 15 THEN tags ELSE tags \ FoodTags

StyleByCtype == [c \in {14, 15, 28, 32, 38, 39} |->
    CASE c = 39 -> "gourmet" [] c = 28 -> "activity" [] c \in {14, 15} -> "culture"
      [] c \in {32, 38} -> "city"]
StyleByLcls1 == [FD |-> "gourmet", EX |-> "activity", VE |-> "culture", HS |-> "culture"]

FallbackStyle(p) ==
    LET s == Sort[p] IN
    IF s.lcls1 = "NA" THEN (IF s.sea THEN "beach" ELSE "mountain")
    ELSE IF s.ctype \in DOMAIN StyleByCtype THEN StyleByCtype[s.ctype]
    ELSE IF s.lcls1 \in DOMAIN StyleByLcls1 THEN StyleByLcls1[s.lcls1]
    ELSE "city"

EnsureMinStyle(p, tags) ==
    IF tags \cap Styles = {} THEN tags \cup {FallbackStyle(p)} ELSE tags

\* analyze_place
Result(p, answer) == EnsureMinStyle(p, DropNonFoodTags(p, FilterTags(answer)))

-----------------------------------------------------------------------------
(* Data *)

\* style: the tags of the answer the vector came with, or a vector from a dump.
Feature == [there : BOOLEAN, style : {"none", "ai", "dump"}, from : SUBSET Candidates,
            content : BOOLEAN]
NoFeature == [there |-> FALSE, style |-> "none", from |-> {}, content |-> FALSE]

\* Tagging: todo, answered, cleared, tagged; embedding: todo, embedded.
Job == [pc : {"none", "todo", "answered", "cleared", "tagged", "embedded"},
        tags : SUBSET Candidates]
NoJob == [pc |-> "none", tags |-> {}]
Doing(pc, tags) == [pc |-> pc, tags |-> tags]

\* ai_tag with one worker or several, embed_places.
TagModes == {"idle", "tag", "parallel", "embed"}

TagInit ==
    /\ described = {}
    /\ aiTags = [p \in TagPlaces |-> {}]
    /\ feature = [p \in TagPlaces |-> NoFeature]
    /\ job = [r \in TagRuns |-> [p \in TagPlaces |-> NoJob]]
    /\ mode = [r \in TagRuns |-> "idle"]
    /\ tagFaults = 0 /\ recut = {} /\ crossed = {}

TagFault == tagFaults < MaxTagFaults /\ tagFaults' = tagFaults + 1

-----------------------------------------------------------------------------
(* A run begins and ends *)

\* A collected place gets its overview.
Describe(p) ==
    /\ p \notin described /\ described' = described \cup {p}
    /\ UNCHANGED <<aiTags, feature, job, mode, tagFaults, recut, crossed>>

\* Mutated form of Missing: only places without a PlaceFeature row.
MissingRow(m) == {p \in TagPlaces : ~feature[p].there}

\* --only-missing: no row, or a row without the vector in question.
Missing(m) ==
    {p \in TagPlaces : IF m = "embed" THEN ~feature[p].content ELSE feature[p].style = "none"}

\* Places without an overview are embedded by their name, but not tagged.
Wanted(m, onlyMissing) ==
    (IF m = "embed" THEN TagPlaces ELSE described)
        \cap (IF onlyMissing THEN Missing(m) ELSE TagPlaces)

\* order_by("id")[:limit]
First(set, n) == {p \in set : Cardinality({q \in set : q <= p}) <= n}

StartTagRun(r, m, onlyMissing) ==
    /\ mode[r] = "idle" /\ m # "idle"
    /\ mode' = [mode EXCEPT ![r] = m]
    /\ job' = [job EXCEPT ![r] =
                 [p \in TagPlaces |-> IF p \in First(Wanted(m, onlyMissing), TagLimit)
                                      THEN Doing("todo", {}) ELSE NoJob]]
    /\ UNCHANGED <<described, aiTags, feature, tagFaults, recut, crossed>>

EndTagRun(r) ==
    /\ mode[r] # "idle" /\ \A p \in TagPlaces : job[r][p].pc = "none"
    /\ mode' = [mode EXCEPT ![r] = "idle"]
    /\ UNCHANGED <<described, aiTags, feature, job, tagFaults, recut, crossed>>

InHand(r) == {p \in TagPlaces : job[r][p].pc \notin {"none", "todo"}}
Todo(r) == {p \in TagPlaces : job[r][p].pc = "todo"}

\* With several workers any place may be next, otherwise the first one, after the last.
NextUp(r, p) ==
    /\ p \in Todo(r)
    /\ mode[r] = "tag" => InHand(r) = {} /\ \A q \in Todo(r) : p <= q

JobAt(r, p, next) == job' = [job EXCEPT ![r] = [job[r] EXCEPT ![p] = next]]

-----------------------------------------------------------------------------
(* Tagging a place: analyze_place, persist_ai_result *)

Analyse(r, p) ==
    /\ mode[r] \in {"tag", "parallel"} /\ NextUp(r, p) /\ p \notin Hopeless \cup Misshapen
    /\ \E answer \in Answers : JobAt(r, p, Doing("answered", Result(p, answer)))
    /\ UNCHANGED <<described, aiTags, feature, mode, tagFaults, recut, crossed>>

\* The run ends before its time.
RunOver(r) ==
    /\ mode' = [mode EXCEPT ![r] = "idle"]
    /\ job' = [job EXCEPT ![r] = [p \in TagPlaces |-> NoJob]]

\* AITaggingError: the place is left for another run.
Refused(r, p) ==
    /\ mode[r] \in {"tag", "parallel"} /\ NextUp(r, p)
    /\ IF p \in Hopeless THEN UNCHANGED tagFaults ELSE TagFault
    /\ JobAt(r, p, NoJob)
    /\ UNCHANGED <<described, aiTags, feature, mode, recut, crossed>>

\* JSON of the wrong shape is a TypeError or an AttributeError: the place is left like a
\* refused one by several workers, but the run of a single one ends.
Misread(r, p) ==
    /\ mode[r] \in {"tag", "parallel"} /\ NextUp(r, p)
    /\ IF p \in Misshapen THEN UNCHANGED tagFaults ELSE TagFault
    /\ IF mode[r] = "tag" THEN RunOver(r) ELSE JobAt(r, p, NoJob) /\ UNCHANGED mode
    /\ UNCHANGED <<described, aiTags, feature, recut, crossed>>

\* Another run is in the middle of writing the same place.
Others(r, p) == {u \in TagRuns \ {r} : job[u][p].pc \in {"cleared", "tagged"}}

\* assign_ai_tags removes the AI tags that are there ...
ClearTags(r, p) ==
    /\ job[r][p].pc = "answered"
    /\ aiTags' = [aiTags EXCEPT ![p] = {}]
    /\ crossed' = IF Others(r, p) # {} THEN crossed \cup {p} ELSE crossed
    /\ JobAt(r, p, Doing("cleared", job[r][p].tags))
    /\ UNCHANGED <<described, feature, mode, tagFaults, recut>>

\* ... and adds those of the answer.
AddTags(r, p) ==
    /\ job[r][p].pc = "cleared"
    /\ aiTags' = [aiTags EXCEPT ![p] = @ \cup job[r][p].tags]
    /\ JobAt(r, p, Doing("tagged", job[r][p].tags))
    /\ UNCHANGED <<described, feature, mode, tagFaults, recut, crossed>>

\* update_or_create writes the one column, whoever has created the row.
Styled(p, tags) == [there |-> TRUE, style |-> "ai", from |-> tags, content |-> feature[p].content]

\* Mutated form of SaveStyle: the vector is saved before the tags.
SaveStyleFirst(r, p) ==
    /\ job[r][p].pc \in {"answered", "tagged"}
    /\ feature' = [feature EXCEPT ![p] = Styled(p, job[r][p].tags)]
    /\ JobAt(r, p, IF job[r][p].pc = "tagged" THEN NoJob ELSE job[r][p])
    /\ UNCHANGED <<described, aiTags, mode, tagFaults, recut, crossed>>

SaveStyle(r, p) ==
    /\ job[r][p].pc = "tagged"
    /\ feature' = [feature EXCEPT ![p] = Styled(p, job[r][p].tags)]
    /\ JobAt(r, p, NoJob)
    /\ UNCHANGED <<described, aiTags, mode, tagFaults, recut, crossed>>

-----------------------------------------------------------------------------
(* Embedding *)

\* One call for a batch; the next one follows when the batch is stored.
EmbedBatch(r) ==
    /\ mode[r] = "embed" /\ InHand(r) = {} /\ Todo(r) # {}
    /\ job' = [job EXCEPT ![r] =
                 [p \in TagPlaces |-> IF p \in First(Todo(r), BatchSize) THEN Doing("embedded", {})
                                      ELSE job[r][p]]]
    /\ UNCHANGED <<described, aiTags, feature, mode, tagFaults, recut, crossed>>

\* EmbeddingError: the whole batch is left out.
BatchFails(r) ==
    /\ mode[r] = "embed" /\ InHand(r) = {} /\ Todo(r) # {} /\ TagFault
    /\ job' = [job EXCEPT ![r] =
                 [p \in TagPlaces |-> IF p \in First(Todo(r), BatchSize) THEN NoJob ELSE job[r][p]]]
    /\ UNCHANGED <<described, aiTags, feature, mode, recut, crossed>>

PersistContentVector(r, p) ==
    /\ job[r][p].pc = "embedded"
    /\ feature' = [feature EXCEPT ![p] = [there |-> TRUE, style |-> feature[p].style,
                                          from |-> feature[p].from, content |-> TRUE]]
    /\ JobAt(r, p, NoJob)
    /\ UNCHANGED <<described, aiTags, mode, tagFaults, recut, crossed>>

\* load_place_features: both columns are overwritten, with nothing if the dump has nothing.
LoadDump(p, style, content) ==
    /\ TagFault
    /\ feature' = [feature EXCEPT ![p] = [there |-> TRUE, style |-> style, from |-> {},
                                          content |-> content]]
    /\ UNCHANGED <<described, aiTags, job, mode, recut, crossed>>

-----------------------------------------------------------------------------
(* Runs that end early *)

\* Places whose tags have been removed and whose vector is an older one.
CutShort(r) ==
    {p \in TagPlaces : job[r][p].pc \in {"cleared", "tagged"} /\ feature[p].style # "none"}

\* A crash.
AbortRun(r) ==
    /\ mode[r] # "idle" /\ TagFault
    /\ RunOver(r)
    /\ recut' = recut \cup CutShort(r)
    /\ UNCHANGED <<described, aiTags, feature, crossed>>

-----------------------------------------------------------------------------
(* Specification *)

TagStep(r) ==
    \/ EndTagRun(r) \/ EmbedBatch(r)
    \/ \E p \in TagPlaces :
          \/ Analyse(r, p) \/ ClearTags(r, p) \/ AddTags(r, p) \/ SaveStyle(r, p)
          \/ PersistContentVector(r, p)
    \/ \E p \in Hopeless : Refused(r, p)
    \/ \E p \in Misshapen : Misread(r, p)

TagNext ==
    \/ \E p \in TagPlaces : Describe(p)
    \/ \E r \in TagRuns, m \in TagModes, onlyMissing \in BOOLEAN : StartTagRun(r, m, onlyMissing)
    \/ \E r \in TagRuns : TagStep(r) \/ BatchFails(r) \/ AbortRun(r)
    \/ \E r \in TagRuns, p \in TagPlaces : Refused(r, p) \/ Misread(r, p)
    \/ \E p \in TagPlaces, style \in {"none", "dump"}, content \in BOOLEAN :
          LoadDump(p, style, content)

\* The daily task: limit, only_missing, and a pace that means a single worker.
DailyTask(r) == StartTagRun(r, "tag", TRUE)

TagSpec == TagInit /\ [][TagNext]_tagVars

-----------------------------------------------------------------------------
(* Properties *)

\* Every variable keeps its type: whatever the model answers, no place gets a tag
\* that is not seeded (_filter_tags).
TagTypeOK ==
    /\ described \subseteq TagPlaces
    /\ aiTags \in [TagPlaces -> SUBSET Candidates]
    /\ feature \in [TagPlaces -> Feature]
    /\ job \in [TagRuns -> [TagPlaces -> Job]]
    /\ mode \in [TagRuns -> TagModes]
    /\ tagFaults \in 0..MaxTagFaults
    /\ recut \subseteq TagPlaces /\ crossed \subseteq TagPlaces

AtRest(p) == \A r \in TagRuns : job[r][p].pc \notin {"cleared", "tagged"}

\* The tags and the style vector of a place come from one answer, a tagging that was cut
\* short included, unless two runs tagged the place at the same time or a place that had
\* a vector was tagged again and that was cut short (persist_ai_result has no transaction).
TagsMatchVector ==
    \A p \in TagPlaces \ (recut \cup crossed) :
        AtRest(p) /\ feature[p].style = "ai" => aiTags[p] = feature[p].from

\* Whatever the model answers, a place with a vector from tagging has a style, with the
\* same exceptions, and no place but one for food or a festival ever has food tags.
GuardRails ==
    /\ \A p \in TagPlaces : aiTags[p] \cap FoodTags # {} =>
           Sort[p].lcls1 = "FD" \/ Sort[p].ctype \in {15, 39}
    /\ \A p \in TagPlaces \ (recut \cup crossed) :
           AtRest(p) /\ feature[p].style = "ai" => aiTags[p] \cap Styles # {}

\* The tags of a place are those of one answer, without what the guard rails forbid: the
\* two together.
TagsAsAnswered == TagsMatchVector /\ GuardRails

\* What comes before a place every day: a single answer of the wrong shape ends the run
\* there, the refused places only use up its limit.
WithinReach(p) ==
    /\ \A q \in described \cap Misshapen : q > p
    /\ Cardinality({q \in described \cap Hopeless : q < p}) < TagLimit

\* The daily task works off the backlog as far as it gets: if it is left alone in the end,
\* every described place within its reach gets a vector, however many places before it had
\* one, lost it to a dump or were left out by a run that was cut short (ai_tag.py:130-133).
BacklogWorkedOff ==
    \A p \in TagPlaces \ (Hopeless \cup Misshapen) :
        <>[](p \in described /\ WithinReach(p) => feature[p].style # "none")
=============================================================================
