------------------------------ MODULE PlaceRecord ------------------------------
(***************************************************************************)
(* The rows of one place (place_sync.py, tagging.py, admin_place_service): *)
(* Place, PlaceInfo, PlaceImage and the region and facility tags, written  *)
(* by the collection, the detail back-fill, the text clean-up, the tagging *)
(* command and administrators.                                             *)
(*                                                                         *)
(* The collection saves a place in one transaction; the commands read      *)
(* first and write later, statement by statement in autocommit mode.  What *)
(* the source says is numbered: a column holds the number of the version   *)
(* its value comes from, 0 for NULL.                                       *)
(***************************************************************************)
EXTENDS Integers, Sequences, FiniteSets, Functions

CONSTANTS
    Content,        \* the versions of the content at the source, in order
    MaxBusy,        \* bound: programs at work at the same time
    MaxRecordFaults \* bound: crashes, answers without an item, administrators' edits

Version == 1..Len(Content)

\* Its type, its region, whether it parks, is free and has a phone number, and its image
\* URLs.  A region is no facility: the tags differ in their tag_type.  A place without an
\* image is not collected, and a list of images is taken to name each image once.
Versions == [ctype : Nat, region : STRING, parking : BOOLEAN, free : BOOLEAN,
             phone : BOOLEAN, pics : Seq(STRING)]
ASSUME RecordAssumption ==
    /\ Content \in Seq(Versions) /\ Content # <<>>
    /\ MaxBusy \in Nat /\ MaxRecordFaults \in Nat
    /\ \A v \in Version : /\ Content[v].pics # <<>> /\ IsInjective(Content[v].pics)
                         /\ Content[v].region \notin {"parking", "free"}

VARIABLES
    source,     \* the version the source has now
    rec,        \* the Place row
    info,       \* its PlaceInfo row
    images,     \* its PlaceImage rows
    tags,       \* its region and facility tags
    worker,     \* what each program is doing with the place
    faults,
    untagged,   \* history: something other than a tagging wrote what tags derive from
    overtaken,  \* history: a command wrote what it had read before a newer save
    pictured    \* history: the image URLs of the last save, or those of an edit

recordVars == <<source, rec, info, images, tags, worker, faults, untagged, overtaken, pictured>>

-----------------------------------------------------------------------------
(* Data *)

Urls == UNION {Range(Content[v].pics) : v \in Version}
Regions == {Content[v].region : v \in Version}
RecordTags == Regions \cup {"parking", "free"}

\* PLACE_INFO_FIELD_MAP, as far as two of its columns go; INFOCENTER_KEY has the same types.
FieldMap == [c \in {12, 14, 28, 32, 38, 39} |-> IF c \in {14, 28} THEN {"parking", "fee"} ELSE {"parking"}]
Mapped(ctype) == ctype \in DOMAIN FieldMap

Rec == [there : BOOLEAN, version : 0..Len(Content), tel : BOOLEAN]
NoRec == [there |-> FALSE, version |-> 0, tel |-> FALSE]
Info == [there : BOOLEAN, parking : 0..Len(Content), fee : 0..Len(Content), raw : BOOLEAN]
NoInfo == [there |-> FALSE, parking |-> 0, fee |-> 0, raw |-> FALSE]
Image == [url : Urls, order : Nat, main : BOOLEAN]

Type(r) == Content[r.version].ctype

Programs == {"collect", "backfill", "assign", "clean", "admin"}

\* rec and info: copies that were read; version: of the details that were fetched, 0 for
\* no item; refresh: --refresh-info; late: the place has been saved since the reading.
Worker == [pc : 0..4, rec : Rec, info : Info, version : 0..Len(Content), refresh : BOOLEAN,
           late : BOOLEAN]
NoWorker == [pc |-> 0, rec |-> NoRec, info |-> NoInfo, version |-> 0, refresh |-> FALSE,
             late |-> FALSE]
Begun(r, i, refresh) ==
    [pc |-> 1, rec |-> r, info |-> i, version |-> 0, refresh |-> refresh, late |-> FALSE]
Detailed(w, v) == [w EXCEPT !.pc = 2, !.version = v]

\* A place collected by an earlier version of the code, with markup in its texts.
Legacy == [there |-> TRUE, parking |-> 1, fee |-> IF "fee" \in FieldMap[Content[1].ctype] THEN 1 ELSE 0,
           raw |-> TRUE]

\* The tags that the address and PlaceInfo call for.
TagsFor(r, i) ==
    {Content[r.version].region}
        \cup (IF i.there /\ i.parking > 0 /\ Content[i.parking].parking THEN {"parking"} ELSE {})
        \cup (IF i.there /\ i.fee > 0 /\ Content[i.fee].free THEN {"free"} ELSE {})

\* A row for each image, the first one is the main one.
Rows(urls) == {[url |-> urls[i], order |-> i - 1, main |-> i = 1] : i \in DOMAIN urls}

RecordInit ==
    /\ source = 1
    /\ \/ rec = NoRec /\ info = NoInfo /\ images = {} /\ tags = {} /\ pictured = <<>>
       \/ /\ rec = [there |-> TRUE, version |-> 1, tel |-> FALSE]
          /\ info \in {NoInfo, Legacy}
          /\ images = Rows(Content[1].pics) /\ pictured = Content[1].pics
          /\ tags = TagsFor(rec, info)
    /\ worker = [p \in Programs |-> NoWorker]
    /\ faults = 0 /\ untagged = FALSE /\ overtaken = FALSE

Fault == faults < MaxRecordFaults /\ faults' = faults + 1
At(p, pc) == worker[p].pc = pc
Start(p) == At(p, 0) /\ Cardinality({q \in Programs : worker[q].pc > 0}) < MaxBusy
Goto(p, w) == worker' = [worker EXCEPT ![p] = w]

\* The content changes, for good.
SourceChanges ==
    /\ source < Len(Content) /\ source' = source + 1
    /\ UNCHANGED <<rec, info, images, tags, worker, faults, untagged, overtaken, pictured>>

-----------------------------------------------------------------------------
(* Collection: _process_sync_item, _process_list_item *)

\* The item of the list is newer than the row.
ListItem ==
    /\ Start("collect") /\ source > rec.version
    /\ Goto("collect", Begun([NoRec EXCEPT !.version = source], NoInfo, FALSE))
    /\ UNCHANGED <<source, rec, info, images, tags, faults, untagged, overtaken, pictured>>

\* detailIntro2 is asked for the type of the list item; it may have no item.
FetchDetails ==
    /\ At("collect", 1)
    /\ \E empty \in BOOLEAN :
          /\ IF empty THEN Fault ELSE UNCHANGED faults
          /\ Goto("collect", Detailed(worker["collect"],
                IF empty \/ ~Mapped(Type(worker["collect"].rec)) THEN 0 ELSE source))
    /\ UNCHANGED <<source, rec, info, images, tags, untagged, overtaken, pictured>>

\* build_place_info_defaults: the columns of the type; the others keep what they have.
Filled(i, ctype, v) ==
    [there |-> TRUE, parking |-> v, fee |-> IF "fee" \in FieldMap[ctype] THEN v ELSE i.fee,
     raw |-> FALSE]

\* save_images, update_or_create: an image that is there gets its new place, others stay.
Saved(old, urls) == {image \in old : image.url \notin Range(urls)} \cup Rows(urls)

\* Mutated form of TagsAfterSave: tags are assigned before PlaceInfo is saved.
TagsTooSoon(r, i) == TagsFor(r, info)

\* assign_deterministic_tags, the last statement of the transaction.
TagsAfterSave(r, i) == TagsFor(r, i)

\* The transaction of _process_list_item.  The lists have phone numbers of festivals only.
SavePlace ==
    LET w == worker["collect"]
        newRec == [there |-> TRUE, version |-> w.rec.version,
                   tel |-> w.version > 0 /\ Content[w.version].phone]
        newInfo == IF w.version > 0 THEN Filled(info, Type(w.rec), w.version) ELSE info
    IN
    /\ At("collect", 2)
    /\ rec' = newRec /\ info' = newInfo
    /\ images' = Saved(images, Content[w.rec.version].pics)
    /\ pictured' = Content[w.rec.version].pics
    /\ tags' = TagsAfterSave(newRec, newInfo)
    /\ untagged' = FALSE
    /\ overtaken' = (Mapped(Type(newRec)) /\ w.version = 0)
    /\ worker' = [p \in Programs |-> IF p = "collect" THEN NoWorker
                                     ELSE [worker[p] EXCEPT !.late = (worker[p].pc > 0)]]
    /\ UNCHANGED <<source, faults>>

-----------------------------------------------------------------------------
(* backfill_details *)

\* Mutated form of Target: places that have no PlaceInfo.
TargetWithoutInfo(r) == r.there /\ Mapped(Type(r)) /\ ~r.tel /\ ~info.there

\* A place without a phone number whose type has details.
Target(r) == r.there /\ Mapped(Type(r)) /\ ~r.tel

\* Targets and has_info are read at the start.
StartBackfill(refresh) ==
    /\ Start("backfill") /\ Target(rec)
    /\ Goto("backfill", Begun(rec, info, refresh))
    /\ UNCHANGED <<source, rec, info, images, tags, faults, untagged, overtaken, pictured>>

\* Without an item there is nothing to do.
FetchIntro ==
    /\ At("backfill", 1)
    /\ Goto("backfill", Detailed(worker["backfill"], source))
    /\ UNCHANGED <<source, rec, info, images, tags, faults, untagged, overtaken, pictured>>

NoIntro ==
    /\ At("backfill", 1) /\ Fault /\ Goto("backfill", NoWorker)
    /\ UNCHANGED <<source, rec, info, images, tags, untagged, overtaken, pictured>>

UpdateTel ==
    /\ At("backfill", 2)
    /\ rec' = [rec EXCEPT !.tel = rec.tel \/ Content[worker["backfill"].version].phone]
    /\ Goto("backfill", [worker["backfill"] EXCEPT !.pc = 3])
    /\ UNCHANGED <<source, info, images, tags, faults, untagged, overtaken, pictured>>

\* Missing rows only, unless --refresh-info; no tags are assigned.
BackfillInfo ==
    LET w == worker["backfill"]
        new == Filled(info, Type(w.rec), w.version) IN
    /\ At("backfill", 3)
    /\ IF w.info.there /\ ~w.refresh THEN UNCHANGED <<info, untagged, overtaken>>
       ELSE /\ info' = new
            /\ untagged' = (untagged \/ TagsFor(rec, new) # TagsFor(rec, info))
            /\ overtaken' = (overtaken \/ w.late)
    /\ Goto("backfill", NoWorker)
    /\ UNCHANGED <<source, rec, images, tags, faults, pictured>>

-----------------------------------------------------------------------------
(* clean_existing_place_info *)

CollectDirty ==
    /\ Start("clean") /\ info.there /\ info.raw
    /\ Goto("clean", Begun(NoRec, info, FALSE))
    /\ UNCHANGED <<source, rec, info, images, tags, faults, untagged, overtaken, pictured>>

\* bulk_update writes the text columns of the copy.
Cleaned(i, copy) == [i EXCEPT !.fee = copy.fee, !.raw = FALSE]

BulkUpdate ==
    LET new == Cleaned(info, worker["clean"].info) IN
    /\ At("clean", 1)
    /\ info' = new
    /\ untagged' = (untagged \/ TagsFor(rec, new) # TagsFor(rec, info))
    /\ overtaken' = (overtaken \/ worker["clean"].late)
    /\ Goto("clean", NoWorker)
    /\ UNCHANGED <<source, rec, images, tags, faults, pictured>>

-----------------------------------------------------------------------------
(* assign_tags: assign_deterministic_tags in autocommit mode *)

ReadPlaces ==
    /\ Start("assign") /\ rec.there
    /\ Goto("assign", Begun(rec, info, FALSE))
    /\ UNCHANGED <<source, rec, info, images, tags, faults, untagged, overtaken, pictured>>

RemoveTags ==
    /\ At("assign", 1) /\ tags' = {}
    /\ Goto("assign", [worker["assign"] EXCEPT !.pc = 2])
    /\ UNCHANGED <<source, rec, info, images, faults, untagged, overtaken, pictured>>

AddRegion ==
    /\ At("assign", 2) /\ tags' = tags \cup {Content[worker["assign"].rec.version].region}
    /\ Goto("assign", [worker["assign"] EXCEPT !.pc = 3])
    /\ UNCHANGED <<source, rec, info, images, faults, untagged, overtaken, pictured>>

\* Afterwards all is well unless what was read is out of date.
AddFacilities ==
    LET w == worker["assign"]
        facilities == TagsFor(w.rec, w.info) \ Regions IN
    /\ At("assign", 3) /\ tags' = tags \cup facilities
    /\ untagged' = (w.late \/ w.info # info)
    /\ Goto("assign", NoWorker)
    /\ UNCHANGED <<source, rec, info, images, faults, overtaken, pictured>>

-----------------------------------------------------------------------------
(* Administrators and crashes *)

AdminLoad ==
    /\ Start("admin") /\ rec.there /\ Fault
    /\ Goto("admin", Begun(rec, NoInfo, FALSE))
    /\ UNCHANGED <<source, rec, info, images, tags, untagged, overtaken, pictured>>

\* place.save writes every column back, with the tags and images if they are given.
AdminSave ==
    /\ At("admin", 1)
    /\ rec' = worker["admin"].rec
    /\ tags' \in {tags, {}}
    /\ \/ UNCHANGED <<images, pictured>>
       \/ \E url \in Urls : images' = Rows(<<url>>) /\ pictured' = <<url>>
    /\ untagged' = TRUE
    /\ overtaken' = (overtaken \/ worker["admin"].late)
    /\ worker' = [worker EXCEPT !["admin"] = NoWorker, !["assign"].late = (worker["assign"].pc > 0)]
    /\ UNCHANGED <<source, info, faults>>

\* A crash: of what was done, the autocommitted statements stay.
Crash(p) ==
    /\ worker[p].pc > 0 /\ p # "admin" /\ Fault
    /\ untagged' = (untagged \/ (p = "assign" /\ worker[p].pc > 1))
    /\ Goto(p, NoWorker)
    /\ UNCHANGED <<source, rec, info, images, tags, overtaken, pictured>>

-----------------------------------------------------------------------------
(* Specification *)

RecordSteps(p) ==
    CASE p = "collect" -> FetchDetails \/ SavePlace
      [] p = "backfill" -> FetchIntro \/ UpdateTel \/ BackfillInfo
      [] p = "clean" -> BulkUpdate
      [] p = "assign" -> RemoveTags \/ AddRegion \/ AddFacilities
      [] p = "admin" -> AdminSave

BeginBackfill == \E refresh \in BOOLEAN : StartBackfill(refresh)

RecordNext ==
    \/ SourceChanges \/ ListItem \/ CollectDirty \/ ReadPlaces \/ AdminLoad
    \/ BeginBackfill \/ NoIntro
    \/ \E p \in Programs : RecordSteps(p) \/ Crash(p)

RecordSpec == RecordInit /\ [][RecordNext]_recordVars

-----------------------------------------------------------------------------
(* Properties *)

\* Every variable keeps its type, and no image is stored twice: save_images matches rows
\* by their URL and skips what an earlier image of the list was.
RecordTypeOK ==
    /\ source \in Version /\ rec \in Rec /\ info \in Info
    /\ images \subseteq Image /\ \A x, y \in images : x.url = y.url => x = y
    /\ tags \subseteq RecordTags
    /\ worker \in [Programs -> Worker]
    /\ faults \in 0..MaxRecordFaults /\ untagged \in BOOLEAN /\ overtaken \in BOOLEAN
    /\ pictured \in Seq(Urls)

\* The region and facility tags are those that the address and PlaceInfo call for, except
\* after the back-fill, the clean-up or an administrator changed what they derive from,
\* and after a tagging that was cut short or worked from an old copy
\* (assign_deterministic_tags: consistent when PlaceInfo changes).
Expected == {Content[rec.version].region}
    \cup (IF info.there /\ info.parking > 0 /\ Content[info.parking].parking THEN {"parking"} ELSE {})
    \cup (IF info.there /\ info.fee > 0 /\ Content[info.fee].free THEN {"free"} ELSE {})
TagsFollowRecord ==
    rec.there /\ ~untagged /\ worker["assign"].pc < 2 => tags = Expected

\* What PlaceInfo says of its type's columns is at least as new as the modification time
\* that keeps the place from being collected again, unless a command wrote what it had
\* read before, or the source had no item.
InfoNotStale ==
    rec.there /\ info.there /\ ~overtaken /\ Mapped(Type(rec)) =>
        /\ info.parking >= rec.version
        /\ "fee" \in FieldMap[Type(rec)] => info.fee >= rec.version

\* The image in lists is the first one of the last save, as long as no image of an
\* earlier version is left, which nothing removes; images always have a main one.
Mains == {image \in images : image.main}
MainImage ==
    /\ images # {} => Mains # {}
    /\ \A first \in Mains :
          /\ \A image \in images : image.url \in Range(pictured)
          /\ \A image \in Mains : first.order <= image.order
          => first.url = pictured[1]

\* A place whose source has a phone number gets it in the end, from the collection or the
\* back-fill, whatever was interrupted and whatever an older copy has overwritten.
PhoneInTheEnd ==
    <>[](rec.there /\ Mapped(Type(rec)) /\ Content[source].phone) => <>[](rec.tel)

\* The rows of a place agree with its source, and with each other, whichever of the five
\* programs wrote last: the three together.
RowsAgree == TagsFollowRecord /\ InfoNotStale /\ MainImage
=============================================================================
