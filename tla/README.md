# TLA+ models of the travel-maker backend

Travel-maker is a Django REST backend (`src/apps`, `src/config`) on PostgreSQL,
Redis and Celery: places collected from the Korea Tourism API and tagged by a
language model, reviews, bookmarks, follows, routes, a travel quiz, and a feed
personalised by what a user does. This directory holds TLA+ models of its core
logic, TLC configurations that check them on small instances, and TLAPS proofs.

`PROJECT.json` lists the components, the runs, for each property a mutation of
the model that breaks it, the source lines behind every definition, the findings,
the hazards and the theorems.

## 1. Inventory

| component | state it keeps | operations | what makes it hard | modules |
|---|---|---|---|---|
| Reviews and place ratings (`review/`) | review rows; `Place.rating_avg`, `rating_count` | create, update, delete, administrator's delete, `update_place_rating` | a denormalised copy kept by concurrent READ COMMITTED transactions; a unique index behind a check-then-act; cascades | `ReviewRating` |
| Administration of places (`place/services/admin_place_service.py`) | place rows, images, tags | update (whole-row save), delete | writes back what it read without a lock | `ReviewRating`, `PlaceRecord` (in part) |
| Behaviour pipeline (`user/services/action_log_service.py`, `user/tasks.py`) | `UserActionLog`, `UserPreference` (count, vector), the Celery queue | `record_action`, the incremental task, the nightly batch | work handed from a commit to a queue; retries; a batch that overlaps the tasks | `ActionPipeline` |
| Recommended feed, place lists and caches (`place/services/place_services.py`, `feed_stage_service.py`, `sort_algorithm_service.py`) | three caches | choose a stage, list, page, show details | one answer from several queries; caches nobody invalidates | `ActionPipeline`, `PlaceLists` |
| Place search (`core/search.py`, `get_place_list`) | none | tiers, filters, sorting, pages | the tier is chosen anew by each page | `PlaceSearch` |
| Accounts (`user/services/auth_service.py`, `user/tasks.py`) | user rows, links to Kakao accounts | Kakao login with its fall-backs, recovery, withdrawal, profile edit, purge | concurrent first logins behind unique indexes; rows saved whole from an old copy; a purge that overlaps a recovery | `Accounts` |
| Sessions (`user/authentication.py`, `user/views/auth_views.py`) | the tokens of a browser; entries of the cache that retire tokens | login, refresh with rotation, logout | tabs that refresh at once; replies in any order or lost; a cache that fails open | `Sessions` |
| Profile and uploads (`user/services/profile_service.py`, `core/presigned_url/`) | nickname and image of a user, objects in S3 | edit, upload, quiz avatar | an object deleted before the commit that replaces it | `Profile` |
| Follows (`user/services/follow_service.py`) | follow rows | follow, unfollow, lists by cursor | rows come and go while somebody scrolls | `Follows` |
| Lists of one member (`user/services/profile_service.py`) | none | bookmarks and reviews, page by page | pages cut by number | `OwnLists` |
| Bookmarks (`bookmark/`) | bookmark rows and their logs | add, remove | check-then-act; rows and logs must agree | `Bookmarks` |
| Routes (`route/`) | route, day and stop rows | create, replace, partly update, delete, read | nested rows replaced in one transaction; pages from five queries | `RouteStore`, `TravelRoute`, `RouteRead` |
| Tour API client (`place/services/tour_api.py`) | key index, attempt counter | one call with key rotation and back-off | nested retry budgets; callers that swallow some errors and not others | `TourApiClient` |
| Place collection (`place/services/place_sync.py`) | place rows | full, area and incremental runs | partial failures, resumption, soft deletes, overlapping runs | `PlaceSync` |
| Rows of one place (`place_sync.py`, `tagging.py`, `place_info_mapping.py`, commands) | Place, PlaceInfo, PlaceImage, region and facility tags | save, back-fill, assign tags, clean up, edit | five programs write the same rows from what each has read | `PlaceRecord` |
| Embedding and AI tagging (`ai_tagging.py`, `embedding_service.py`, commands) | AI tags, `PlaceFeature` rows | tag, daily task, embed, load a dump | statements without a transaction; places that always fail | `TagRun` |
| Travel quiz (`travel_quiz/`) | types, results, a cached list of types | score, submit, seed | arithmetic of the axes; a list cached too early | `Quiz` |
| Share links (`share/`) | none | link, shared page | a page put together from parts of different times | `QuizShare` |
| Demo data (`seed_demo_data.py`) | demo users and their rows | seed, clear, delete | dies half-way and is run again | `DemoSeed` |
| Map and categories; permissions and errors; schemas, serializers, admin pages; evaluation commands | none of their own | | | not modelled (section 9) |

Components call each other in one process. A review, a bookmark or a route
request ends its transaction with `record_action`, whose `on_commit` hook puts a
task on the Celery queue; workers turn it into the user's preference, which the
feed reads. Reviews and the collection write place rows; deleting a place or a
user cascades to the rows that refer to it. The collection asks the Tour API
client; tagging takes up what the collection has saved, and the lists take what
tagging has given a vector. A quiz result sets the avatar of the profile and is
what a share link shows.

What makes each component correct:

* reviews: the rating columns of a place agree with its reviews; one review per
  user and place; none without place or author; nobody waits for ever;
* behaviour pipeline: every logged action is counted, once, in the count and in the
  vector; there is a vector only above the threshold;
* lists and search: every page is a slice of one list; a place that is there all the
  time is shown once; what is hidden disappears;
* accounts: a Kakao account leads to the user with its address; an account is active
  or has the date of its withdrawal; who withdrew stays withdrawn until a login
  recovers the account, and is deleted in the end; nobody is locked out for ever;
* sessions: a retired token stays refused; a browser stays signed in until it logs
  out, and is signed out then;
* profile: the row names an object that exists, and no replaced object is left;
* bookmarks, routes: rows and logs agree; days lie within the dates they were stored
  with; an update replaces all days or none;
* Tour API client: a call ends and keeps its budgets; a run does not go on with a key that has
  answered it with a limit;
* collection: a place hidden by the source is not shown, one that comes back is;
  a run that stops half-way leaves a state that the next run completes; the tags,
  details and images of a place are those of its source;
* tagging: tags and vector come from one answer; the backlog is worked off as far as the daily
  run gets;
* quiz: the result follows from the answers; a submission ends, and does not go on failing over
  an old list;
* demo data: after a run that ends, every demo user is complete and ratings are counted.

## 2. How the modules are composed

Every component has a module of its own. A module that talks to another component
models the other side's effect on its own rows: `ActionPipeline` has request, queue,
workers, batch and feed in one; `ReviewRating` has the cascades of deleted places
and users; `RouteRead` reads what `TravelRoute` writes, one step for each change,
which is what `TravelRoute` implementing `RouteStore` justifies; `PlaceSync` has
for each call the ends that it has in `TourApiClient`; `QuizShare` extends `Quiz` and takes its steps.

One abstract specification stands above a detailed one: in `RouteStore` a route is one
row with its dates and one plan that comes from one request, and every change is one
step. `TravelRoute`, with its statements, locks, failures and cancelled transactions,
implements it.

Small modules that share no variables are checked together. `MCCommunity`,
`MCCatalog` and `MCCatalogLive` extend several of them and add a variable `part`,
which the first state chooses and no step changes: only that module makes steps,
and the others keep their first state (one of them, where there are several).
Every behaviour of such a run is a behaviour of one module, so the properties of the
modules are what is checked; `CatalogParts` and `CommunityParts` prove that it is a behaviour
of every module's specification (the others only stutter), so that what is proved of the parts
holds of the whole. In `MCCatalogLive` the fairness conditions of the modules are
merged, the i-th of one module with the i-th of the others: in a behaviour all but
one module's actions are disabled for ever, so a merged condition says what that
module's own condition says. `CatalogTypes` and `CommunityTypes` are the conjunctions of the
modules' type invariants.

## 3. Models and the code behind them

All models are of a program that talks to PostgreSQL at READ COMMITTED, Django's
default. A statement sees what is committed and what its own transaction wrote; a
step of a model is what no other transaction can cut. Outside `transaction.atomic`
every statement commits by itself, so a crash may fall between any two.

### ReviewRating

| state | code |
|---|---|
| `reviews`, `places`, `users`, `actionLogs` | committed rows |
| `rating` | `Place.rating_avg` (in tenths) and `rating_count` |
| `txn[t]` | the open transaction of handler `t`: what it has written (`add`), deleted or replaced (`del`), and what it is about to store (`agg`) |
| `nextId` | the sequence of `Review.id`, never rolled back |
| `bypassed` | history: places written around `update_place_rating` |

`create_review` is `CreateReview` (place lookup and `exists()`), `RefuseRoute`,
`InsertReview`, then `LockPlace`, `RecomputeRating` (the two halves of
`update_place_rating`) and `CommitReview`, which checks the deferred foreign keys
and leaves the log row of `record_action`. Updates and deletes open a row without
a lock, then `SaveReview` or `DeleteRow`, and go on like a create. The
administrator's delete of a place is `DropPlace`, `CascadeRows`, `DropRow`,
`CommitDrop`; the whole-row save is `EditPlace`, `SaveEdit`, `CommitEdit`;
`PurgeUser` is the cascade of the purge. `Crash` rolls back anywhere. Row locks and
the unique index are guards: a statement that would wait is not enabled.

Averages are rounded as Python's `round(x, 1)` does, exact ties included
(`RoundTenths`, `TieDown`).

### ActionPipeline

One user stands for all, since users share no rows. `logs` are `UserActionLog` rows,
`hooks` the `on_commit` hooks that have yet to run, `queue` the messages with the
retries they have used, `task[w]` what worker `w` has read, `preference` the row with
its count and its vector. The vector is abstracted to how often each action is
in the sum and whether NULL is stored (a sum of norm zero is stored as NULL); the
weights and the arithmetic of the components are left out.

`RecordAction`, `Enqueue` and `LoseHook` are the request; `ReadLog`, `ApplyAction`,
`ApplyToDeleted`, `TaskFails` and `WorkerDies` the incremental task
(`Retry` is `self.retry`); `BatchSelect`, `BatchCompute`, `BatchSave` and `BatchDies` the
nightly batch; `DetermineStage` and `ReadVector` the feed. `Embed`, `Expire` and
`DeletePlace` are what the rest of the system does to the rows.

`WorkerDies` loses a message because Celery acknowledges before it runs a task and
no setting of the project changes that. A message may be taken twice (`ReadLog` with
`duplicates`), which a Redis broker does after its visibility time-out.

### TourApiClient

`Call` begins `_get`; `Items`, `Fatal`, `Transient` and `Limit` are the four kinds of
answer, `BackOff` the inner budget, `Rotate` the switch of keys, `Wake` the end of a
sleep. The service may answer a request in any way; `SpendQuota` is the daily limit,
which other programs use too.

Nothing in `_get` keeps anybody from calling again when all keys are exhausted: that is
up to the callers in `place_sync.py`, which are here as a run (`run`). `StartRun` makes a
client, whose first key is the first of the list again; `Handle` is what the callers do
with the end of a call: they go on after items, and after an error if they swallow
`TourApiError` (items, types and places to back-fill do, `sync_area` and the class codes do
not), but all of them end the run at `AllKeysExhaustedError`, a subclass of it.

### PlaceSync

`source` is the list at the Tourism API: for each content a modifiedtime and whether it is
unpublished, hidden, shown, or shown with an image. `place` holds for each row the
stored modifiedtime (`mtime`), the version its details belong to (`data`), and
`is_active`. `run[r]` is a command or task that collects: mode, page, what it knew of
the rows when it began the type, and the item in hand.

`StartRun` chooses `sync_all` (with or without `skip_existing`), `sync_area` or
`sync_incremental`; `BeginType`, `FetchPage`, `EndPage`, `EndType` and `EndRun` are
the loops; `TakeItem` is the decision of `_process_sync_item` and its counterparts,
`FetchDetails` and `Save` the rest of an item. `PageFails`, `SkipItem` and `Abort` are
an error of a list, of an item, and the end of a run. `Change` lets the source
publish, edit, hide and show.

### Accounts

`user` is the table of users by primary key (address, `is_active`, days since
`deleted_at`), `social` the link of each Kakao account, `req` the requests, `purge` the run
of `purge_withdrawn_users`. A login is cut as `kakao_login` is: `Lookup`, `Create` or
`CreateFails` (the IntegrityError of a concurrent first login), the second
lookup, `FindByEmail`, then `Recover`, `RecoverLink` or `Link`. `Withdraw` and
`EditProfile` are authenticated from a row that `SaveWithdrawal` and `SaveProfile`
use later; `SaveProfile` writes all columns of it. The purge selects, collects the
rows of the cascade and deletes.

The statements from the first write of a transaction to its commit are one step.
A request or a purge sees at most one midnight (`NextDay`); ages stop growing
one day beyond the window; a primary key is used again only when nobody
remembers it, so reuse cannot be mistaken for the same user.

### Sessions

One browser with several tabs. `issued` holds the time of each pair of tokens,
`entries` the entries of the cache that retire tokens, `jar` the cookie, `page` the access
token, `request[t]` the request of a tab. A refresh is `CheckRefresh`, `RetireOld`,
`IssuePair`, `ReceivePair`; a logout (and the tail of a withdrawal) `CheckLogout`,
`RetireAccess`, `RetireCookie`, `ReceiveLogout`. `reached` is whether an operation
reaches the cache: a check that does not lets the token pass, as `is_jti_blacklisted` does.
A refresh is modelled with its cookie alone; one that also carries a retired bearer
is refused by authentication before the view runs.

### Profile

`profiles` are rows, `objects` the keys in S3, `edit` the requests. An edit is
`Authenticate`, `CheckNickname`, `SaveCopy` (all columns of the copy),
`SetImage` (the image alone, and the delete of the object that the copy named),
`Commit` or `UndoEdit`. `ChooseAvatar` is the avatar of a quiz result.

### Follows, OwnLists

`Follows` cuts a follow into its check and its insert, behind the unique index and the
foreign keys, next to withdrawals, recoveries and purges; `reader` scrolls through a
list that continues behind the creation time of the last row (`NewerThan`, `ShownOn`: a
page is the set of the rows that fewer than a page of others precede). `OwnLists` is the
other kind of list: the count and the rows of a page are two queries, and a page begins at a
number of rows and ends at the count at the latest (`OnOwnPage`, Django's `Paginator.page`). `seen` are the rows shown so far and `total` how many were shown,
repetitions counted: the difference is what was shown again.

### Bookmarks

A request to add is a check, an insert behind the unique index and a commit that
leaves the log; a request to remove reads, deletes and logs. `vain` counts the deletes
that found their row gone, which log an UNBOOKMARK all the same.

### TravelRoute, RouteStore, RouteRead

`row` and `days` are the committed rows of one route, `txn[t]` the request of handler
`t`, `lock` the row lock. An update is `LoadUpdate`, `SaveRow` (waits for the lock), `Rebuild`
(deletes the days, inserts the new ones, decides what is new) or `RejectDays`,
`CommitDays` or `CommitFails`; without days `CommitRow`. A deletion is `LoadDelete`, `CollectDays`,
`RemoveRow`. An update locks the row and then the days, a deletion of days the other way
round: `Deadlock` is PostgreSQL cancelling one of them. `DropPlace` is the cascade of a
place to the stops.

`RouteRead` reads a page as the code does: does the keyword match anything, how many
rows, the rows with the number of their stops, the days, the stops, the images.

### PlaceRecord

`rec`, `info`, `images` and `tags` are the rows of one place; a column holds the
number of the version of the content it comes from. Five programs write them: the
collection (one transaction), the detail back-fill, the tagging command, the text clean-up
and administrators, each with what it has read in `worker`. `images` is the set of the image
rows, each with its URL and whether it is the main one.

### TagRun

`job[r][p]` is what run `r` does with place `p`: the answer of the model, then
`persist_ai_result` statement by statement (tags removed, tags added, vector
saved) without a transaction. Modes are the sequential command, the parallel one, and
`embed_places`; `LoadDump` is the loading of a dump. An answer is a set of tags,
seeded or not; `Refused` and `BatchFails` are answers that cannot be used. `Misread` is JSON of the
wrong shape, a `TypeError` or an `AttributeError` that `ai_tag.py:203` does not catch: several
workers go on without the place, the run of a single one ends (`RunOver`). `Hopeless` are
the places that are refused every time, `Misshapen` those that are misread every time.

### PlaceLists, PlaceSearch

`PlaceLists`: `status` and `vectors` are rows, `popular`, `hybrid` and `detail` the
caches, `read[r]` a request that goes through its queries. The order within a list is
left out; which places it has is not. A page of the vector order is a set of places too:
those that as many places are `Nearer` than as the page begins at. With a filter the rows
of the join (`JoinRows`: a row for each tag that a place shares with the filter) are
`Fetched` up to the end of the page, four for each place, before they are cut.

`PlaceSearch`: a place is what a search can
tell of it (does its name have the whole keyword, only its core, or something like
it; its tags; its address; its rank), `query` a client who scrolls.

### Quiz, QuizShare

A sheet is a function from the twelve questions to A or B. Scores run from -5 to 5
where the code has (score + 5) / 10. `Seed` inserts the types one by one; a submission
is one transaction that fails, and is undone, when it misses its type in the table (`FindType`)
or another one in the cached list (`EndTake`); the user may submit again or not.
`QuizShare` adds a link made from a stored or a given result, and the page behind it.

### DemoSeed

The command with its three modes, each statement a step, `CrashRun` between any two,
and `RealReview` by users who are not demo users. `lost` are the places whose ratings a
dead run left uncounted.

## 4. Runs

| run | what it shows |
|---|---|
| `community` | seven modules, one at a time: reviews (every operation of two handlers, place deletes, administrator's edits, purges, crashes), follows, search, shared quiz pages, the demo data command, routes that are read, lists of one member |
| `review_live` | no request is stuck behind another one's row locks |
| `review_edit` (violation) | an administrator's save writes old rating columns back |
| `pipeline` | tasks, batch, feed, crashes, failures and second deliveries: counted once, no vector below the threshold, nothing left behind without a crash |
| `pipeline_live` | every action is processed, the batch finally corrects the vector |
| `pipeline_lost` (violation) | the batch saves over an action that a task has added |
| `sync` | all modes over a changing source with failures: stale details and hidden places are noticed, a walk to the end misses nothing, rows come into line |
| `sync_overlap` (violation) | two overlapping runs leave a shown place inactive with the newest modifiedtime |
| `accounts` | two Kakao accounts of one person, two requests, purges and midnights: links lead to the right user, nobody in limbo, who stays away is deleted, who keeps logging in is let in |
| `accounts_profile` (violation) | a profile edit revives a withdrawn account |
| `catalog` | seven modules, one at a time: tagging, place lists, the rows of one place, writing routes, sessions, profiles, bookmarks; `TravelRoute` implements `RouteStore` |
| `catalog_live` | five modules, one at a time: calls end, backlogs are worked off, what is hidden disappears, a phone number arrives, submissions end; and, since its instance has them, the budgets of the client and the limits its runs respect for one to three keys, and the result of the quiz for all 4096 sheets |

The properties of the two catalogue runs and of `community` name several facts each; the
comment above each definition says which.

* `community`: `RatingExactUnlessBypassed`, `ReviewKeysHold` (reviews); `EachSeenOnce` (follows:
  who scrolls sees each row once, and everybody who is there all the time);
  `SearchConsistent` (pages are slices of one list, names come before addresses, both ways to
  sort find the same places); `SharedPageFits` (tags, texts, cards and labels of a shared page
  name the same sides); `SeedSound` (a run that ends leaves complete members and counted
  ratings); `PageTrue` (what a page shows of a route was true of it at one time);
  `OwnShiftBounded` (pages cut by number repeat or miss at most one row for each change).
* `catalog`: `TagsAsAnswered`, `ListsComplete`, `RowsAgree` (tags, details and images of
  a place agree with its source), `RouteSound` (each arrival at a place logged once, days fit
  their dates), `SignedInUntilLogout`, `RetiredStays`, `ImagesAccounted`, `LogsBalance`,
  `ImplementsRouteStore`.
* `catalog_live`: `BudgetsUsedInOrder`, `CallEnds`, `LimitsRespected` (no run with several keys asks
  again with one that has answered it with a limit); `BacklogWorkedOff` (every place gets
  its vector that no misread place precedes and fewer refused ones than the limit);
  `HiddenInTheEnd`; `PhoneInTheEnd`; `ResultSound`, `AnsweredInTheEnd` (every submission ends,
  and once the types are seeded and the old list has expired none fails).

**Bounds.**

* Reviews: two handlers, two users, one place, the ratings 3 (which leaves no log row)
  and 4, two review ids. The hazards are between two transactions of one place; a
  second place shares nothing with the first but the user, and the proofs cover any
  number of each. Handlers and users are symmetric.
* Pipeline: two actions, two workers, threshold 2 (so the count passes it within the
  run), one retry (the code has three), two exceptions and two mishaps.
  `pipeline_live` has one exception, as many as retries, and no mishap, because a
  lost message is never sent again. `pipeline_lost` needs no failure at all.
* Tour API: one to three keys, three retries (the constructor's default), three
  calls, two limit answers that are not the daily quota. Two spikes with three keys
  exhaust the keys without a used-up quota.
* Collection: four contents of two types (three of one and one of the other), two rows to
  a page, so that a type has a full last page or a partial one; page limits 1 and 9 (9 is
  more than there are pages and stands for None); three changes at the source; one
  failure. One run at a time; `sync_overlap` has two runs and one content.
* Accounts: two Kakao ids with addresses that are one when normalised; two users at a
  time, a window of one day (the code has 14), one clash of nicknames.
* Sessions: two tabs, three pairs, a refresh token that lives for two ticks and an access
  token for one, one outage or lost reply. Three pairs are one of a login and one for each tab.
* Profile: two users, two edits at a time and three in all, three nicknames, two uploads.
* Follows: three members, the list of one of them, pages of one row, three rows: a page
  ends within the list, and a row of the list can go and a new one come.
* Lists of one member: three places, pages of two, five ticks. A page of two can be cut within
  by the count, which a page of one cannot.
* Bookmarks: three requests, three keys; the third comes after the other two have crossed.
* Routes: two requests at a time, three in all, two days, two places, plans with no
  day, either day, and both days with two stops. `RouteRead`: three routes, three drafts, two
  changes, pages of one.
* Rows of one place: three versions of the content (a phone number and swapped images, then
  another region, other kind and other images), one crash, two busy programs at a time;
  for liveness two versions.
* Tagging: two places (one misread every time), two runs, two answers, of which one names a tag
  that is not seeded; one failure. For liveness three places, of which the first is refused
  every time and the second misread, with a limit of 2: places are within reach and out
  of it, as the second is described or not; and one run, since two never help each other.
* Lists: two places, two requests, two changes, limits low enough to be reached; for liveness
  one request and one change.
* Search: three places, each of five kinds (125 catalogues), two kinds of keyword, pages of
  one, one edit between the queries.
* Quiz: all 4096 sheets for the score, two submissions; the seeding inserts all eight types.
* Demo data: two demo users and one real one, two places, two runs, one crash: a rerun after
  a crash is the case that matters.

**Deadlock** is checked where requests always can come: `review_live`, `review_edit`,
`accounts`, `accounts_profile`. The others stop when their bounded events (actions,
calls, changes) are used up. `community` has parts that stop, so it does not check
deadlock; for reviews `review_live` does, and `RequestsEnd` says more.

## 5. Fairness

| specification | assumed | why |
|---|---|---|
| `ReviewRating!FairSpec` | strong fairness of the next step of each open transaction | PostgreSQL queues the waiters of a row lock in order, and a transaction in flight runs on; nothing is assumed about new requests |
| `ActionPipeline!FairSpec` | hooks run, tasks end, the batch runs on (weak); each message is taken in the end (strong, since workers are busy in between) | the broker hands messages out in order; the batch is scheduled nightly |
| `TourApiClient!FairSpec` | each request is answered, each sleep ends (weak) | every request has a time-out |
| `PlaceSync!FairSpec` | a run goes on (weak); the monthly unlimited incremental run starts again and again (strong) | the schedule of `place/tasks.py`. It is kept in the database of django_celery_beat: `place/tasks.py:3` speaks of CELERY_BEAT_SCHEDULE, which the settings do not define |
| `Accounts!FairSpec` | requests end, the purge runs, days pass (weak) | likewise; nothing makes anybody log in, which is why `LoginSucceeds` has it as its premise |
| `TagRun` in `catalog_live` | a run goes on (weak); the daily task starts again and again (strong, since a run of it may be under way) | the same schedule; a process runs on unless it crashes |
| `PlaceLists` in `catalog_live` | a request goes on, each entry of a cache expires (weak) | time-outs of five minutes and an hour; nothing is assumed about new requests |
| `PlaceRecord` in `catalog_live` | a program that works on the place goes on (weak); the back-fill is started again and again (strong) | an operator's command, stated as the premise under which the number arrives |
| `Quiz` in `catalog_live` | the list of types expires, a submission that was sent goes on (weak); its save gets the row lock in the end (strong) | the entry lives for a day; PostgreSQL queues waiters. Nothing makes a user submit again, or anybody seed: that the seeding is complete is the premise of the second half of `AnsweredInTheEnd` |

No fairness is assumed of any action of a user, of the source, or of a fault.

## 6. Proofs

The theorems hold for every value of the constants that the assumptions named in the
modules admit; TLC evaluates the assumptions in each run. They say

* of numbers: ratings within 1..5, a positive threshold, positive page sizes and limits,
  positive lifetimes, bounds that are natural numbers;
* of sets: model values are not members of the sets they stand beside ("no tag" is not a
  tag, a facility is not a region), and what the database can hold is finite (catalogues of
  the search, demo users and real ones, the tags of listed places);
* `EmailAssumption` in `Accounts`: the normalisation of addresses is idempotent;
* `RoutePlansAssumption` in `TravelRoute`, `ReadAssumption` in `RouteRead`: plans give no stops to
  a day they do not have, and stops have a place and an order;
* `UploadAssumption` in `Profile`: there are nicknames enough to begin with different ones;
* `RecordAssumption` in `PlaceRecord`: a version of a content names an image once and has one;
* `SheetAssumption` in `Quiz`: a sheet answers twelve questions with A or B;
* `ListAssumption` in `PlaceLists`: `Nearest`, the order of the distances, names each place once.

Hardly any of the invariants is inductive as it stands. What each needs in addition stands
at the end of the component's module or at the start of its section of a proof module:

**ReviewRatingProofs** (`TypeCorrect`, `RatingExact`, `KeysAlwaysHold`, `NoDeadlock`,
`NeverSetBack`).
That the copy is exact in committed states is not inductive: a transaction about
to commit must hold the rating of what it will commit (`AggregateExact`). It
does because it computed it under the place lock (`OneHolder`), because every
other transaction with pending rows of that place must still take that lock, and
because a transaction touches rows of its own place only (`OwnPlace`, `OpenedRow`,
`IdsNameKeys`). `UnratedPlaceGone` covers transactions that found no place.
Uniqueness needs the keys of uncommitted rows (`KeysHeld`, `RowsHeld`). `NoDeadlock`: review
rows are locked before the place row, and one place at a time, so whoever waits waits for a
transaction in a later phase (`WaitsAhead`), and the one furthest on waits for nobody. That
this one can take its step is said by `CanGo`, the guard of `Proceed` written out, as
`ENABLED` is out of the prover's reach; `ProceedGoes` proves that `Proceed` implies it,
and TLC finds the two equivalent in all states of two handlers, and in 1.9 million of three. `NeverSetBack`:
no step takes an open transaction back, so it needs at most four of its own.

**ActionPipelineProofs** (`TypeCorrect`, `VectorWaits`, `NoneStranded`, `CountIsExact`,
`AddedAtMostTwice`).
`VectorWaits`: the batch writes without looking at the count, but has selected the
user by a count that never falls (`BatchAfterThreshold`). `NoneStranded`: a message
carries no more tries than tasks have failed (`TriesPaid`). `CountIsExact`: without a
second delivery an action is in one place on its way (`OnePlace`), and so not
processed while a worker holds it (`NotYetProcessed`). `AddedAtMostTwice` rests on the same: `AddedStays`
fails (`pipeline_lost`) because batch and task do not exclude each other; the opposite error,
that both add one log, is bounded by one surplus, since a task adds what it marks
(`AddedMarked`) and the batch adds each row once (`BatchOnce`).

**TourApiClientProofs** (`TypeCorrect`, `BudgetsKept`, `LimitsKept`, `CallsShorten`).
`Accounting` ties the requests of a call to the attempt counter and says that keys
to come have not been asked. `LimitsKept` needs `RunsFresh`, about client and caller together:
until the keys are exhausted those that answered with a limit are behind the current
one, and an exhausted call belongs to a run that ends before the next. `CallsShorten` is what can be proved of a call's end: a natural number
below twice the requests that the keys allow gets smaller with every answer and every sleep. A new
key brings its retries with it, but the key given up was worth more (`StepShortens`). With the
fairness of `CallEnds` this number runs out.

**PlaceSyncProofs** (`TypeCorrect`, `DetailsCurrent`, `ComesBack`, `OnlyForward`,
`AlwaysAllSeen`). A step of
a run is one of six kinds (drops an item, deactivates, lists, takes, fetches, saves), which
is proved once (`StepEffect`).

* `DetailsCurrent` needs that lists are never ahead of the source (`ListsTrue`) and that
  details are fetched after the list (`DetailsAfterList`); it holds however many runs overlap.
* `ComesBack` needs in addition that a list that says hidden is newer than the row
  (`HiddenIsNews`), which another run can break: it assumes that there is at most one
  run, and `sync_overlap` shows that the assumption is needed. `OnlyForward` has the same
  assumption: a list in hand is never older than the row it is for (`ListsAhead`), nor are the
  details fetched for it (`DetailsBetween`), because nobody else saves in between. In the
  instance of `sync_overlap`, with two runs, TLC finds a row whose modifiedtime goes back.
* `AlwaysAllSeen`: `SeenInv` says that whatever a walk has not shown lies behind the pages
  it has read. The list of an incremental run only grows, so a rank in it never falls
  (`Behind` survives every change of the source); and a page with something behind it
  is full, so the walk does not end there. Ranks are cardinalities of what precedes a
  content, which is how the counting is done without an induction.

**AccountsProofs** (`TypeCorrect`, `RowsAlwaysFit`, `OnlyOwnRows`, `ReturnInTime`). A request
holds on to a primary key, or to a whole row, across statements of others. The invariant says what
may still be relied on: `RowsKnown` (a key that a request remembers, if it is in use,
is in use for the address it remembers) and `RequestsAgree` (two requests that
remember one key remember one address). The same two facts give `OnlyOwnRows`: a step writes
a row, recovered, withdrawn, edited or inserted again, only for the address that the row has. It
is what remains true where `WithdrawnStays` does not (`accounts_profile`): only an edit
that read the row before can undo a withdrawal besides a recovery. `ReturnInTime` bounds when:
`InTime` says of each request that is about to bring an account back how many days may have
passed since the withdrawal, and a midnight raises both sides by one.

**MemberProofs** (bookmarks, sessions, profiles).

* `OneBookmark`, `LogsAgree`. An insert finds the table empty when it runs; that this is so
  when it commits is what `MarkInv` adds: an insert that has not committed is alone, and
  the table is empty until then.
* `SessionTypeCorrect`, `RetiredForEver`. An entry leaves the cache by itself; that its token
  stays refused needs that an entry ends exactly when its token does (`EntriesExact`).
* `SignedInThenOut`. `SignInv` follows the newest pair from the request that makes it to
  its reply (`RequestPlaces`, `NewIsNew`): whoever retired the cookie in the
  jar has not answered yet (`JarSpent`), and what the browser has exchanged or logged out is
  refused (`SpentRefused`), so that a logout nothing overlapped leaves nothing that is accepted.
* `NicknamesDiffer`, `EveryImageAccounted`. An edit decides on the row it read and deletes the
  replaced object before its commit. `ProfileInv` says what is in the store at each of these
  points, for users whose edits have not crossed (`OneEdit`, `StoredSoFar`, `LeftSoFar`), and that
  an uploaded image belongs to one user (`KeysApart`); writers hold their nickname
  (`WritersApart`).

**CatalogProofs** (routes, tagging, rows of one place, lists, and the composition `MCCatalog`).

* `RouteTypesKept`, `RouteAlwaysSound`, `RouteRefines`. A rebuilding update decides what it deletes and
  what is new before it commits. `RouteInv` says that both are still true then
  (`StillCurrent`), because the update holds the row's lock from its save on, and because
  deletions and cascades wait for the days it has deleted. `RouteRefines` maps the commits
  to the steps of `RouteStore` and every other step to a stutter.
* `TagTypesKept`, `TagsAlwaysAsAnswered`. A tagging removes the tags, adds those of one answer
  and saves its vector in three statements. `TagInv` has `OneWriter` (unless runs have
  crossed on a place, one of them writes it) and `WriterKnows` (the tags it finds are none, or
  those it has just added); `AnswersRight` carries the guard rails from the answer to the row.
* `RecordTypesKept`, `RowsAlwaysAgree`. Five programs save what they read before. `RecordInv` says
  how old that may be: what a program holds is no newer than the source, and as new as
  the row unless it has been overtaken (`VersionsFit`, `WorkersFit`); of the
  images of the last save the first is the main one (`ImagesFit`).
* `ListTypesKept`, `ListsAlwaysComplete`. `ListInv` says of each request what it has found so far:
  tiers left behind had no place that was there all the time, and the ids it goes on with are
  all, unless there are as many as a limit (`Fits`). That pages are slices holds in every
  state: whoever is before the end of a page has at most `OverFetch` rows for each place before
  him (`RowsCounted`), so he is fetched (`FetchedEnough`), and nobody nearer is left out
  (`FetchedFirst`). It needs the premise of `PagesAreSlices`, no more than `OverFetch` tags.
* `CatalogParts`, `CatalogTypesKept`. A step of the composition is a step of one module and leaves
  the variables of the others alone; so the type invariants of the parts add up.

**CommunityProofs** (demo data, follows, lists of one member, search, quiz and its pages, routes
that are read, and the composition `MCCommunity`).

* `SeedTypesKept`, `SeedAlwaysSound`. The command has no transaction; `SeedInv` says for each
  statement which rows must be there by then (`FreshTagged`, `FilledSoFar`), what has been
  counted (`CountedSoFar`) and what is gone (`ClearedSoFar`).
* `FollowTypesKept`, `AlwaysSeenOnce`. `FollowInv`: who is older than the cursor is still to come,
  and nobody that was shown is among them.
* `ShiftsAlwaysBounded`. `OwnInv` counts what the list can still do (`Shifts`): rows seen and
  pushed behind the pages read will come again, rows not seen that moved up into them are missed. A row that
  comes into the list moves at most one over the edge, and so does one that goes. A page is cut
  at the count taken before it (`Cut`): rows behind all pages are no more than have been added.
* `SearchAlwaysConsistent`. Each page asks anew for the tier, the count and the rows. `SearchInv`:
  while nothing changes what was seen is the beginning of one order, since the id decides
  between equal ranks; whatever changes, a lower tier is read only when nobody who was
  there all the time has the keyword (`TierHolds`).
* `QuizTypesKept`, `ResultAlwaysSound`, `SharedPagesFit`. Five questions move each axis by one, so a
  score is odd and its sign never in doubt; the opposite sheet has the opposite signs, and
  the type follows from them. `QuizInv` says what a submission and a link hold of it.
* `PagesAlwaysTrue`. `ReadInv`: the days read so far are of one version of the route, and
  their stops are those of one plan without deleted places, or there are none
  (`DaysFit`, `StopsFit`).
* `CommunityParts`, `CommunityTypesKept`: as in CatalogProofs.

## 7. What is only model-checked

Liveness: `RequestsEnd`, `EveryActionProcessed`, `BatchCorrects`, `CallEnds`, `Converges`,
`GoneInTheEnd`, `LoginSucceeds`, `BacklogWorkedOff`, `HiddenInTheEnd`, `PhoneInTheEnd`,
`AnsweredInTheEnd`. Liveness under fairness is out of the prover's reach, so the bounds of the
runs apply to these.

`CallsShorten`, `NoDeadlock` and `NeverSetBack` are the parts of this that are safety: a call's
measure falls; while a review request is open one of them can go on; and who goes on comes nearer
the end. That they do go on is fairness, and stays with `CallEnds` and `RequestsEnd`.

Every invariant and action property of a passing run is stated by a theorem.

## 8. Disagreements between code and documentation

Shown by a run:

* `review_edit`: `admin_update_place` saves rating columns that it read without a lock;
  `rating_count` is documented as refreshed by every create, update and delete.
* `pipeline_lost`: the batch overwrites a vector that a task changed after the batch had
  computed its own; `processed` is documented as "reflected in the user's vector". The
  next batch puts it right (`BatchCorrects`).
* `sync_overlap`: a run that collects a place is documented to activate it; another run
  may deactivate it from an older page, and no incremental run takes it up again until
  the source changes.
* `accounts_profile`: a withdrawal is undone by a profile edit that was authenticated
  before it, where only a recovery should do that. After a purge the same save inserts
  the deleted row again.

Seen while modelling, with no run of their own (most are contained in the models, where a
history variable excuses them):

* Reviews. The purge deletes reviews without `update_place_rating`
  (`RatingExactUnlessBypassed` excuses these places until a review transaction). The loser of two
  concurrent reviews of one user answers 500 (the documentation says 409).
* Pipeline. A message that is delivered twice may be counted and added twice; the batch
  corrects the vector, nothing corrects the count. The batch and a task that is still
  pending may both add one log, until the next batch. The feed that has chosen the stage
  with a vector reads the vector again (`place_services.py:266`): a NULL stored in between makes it fail.
* Tour API. A spike answered with 429 moves through all keys without a pause and ends the
  run although no daily quota is used up.
* Accounts. A new Kakao id whose address is spelt with a domain in capitals never finds
  the user with that address, and each of its logins fails with 500: `LoginSucceeds` is
  stated for addresses spelt as they are stored. A recovery and a link of one Kakao id that
  overlap make the second answer 500. When the recovery window closes between the
  check of a login and its save, and the purge selects in that moment, the recovered
  account is deleted. The documentation has a separate recovery request, and 409 for a
  login within the window; the code recovers at login.
* Sessions. A login does not retire the refresh token of the cookie it replaces, and of two
  tabs that refresh at once one pair stays valid unused until it expires.
* Profile. A nickname edit that overlaps an image edit writes the URL of the deleted image
  back; an edit that fails after its delete leaves a row that names nothing; a quiz avatar
  leaves the uploaded image it replaces in S3.
* Follows. Withdrawn members stay in others' lists and counts. To follow a member who has just
  been purged is answered 409, as if the pair existed.
* Bookmarks. Overlapping deletes of one bookmark log UNBOOKMARK twice.
* Routes. An update of the dates alone leaves days outside the range
  (`route_services.py:72` has the check for requests with days). A page may show a
  route without its stops when an update falls between its queries. A route that
  was just created may answer 404 when it is deleted before it is read back. A keyword list
  decides anew on each page whether it searches for typing errors.
* Lists. The feed with tags lists places with any of them
  (`docs/feature_description.md:134` says all). The detail of a hidden place is served from
  the cache for up to an hour, although `test_place.py:820` expects 404. The popular list and
  the order by distance have no further key, so equal places may change their order
  between pages. With more than four tags in a request pages of `/places/recommend`
  come out short.
* Search. `get_place_list` chooses the tier before it looks at the tags, so keyword and
  tags together may find nothing although a lower tier has matches; the recommended order looks
  at the tags first (`docs/search.md:153-161`). A place is listed twice when its name has only
  the core of a keyword and two rows of the join match; no seeded tag has this effect.
* Rows of a place. Images that the source no longer has stay, and old main images stay main
  (`docs/tour_api_sync_spec.md:504` has one). The back-fill does not assign facility tags.
* Tagging. A crash between the statements of `persist_ai_result` leaves tags of one answer and
  the vector of another. One place whose answer has the wrong shape every time (a vector with a
  null in it, or JSON that is not an object) ends the daily run at that place every day, and no place
  behind it gets a vector; as many places that are refused every time as the daily limit do the same.
* Quiz. A list of types cached while the seeding runs makes submissions fail with 500 for
  a day; one whose own type is not seeded yet fails as well. Share links are made of any type and vector, which the shared page does not compare. A place
  without a style vector among the three recommended ones makes its page fail.
* Demo data. A dead run leaves ratings uncounted that no rerun repairs, and users without
  tags; routes accumulate with each run. The removal of stray travel types is refused by
  the database while a result refers to them.

## 9. What is not modelled

* Dry runs, summaries and progress output. A content that changes its type at the source, and
  a list that changes its order while it is read: the code asks for an order by
  modification date in one command, for which `AllSeen` would not hold; a later
  incremental run makes up for it.
* `admin_create_place`, and images that an administrator uploads; edits of `is_active`
  in the administration site.
* The time at which the images of an item are fetched: `SavePlace` takes those of the version that
  the list had, which the main image is from; `detail_image` asks later.
* The weights, decay and normalisation of preference vectors, the ranking of the feed and the
  numbers of AI vectors: arithmetic on floating-point vectors.
* Map and categories: queries, one call of a routing service whose answer is passed on, and a
  command that writes names of categories to a file.
* Permissions and errors: pure functions of a request. Schemas, serializers and the pages of
  the administration site: declarations and rendering. Evaluation commands: run once
  on a development database.
* Texts: titles, prompts, biographies, descriptions of quiz types, the words of a keyword.
* `build_keyword_q` over other models than places and routes, and the search without
  PostgreSQL, which has no tier for similar names.
