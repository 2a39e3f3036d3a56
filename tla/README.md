# TalkWithData in TLA+

TalkWithData publishes HTML dashboards. Users upload them or have an AI build
them, edit and refresh them, give them friendly links, and attach small
databases to them. It is a Next.js server without a process of its own per
dashboard: every request is a handler that reads a document, awaits a dozen
calls to Firestore, to object storage, to Postgres or to an AI provider, and
writes. Nothing serialises two handlers, only some steps are transactions, the
stores share none, and a process may die between any two calls. These modules
model that: a handler is a small record with a program counter, one action is
one call that changes or reads shared state, and every interleaving, failure
and crash between them is a behaviour.

Paths below are relative to `app/src/`.

## The system

| Component | State | Operations | What makes it hard | What makes it correct |
|---|---|---|---|---|
| Dashboard content (`lib/versions.ts`, `api/dashboards/[id]/{replace,versions}`, `api/ai/save`, `lib/dashboard-refresh-worker.ts`) | `dashboards/{id}`, its files, `versions/{n}` and their files | replace by HTML or ZIP, restore, AI update, refresh, delete, archive with FIFO clean-up | handlers work from a snapshot of the document; storage and Firestore are separate; two writers overwrite one stable path, the others create revisions | viewers get complete uploads with their own metadata; nothing published is lost; versions never change |
| Refresh (`api/dashboards/[id]/refresh`, worker, `lib/dashboard-refresh-status.ts`, `app/view/[id]/page.tsx`) | lease, job status and `lastRefreshedAt` in the document; the page's polling | claim, mark, work, complete or fail, poll | the lease is time based, nobody owns it, the worker runs after the response | one worker at a time, one refresh per hour, the page is told the truth and in the end something |
| Governed prompts (`lib/firestore/prompts.ts`, `lib/prompt-registry.ts`) | prompt document, versions, a cache in every process | draft, publish, restore, invalidate, resolve | optimistic transactions; cache fills that are overtaken; lost acknowledgements | gapless history with one active version; bounded staleness |
| Slugs (`lib/slug.ts`, upload, AI save, rename, delete) | `slugs/{slug}`, the `slug` field of documents | reserve with suffixes, rename, release | reservation and document are written apart; releases are unconditional | a link leads to one dashboard; slugs come back |
| App databases (`lib/app-db/*`, provision, save, delete, clean-up) | instances and table rows in Postgres, physical tables, the summary in the document | provision, create table, save (create, edit), activate, re-key, delete, clean up | two databases, no common transaction; a clean-up that works from a list | saved data stays, registered tables exist, the document does not lie |
| Data sources (`lib/data-sources/firestore.ts`, `inspection-token.ts`, admin routes and their form) | source documents with a configuration version, forms and inspections under way | edit the form, inspect, create, update, delete | a token is bound to a version that may change; an answer may come after the form has changed | what is stored was inspected; nobody's change of the configuration is overwritten unseen |
| Dataset queries (`lib/data-sources/{query,duckdb-engine,sync-cache}.ts`) | loaded tables, loads in flight, use counts, the byte count | query, load, join a load, evict, answer, time out | awaits between looking up, using and evicting; the configuration is read twice | no use of a closed table, the limit is kept, and no answer that a direct reading could not have given |
| Fields (`api/dashboards/[id]/fields/*`) | a row per field, its value, the audit rows | save a schema, save values, delete with the dashboard | validated against what was read before the transaction | values fit their type, the audit ends with what is stored, nothing is emptied by accident |
| Departments (`api/admin/departments`) | a document per department with its members, each user's department | create, rename, move, delete | a member at a time; names are checked before they are written; two records of one fact | both records agree, names are unique |
| Thumbnails (`functions/generate-thumbnail`, `lib/thumbnail.ts`, `api/dashboards/[id]/thumbnail`) | the path in the document, the pictures in the bucket | call and forget, generate, upload, delete the old one | nobody waits, generations overlap, each deletes what it read | the document never names a deleted picture; in the end the picture is of the current content |
| MCP servers and access, users and roles, categories, folders, conversations, AI secrets, views | one or a few documents each | mostly single writes | read-modify-write of lists | see the hazards in `PROJECT.json` |
| SQL guard, HTML rewriting, permissions, field validation | none | pure functions | parsing | not modelled: no state, and their tests enumerate inputs |

The components meet in the dashboard document. The refresh worker publishes
through the content archive and resolves governed prompts; AI save creates
files, slugs and databases in one handler; delete undoes all three in
sequence. Each meeting is modelled in the module whose state it endangers: a
publication is a handler of `DashboardContent` and, in `Thumbnails`, one step
that calls the function; an edit of a source is a protocol in `SourceEditing`
and one step in `QueryEngine`; the deletion of a dashboard appears in five
modules with the calls that concern each.

## Modules

| Module | Models |
|---|---|
| `DashboardContent` | the document, live files and archive of one dashboard under six kinds of handlers |
| `LiveContent` | the abstract promise to viewers that `DashboardContent` implements |
| `MCDashboardContent` | its instances for TLC |
| `RefreshLock` | lease, handler, worker, page and clock of one dashboard's refreshes |
| `PromptRegistry`, `MCPromptRegistry` | one prompt, its administrators, caches and resolvers |
| `SlugRegistry`, `MCSlugRegistry` | all dashboards' slugs and the reservation index |
| `AppDbLifecycle`, `MCAppDbLifecycle` | instances, tables and summaries of AI apps |
| `QueryEngine`, `MCQueryEngine` | dataset queries of one server process, their cache and the configurations they read |
| `DirectQuery` | the abstract query without a cache that `QueryEngine` implements |
| `SourceEditing`, `MCSourceEditing` | administrators' forms, inspections, tokens and the transaction that stores a source |
| `FieldValues`, `MCFieldValues` | the custom fields of one dashboard, under saves of schemas and of values |
| `Departments`, `MCDepartments` | departments, their members and the users' own records |
| `Membership` | the abstract department list that `Departments` implements |
| `Thumbnails`, `MCThumbnails` | the picture of one dashboard, its generations and uploads |
| `*_proofs` | theorems about the module they extend |

### DashboardContent

`doc` holds the fields that matter of `dashboards/{id}`: which object it points
to, whether it describes a package and under which prefix, and the contents its
search text and its size were taken from. `live` maps the stable path and one path per
revision to a content, to `Absent` or to `Partial` (a package some of whose
files are missing). `replacedAt` and `verSize` are the version documents (a version has the size
that was in the archiving handler's snapshot) and `verFile` their files, kept
apart because they are written and deleted apart. A content is the number of the
operation that uploaded it. There are two history variables: `owed`, the single
files that were published and that the archive therefore owes, and `overlap`,
which says that two handlers have been at work at once.

A handler starts by taking its snapshot of the document (`Start`), then
archives (`SurveyVersions`, `CopyToVersion`, `RecordVersion`, `EvictFile`,
`EvictDoc`), uploads (`UploadHtml`, `UploadZip`, `UnpackZip`, `CopyFromVersion`, `UploadInPlace`), publishes (`Commit`) and
cleans up (`Cleanup`); a delete removes the document and then the files
(`Unlist`, `Purge`). Every call has a failing sibling that takes the code's
error path: the abort of an archive that cannot copy, the roll-back of a
revision that cannot be published. `Commit` and `Cleanup` work with the
snapshot, as the code does.

With writers that create revisions, the module implements `LiveContent`: what is
served, its search text, its size and its package change together, in one step,
to those of a complete upload. The refinement mapping reads the served content
and the package through `doc` and `live`. `LiveContent` says what the code keeps
and names what it does not:

- the text of a package is read back after the upload, and a failure of that
  read is swallowed (`replace/route.ts:182-192`), so it may be empty;
- a single file that is published clears the fields of a package only if the
  handler's snapshot had them (`Committed`), so over a package it has not seen it
  leaves them in place;
- a restore publishes the size that the version document had when it was chosen
  (`PickVersion`), which is that of another file if the version was archived from
  a snapshot that no longer held.

The last two need handlers that overlap, and `overlap` is the exception the
specification makes. With three operations the run reaches the second; the third
takes four (two overlapping replacements, a third one that archives, and a
restore), so that it is the theorem that covers it.

### RefreshLock

Time is relative: `lease` counts down, `age` and `since` count up and are
capped where they stop to matter, so time is unbounded although the state space
is finite. A handler reads the clock before its transaction, and `elapsed` is
how old that reading is. `Claim` is the transaction; `Mark` the update that
sets the job to running and starts the worker; `Complete` and `Fail` its ends;
`Poll` and `PollThrows` are the page's. `Save` is an edit, which sets
`lastRefreshedAt`. `MaxRun` bounds a handler with its worker: nothing in the
code does, so what is shown of the lease is shown for workers that end before it
runs out (a hazard with a note).

### PromptRegistry

A Firestore transaction is `ReadSummary` and a `Commit` that goes through only
if the prompt's document is unchanged, otherwise `Conflict` reads again, as the
client library does. Resolving is `Hit`, or `Miss`, `ReadActive` (or
`ReadFails`) and `Fill`, with the clock reading that the code takes first, and in
each case ends with `Rendered`: a text in which a variable is unknown
(`Contents \ Renders`) is answered by the fallback, although it is the one that
is cached and active. Publishing and restoring refuse such a text (`Valid` is a
part of `Renders`), but the active version may be one that an earlier release
accepted, with a variable that has been withdrawn since. An administrator's `Invalidate` concerns the instance that served the request.
Version 0 is the fallback in the code.

### SlugRegistry

A transaction of `slug.ts` or of the rename is one step. `Candidates[n]` is
the name with the suffixes that are tried in order, and two names may share
candidates, as when somebody names a dashboard `sales-2`. `ReleaseSlug` deletes
a reservation without looking whose it is, as the code does.

### AppDbLifecycle

An instance is named by the id it was provisioned under, which its table prefix
keeps, and `key` is the dashboard it belongs to now. `target` is what the
builder session of the draft will save: a new dashboard or an existing one.
`old` says that `updatedAt` is more than a day ago. `SaveDraft`, `WriteDoc`,
`Activate`, `SetActive`, `Summarize` are the create mode of the save; `Update`
and `Rekey` the edit mode with a draft; `UpdateOwn` the edit mode with the
dashboard's own database. `CleanUp` takes the list and `CleanOne` drops the
tables of one instance of it; `MarkOrphaned` writes all that were dropped, in
whatever state they are by then. A draft may be saved, re-keyed and used at any
age and while it is on a clean-up's list, since the handlers look at its status
only; a dashboard may be deleted while a chat works on its database.

So saving a draft does not by itself keep its tables. What keeps them is that the
instance is active and that no clean-up under way has listed it, which is
`Secured`: from then on they stay until the dashboard is deleted
(`SecuredDataKept`). A draft that is saved while it is listed loses its tables to
the rest of that clean-up, and one whose activation failed
(`api/ai/save/route.ts:185-187`) is still a draft and loses them a day later.
`cleaned` remembers the instances whose tables a clean-up has touched, and
`RegisteredExist` and `SummaryTrue` except those.

`SavesTwice = FALSE` excludes one thing that the API allows and the builder does
not (it disables its button): saving one draft by two requests at once.

### QueryEngine

JavaScript runs from one await to the next without interruption, and that is
one action. A query is authorised with one reading of the configuration
(`Authorise`), located with another (`Locate`), reads the file's metadata and
its bytes (`ReadMetadata`, `Download`) and then finds a cached table (`Hit`), a
load in flight (`Join`) or starts one (`StartLoad`). `EndLoad` stores the table,
evicts others and hands it to all who wait in one action: the continuations
of one promise run one after the other before anything else does. `Answer` and
`FailQuery` release the table; a timer that interrupts DuckDB is one of the ways
to fail. `older` is the order of the cache's `Map`, in which a hit re-inserts.
Configurations and files change at any time (`Edit`, `Delete`, `Upload`).

`DirectQuery` has no cache: a query is answered from one content of the file
that its source named on the way, scoped by the owner column it was authorised
with, or it is refused. The refinement mapping hides waiting and using behind
"read".

### SourceEditing

A form is what the administrator sees: which source, which place, and a
credential that was typed or `Kept`. Its other fields, the owner column, the name
and the grants, may be anything at any time, and are chosen when it is saved. An
inspection is `Inspect`, `Resolve` (the
server reads the document for the version and the stored credential),
`ReadHeaders` and `Accept`, which drops an answer to what the form no longer
says. `TokenFits` is the verification inside the transaction of `Update`. `Written`
stores all that the form sends and counts up the version if the `Configuration`
differs: place, credential, owner column or grants, but not the name. `proof`
remembers which inspection the last save presented and `behind` whose inspection
has been overtaken by somebody else's change of the configuration. A rename
overtakes nobody: a form that was opened before it puts the old name back.

### FieldValues

`Check` and `Read` are what the handlers await before their transactions;
`SaveSchema` and `SaveValues` are those transactions. They only write, to rows
named by a key or an id, so each is one step; overlapping requests write on top
of what they read earlier. Ids are not reused, so a value for a field that was
removed and made again fails on its foreign key. `Sanitized` is what a type makes
of a text, and may be the empty string: a MULTI_SELECT accepts "," and stores "",
also in a required field (`lib/field-validation.ts:43-56`), which `ValidForField`
and `NotLost` therefore admit (`Fits`). `stale` holds the keys whose
last writer had read a type that another request had replaced by then.

### Departments

Every member is moved in a transaction of its own, one step each, and a request
may die between two. Names are checked in a query and written later. `raced`
remembers names that two requests were about to write at once. `Membership` says
the same of people: everybody is in one department at most and goes from one
to another in one step.

### Thumbnails

`stored` maps each content that was published to the path it was stored at: a
path of its own, or the stable one, over which a download may find something
newer than the document it read. `called` counts the calls on their way.
`Generate`, `Download`, `Save`, `Update`, `Forget` are the function's awaited
steps; `Upload` starts the owner's request, which shares the last three. Paths
contain the time, which is taken to differ between any two pictures of one
dashboard. A restored version calls nothing (`versions/route.ts`), so its
picture stays that of the content before it until the next publication.

## Runs

"Pass" runs explore the whole state space within the bounds.

| Run | Bounds | Shows |
|---|---|---|
| `content_serial` | one handler at a time, five operations, limit of two versions, all failures of calls, lost acknowledgements and crashes | a published file is served, archived or evicted, never lost; the archive keeps its limit; versions are immutable; a restore keeps its source; eviction is by age |
| `content_revisions` | three handlers at once, three operations, ZIP and HTML replacement, restore and delete, failures, ignored deletes and crashes | the document never dangles; `LiveContent` is implemented: no viewer gets a mixture of two uploads, but for what the section above excepts |
| `content_refresh_race` (violation) | a replacement and a refresh | the refresh republishes the stable path while the replacement deletes it |
| `refresh_faults` | two attempts, a lease of three ticks, workers of up to two | one worker; one refresh per interval; truthful pages; refreshes become possible again; pages settle |
| `prompt_editors` | two administrators, one resolver, three versions, two clock values, one text with an unknown variable | history and bounded staleness |
| `slugs_requests` | three dashboards, two colliding names, two handlers, one per dashboard at a time | unique, reserved and returned slugs |
| `appdb_requests` | two ids, one table, two handlers, drafts of any age, failing calls and drops, crashes | what is active and on no clean-up's list keeps its tables; registered tables and the summary are true where no clean-up was earlier |
| `queries` | two queries, one source with two versions, two contents of which one fills the limit, four tables | no table is closed while it is used, nothing leaks, eviction is by age and by need, `DirectQuery` is implemented, every query ends |
| `source_edits` | two administrators, one source with three versions, one place, two credentials, names and grants, two contents | what is stored was inspected as it is; no save writes over a change of the configuration made after its inspection |
| `fields` | three requests, one key that is made twice, two types, four values of which one is stored as the empty string | values fit their types, the audit ends with what is stored, nothing is emptied by accident |
| `departments` | two administrators, two users, two departments, two names | both records of who is where agree, names are unique unless raced, `Membership` is implemented |
| `thumbnails` | three workers, three contents, three pictures, lost calls and failures at every step | no deleted picture is named, none is forgotten, the last one is of the current content |

Why the bounds are enough. Five operations with a limit of two versions reach
the archive's overflow, a crash in an eviction and the next eviction that has to
repair it. Races between handlers need two, and a third that observes; three
revision writers also reach a delete between the others' uploads and commits. A
lease of three ticks separates "before", "within" and "after" for the two
attempts, their clock readings and the page's patience. Two clock values with a
TTL of one tell fresh entries from stale ones, and three versions a restore of
the oldest from one of its neighbour; more time or resolvers are the subject
of the theorem. Two colliding names with suffixes give every pattern in which
one dashboard's candidate is another's name. Two ids give an app of its own and
a draft that is re-keyed to an existing dashboard. Two queries suffice to use,
wait for and evict the same table, with a small content next to a large one so
that room is made and is not; a second version makes keys differ. Three versions
of a source give two saves after an inspection; one place keeps the run small, so
that a change of the place itself is covered by the theorem only. A third request on fields lets
two writers fall behind a third one. With two users and two departments every
move has a rival, and a department of its own to leave. Three workers are a
slow one, a fast one and the owner, with a content for each. The proofs remove
the bounds where they exist.

`CHECK_DEADLOCK FALSE` is set where operations are bounded (content, fields,
thumbnails) or where a system at rest is legal (all dashboards deleted).

Symmetry is used in runs without liveness properties only.

## Fairness

Two modules state liveness. `RefreshLock`'s `Fairness` lets time pass, handlers
and workers that started go on (the calls they await return or throw) and the
page's timer fire; it does not assume that a claim succeeds, that a job
completes, or that users ask. `RefreshableAgain` and `PagesSettle` hold in
spite of crashes because the lease runs out by itself and because the page
counts its own time. `QueryEngine`'s lets a handler that is not waiting for a
load go on, and every load end, well or badly; DuckDB is interrupted by its own
timer. It does not assume that a load succeeds, that anybody asks again, or
that configurations stay as they are. `Settled` then says that nobody waits for
a load whose end he does not hear of.

The other modules state none: their handlers may stop anywhere, and what
they leave behind is what the properties are about. A generation of a picture
is called once and forgotten, so nothing about it must happen.

## Theorems

All are checked by TLAPS, for every value of the constants allowed by the named
assumptions of the modules.

- `DashboardContent_proofs`. `TypeCorrect` and `NoHalfPackage` hold for every
  number of handlers and operations and for all faults. The invariant `TInv`
  adds to the types what a handler knows at each step: the path of a revision
  is nobody else's, and what it is about to publish or to archive is complete.
  `PointerNeverDangles` and `Refinement` assume that all writers create
  revisions and that no acknowledgement is lost. Their invariant `SInv` adds
  that nobody who may still delete a path can delete the one being served:
  clean-up paths are older than the document's, roll-back paths were never
  published, and neither is the prefix of a package that the document still
  describes (`Apart`). `Alone` says what holds while no two handlers have
  overlapped: the snapshot is what the document says (`Current`), and the document
  and the versions have the sizes of their files (`Sized`, `Sizing`). `Refinement` rests on two lemmas: a step that publishes or unlists
  is the abstract one, and every other step leaves what a viewer gets alone.
  `ArchiveBounded`, `VersionsKeepContent`, `RestoreKeepsSource` and
  `OldestEvictedFirst` are about the archive. They assume one handler at a time,
  since two would archive under one number; deletes that are not ignored; and a
  limit above one if there are restores, which protect a version besides
  (`OneAtATime`). Calls may still fail, lose their acknowledgement or be cut off
  by a crash, and handlers may be of all kinds. Their invariant `OrderInv` follows
  a handler through the archive: the next number is free and what it will evict
  is the oldest (`Survey`), what remains is within the limit (`Trimming`), the
  version a restore has chosen stays (`SourceListed`). It does not mention the
  evictions a crash left unfinished, since the next survey counts them as well.
  `ContentKept` excludes packages in addition (`SerialHandlers`): a ZIP replacement
  archives nothing, and one whose acknowledgement is lost leaves the file it
  replaced neither live nor archived. `ContentInv` says that the handler's
  snapshot still holds (`Snapshot`), that a version loses its file before its
  document (`Emptied`), and that before anything may replace the live file, all
  that is owed is in the archive (`Safe`). No bound on operations or versions is
  left.
- `Jobs_proofs`, about `RefreshLock` and `Thumbnails`. `Exclusion`, `RateLimit` and
  `ToldTrue` assume `MaxRun < Interval`. The invariant relates the lease to the
  clock reading of whoever works: as long as it works, the lease it took has not
  run out for any reading. `ToldTrue` adds `TruthInv`: without a save the
  document's `lastRefreshedAt` is when the last refresh was (`SaveUnseen`),
  whoever has asked within an interval of a refresh knows of one (`AskedKnow`),
  and a job that is completed while a page waits was completed since it asked,
  except between a claim and its mark (`JobTrue`). That exception is where the
  property could fail: the old job's "completed" is still there, but so is the
  new lease.
  `PictureThere`, `PictureKnown` and `PictureCurrent` need no assumption. Nobody
  excludes two generations; what helps is that a path is chosen once. So a
  picture that is not named yet is known to its worker only and what a worker
  deletes is not named any more (`Apart`), and as long as the document has had no
  picture of the current content, a call or a worker with that content is on
  its way (`Coming`).
- `PromptRegistry_proofs`. `History`, `Restoration`, `Preservation` need only
  that a commit compares what it read. `Staleness` has an invariant that dates
  every cache entry and every fill under way: whatever it holds was the newest
  version at or after the time it is stamped with.
- `SlugRegistry_proofs`. `Uniqueness` assumes that handlers of one dashboard
  do not overlap, that no write is reported as failed after it was made, and
  that no two renames fall back in the same millisecond. Its invariant says
  what each handler holds at each step; it gives `Reservation` as well. `Returned`
  adds a second part that counts every reservation as some dashboard's or some
  handler's, and assumes in addition that no handler died.
- `AppDbLifecycle_proofs`. `TypeCorrect`, `NothingMissing`, `SummariesTrue` and
  `DataKept` assume `~SavesTwice`: no draft is saved by two requests at once. Handlers share
  only the registry and the documents, so the invariant has a part about those
  (`Data`) and a part about what each handler may still rely on between two
  calls (`Ok`): the instance it works on is usable, or its dashboard is deleted or
  a clean-up has been at it; the tables it has made are there, and those it will
  mark as orphaned are among the cleaned. `Keeps` is what
  every step leaves to the other handlers; each action is shown to keep it once
  (`Others`, `Compose`), instead of once for every pair of actions. `SummaryTrue`
  and `RegisteredExist` are not inductive alone: that a summary is true depends
  on a draft being re-keyed only to a dashboard without a database, which
  depends on who is keyed with what (`Keys`, `OneKey`).

- `QueryEngine_proofs`. `NeverClosed`, `Types` and `Refinement` hold for any number
  of queries, sources and tables and any limit. The invariant says that use
  counts count the users (`Counted`), that whoever waits or uses has found the
  table under its own key (`Linked`), and that everything anybody holds of one
  version of a source agrees on the owner column, because versions count up and
  never come back (`Past`, `Agreed`). Without the last part a hit might be typed
  for another column than the one the query was authorised with. `NoLeak` and
  `OldestEvicted` are about the cache (`CacheInv`): it is finite, its byte count is
  the sum over its tables, its order is total, whatever is loading is waited
  for and no key has two tables. `Bytes` is a fold over a set; the laws of such
  sums (they do not depend on the order, and add up over disjoint sets) are
  proved first, by smallest counterexamples in place of induction.
- `Editing_proofs`, about `FieldValues` and `SourceEditing`. `Types_hold`, `Validity`,
  `AuditTrail` and `Retention` hold for any keys, types and requests; what is
  assumed of validation is that what it stores it accepts again, unless it is
  the empty string.
  `StoredInspected` and `NoLostUpdate` hold for any administrators, sources and
  versions. What an inspection found is true of the stored source only as long
  as the version it named is the last, and the invariant says so of the
  inspection under way (`Pending`) and of the one on display (`Displayed`); both
  are of the source whose form is open (`OneSource`). Whoever is overtaken holds
  an older version, so the transaction refuses him.
- `Departments_proofs`. `Types_hold`, `Agreement`, `Naming_unique` and `Refinement`
  need no assumption but that "nobody" is no department. The refinement rests on
  `Agreement`: a user who is on at most one list moves from one to the other in
  one step.

Every proof module also proves the types of what it is about (`Types`, `Types_hold`,
`TypeCorrect`, `SourceTypes`, `PictureTypes`), whether or not a run checks them.

Every safety and action property of a passing run, and every refinement, is thus
a theorem as well. Only model-checked are the liveness properties
`RefreshableAgain`, `PagesSettle` and `Settled`, since TLAPS handles neither
fairness nor ENABLED. The conditions of the theorems (`RevisionWritersOnly`,
`OneAtATime`, `SerialHandlers`, `ShortRuns`, `Orderly`, `~SavesTwice`) are met by the
instances of the runs. Each excludes something that the code allows and that
would break the property: overlapping archives, in-place writers, lost
acknowledgements, ignored deletes, workers that outlive their lease, drafts saved
twice at once. Those that matter to users are the hazards with a note.

## Where the code and its documents part

`content_refresh_race` shows that a document can be left pointing at a deleted
file, which a comment in `replace/route.ts` excludes; it is the entry under
"findings" in `PROJECT.json`. Other weaknesses that the models exclude by an
explicit parameter or a history variable are hazards with a note: overlapping
replacements lose a file, a lost acknowledgement makes a handler delete what it
published, a worker may outlive its lease, two renames in one millisecond share
a slug, a table created during a delete is never dropped, a restored version
keeps the picture of the content before it, and two departments may get one name.

Elsewhere the properties say no more than the code keeps:

- the clean-up is for orphaned drafts, but drops the tables of a draft that is
  saved while it is on its list, and of a saved one whose activation failed;
- `versions/route.ts:106-108` clears the fields of a package so that no single
  file is left with a stale `isMultiPage`; it goes by its snapshot, and a package
  published since is left described;
- a source's version does not count its name, so that a save undoes a rename
  that somebody made after the form was filled;
- a required MULTI_SELECT accepts "," and stores the empty string;
- an active prompt with an unknown variable is answered by the fallback for as
  long as it is active.

## What is left

In the order of their worth:

1. `AppDbLifecycle`: columns, and that abandoned tables are dropped some day
   (under strong fairness of the clean-up; with one id, because the liveness
   graph of two is too large).
2. Viewers: a request that reads the document and then a file that a replacement
   deletes in between fails although the dashboard exists.
3. MCP tool lists and categories, of which only that they lose concurrent
   edits could be said.

## Not modelled

Pure functions (SQL guard, HTML rewriting, permissions, field validation, CSV
parsing), the conversation with AI providers and MCP servers, presentation,
observability, deployment. Most of the repository's lines are of these kinds: a
quarter is the generated Prisma client, another one pages and components, and the
routes around the modelled handlers check permissions and shape JSON. Of the
rest, components that are single overwrites of one document are listed in
`PROJECT.json` with their reason; a model of them would restate the code and
could not be wrong.
