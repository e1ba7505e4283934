# Prompt Vault in TLA+

This directory is a verification development of Prompt Vault: TLA+ modules of
its stateful parts, TLC configurations that check them on small instances, and
TLAPS proofs of theorems about them for every value of the constants. Each
module is translated from the TypeScript, SQL and Rust sources; line numbers
below are those of the repository at the commit beside this directory.
`PROJECT.json` is the machine-readable index: components, runs, mutants, the
map from definitions to source lines, findings, hazards and theorems.

## 1. The system

Prompt Vault keeps a library of prompts, each with metadata, tags and an
append-only history of versions. Several front ends use one service over one
SQLite file, with a second SQLite file (the "sidecar") for tags:

```
 CLI      HTTP router    MCP tools        browser pages          Tauri window
   \          |             /             (promptApi.ts)              |
    \         |            /                |        |                |
     +--- PromptVaultService ---+      HTTP |   in-memory store  Rust commands
     |        |                 |           |   (fallback)            |
     |   PromptRepository   platform-core   v        |                |
     |   RecoveryRepository     |        router  background poll      |
     |        |                 |                    |                |
     |   main SQLite file   sidecar SQLite file   server         native SQLite
     +--- SyncService --- working tree --- git remote
```

### Components, their state and what makes them correct

| Component | State | Operations | What is hard | Correct when |
|---|---|---|---|---|
| Prompt tables (`repositories/PromptRepository.ts`, migrations) | `prompts`, `prompt_versions`, `tags`, `prompt_tags`, full-text index with six triggers | create, add version, update metadata, trash, restore, purge, tag edits, format change | the index is a second copy of titles and latest bodies; rowids are used again; versions are ordered by whole seconds, then rowid; checksums cover a row of which an update writes a part | no dangling key, exact index, checksums match, history append-only, newest version wins |
| Shared database file (`db/connection.ts`, all processes) | the same tables, one call per process | the methods that run several statements outside one transaction | WAL and a busy timeout let several processes write between the statements of another one's call | as above; each call changes one prompt in one respect |
| Schema migrations (`applyMigrations`, eight `.sql` files; `main.rs`) | schema objects, `user_version` | start, one statement at a time, inference of the version | statements commit one by one; a crash, a thrown statement; two runners, in TypeScript and in Rust, for one file | a process that is ready has every object its queries need; a restarted process gets ready |
| Backup and restore, Node (`domain/recovery.ts`, `RecoveryRepository.ts`) | library, file, plan | export, preview, execute under three policies | the library changes between preview and execution; a plan is sent twice; a write fails half-way; the trash is invisible to the plan | a restore does what its preview announced or nothing; only the limits on a file's size and a copy's title can refuse the next export; a fresh plan commits |
| Backup and restore, native (`src-tauri/src/main.rs`) | the same over rusqlite, the recovery section of the page, copies of an earlier database | export, preview, execute; the same from the database of an earlier application | the earlier application writes while its files are copied; other processes write to the library; files change between preview and restore | what is read from the earlier database held at one moment; a restore does what was shown; what is exported is a valid file |
| Native commands (`main.rs`) | one connection behind a mutex | create, version, update, delete | one command is several statements outside a transaction; another process has the file open | a deletion removes; a deletion cut short does no further harm |
| Tag service and sidecar (`PromptVaultService.ts`, `lib/platform-core.ts`) | prompts in the main file, tags and taggings in the sidecar | create, update, tag, untag, project tags, tag filters | no transaction spans the files; a call awaits between statements; any of them may fail | calls that overlap leave the labels they agree on; tag rows do not multiply |
| Browser fallback (`desktop/src/services/promptApi.ts`) | in-memory store, its persisted copy, a fallback flag | local edits while the server is away, background push every 5 s | overlapping pushes, lost answers, edits during a push | a local prompt leaves the store only once its slug is on the server; memory never shows what a reload would lose; pushes drain the store |
| Git synchronisation (`SyncService.ts`, `GitService.ts`) | working tree, remote | export, import, push, pull | a crash between clearing and writing; a merge left in conflict; two vaults that choose one slug; edits during an import | what is sent is one whole export; a pull that ends has imported every file, under its own prompt |
| Bundles, bulk files and tools (`PromptVaultService`, `lib/promptService.ts`, `tools/index.ts`, `cli/index.ts`) | tables, a bundle file, a directory | loops of lookup, then create or add a version; listing, then labels one by one; read, then write | awaits between lookup and creation; one item of several fails | an import that stops leaves a prefix; an export reports what it wrote, and all there was |
| Snapshots (`domain/snapshot.ts`) | a text file of SQL | dump, restore | restore deletes tables outside a transaction | see section 5 |
| Legacy tag migration (`lib/legacy-tag-migration.ts`) | the tag database of an earlier application, the sidecar | read, merge, repeat | the source goes on; the application has labels of its own in other spellings | who was tagged stays tagged; repeating changes nothing |
| Search (`searchPrompts`, `advancedSearchPrompts`, the front ends) | none of its own | paging, totals, tag filter, matches | total and page are two statements over different rows; others reorder the list between two pages; three limits of matches | pages cover what was there throughout; only what was asked for is shown; no room is wasted |
| Diagnostics and repair | latest versions, formats | find texts their parser refuses, give them a format | other calls run between diagnosis and repair | after a repair every latest text is one its parser accepts, but for those it accepts only once trimmed |
| Rate limiter, authentication, audit log (`web/*.ts`) | windows per key, tokens, a bounded list | count, verify, append | the boundary of a window; the lifetime of a token and the skew; the log at its limit | at most two windows' worth passes in a window's time; nobody writes without the key; the log holds the newest changes |
| Server lifecycle (`server-internal.ts`, `observability/healthServer.ts`) | readiness, resources | listen, drain, close | a second signal; connections that do not end | ready only while it can serve; closes in order; a signal ends the process once clients leave off |
| Desktop pages (`PromptListPage.tsx`, `LibraryPage.tsx`, `EditPromptPage.tsx`) | lists, filters, ticks, pending favorites, a form and what it was opened with; calls under way | load, search, tick, change in bulk, toggle a favorite, edit, save | answers in any order, after the page was left or the list replaced; changes shown before they are stored; bulk loops and saves that stop half-way | a page at rest shows what its source holds (the native vault, a page of the server, a browser's memory) and what its filter selects; a save writes what its user changed, and splits labels that hold a comma |
| HTTP router, MCP server, command line | requests under way | decode a request and call one service method, or several | only those that call several, page, or read and then write | in the modules above |
| Plugin host, local update planner, telemetry, conversion, scripts | registries, counters, none | call, count, classify; text to text | – | not modelled, section 6 |

Interactions: the service is the only writer of the main file from Node besides
the restore transaction; both run synchronously inside one process
(better-sqlite3), so within a process only an `await` lets another call in, and
between processes only the end of a transaction or of a single statement does.
Every module below splits its actions at exactly those places.

## 2. The modules

| Module | Models | Extends / instantiates |
|---|---|---|
| `PromptLibrary` | abstract specification: a library of prompts, one atomic change per call | – |
| `PromptRepository` | the tables, the index and its triggers, one action per repository method | `PromptLibrary` (refinement mapping) |
| `SharedDatabase` | the same methods split into statements, for several processes | `PromptRepository` |
| `Migrations` | the migration runner, its files statement by statement, crashes and restarts | – |
| `RecoveryDomain` | the pure functions of backup documents and restore plans | – |
| `Recovery` | export, preview and restore among the edits of other sessions | `RecoveryDomain` |
| `TagService` | the asynchronous tag calls over the two databases | – |
| `OfflineSync` | the browser's store, the calls that fall back on it, and the background push | – |
| `GitSync` | export, commit, push, pull and import of vaults with one remote | – |
| `NativeVault` | the commands of the desktop application and its recovery section, statement by statement | `RecoveryDomain` |
| `HttpServer` | rate limiters, authentication and audit log along the chain of a request; start and end of the process | – |
| `Server_proofs` | theorems about `HttpServer` and `Search` | the two, TLAPS, the library's theorems on finite sets, sequences and well-founded relations |
| `SharedDatabase_proofs` | theorems about `PromptRepository` and `SharedDatabase`, their refinements of `PromptLibrary` included, and about `Migrations` | `SharedDatabase`, `Migrations`, TLAPS |
| `VaultJobs_proofs` | theorems about `VaultJobs` | `VaultJobs`, TLAPS, the library's theorems on finite sets, sequences and well-founded relations |
| `OfflineSync_proofs` | theorems about `OfflineSync` | `OfflineSync`, TLAPS |
| `Copies_proofs` | theorems about the parts that hold a copy of the library: `LibraryPages`, `PromptListPage` and `GitSync` | the three, TLAPS, the library's theorems on finite sets and sequences |
| `VaultService_proofs` | theorems about `Recovery` and `TagService` | the two, `RecoveryDomain_proofs` |
| `RecoveryDomain_proofs` | lemmas about sorting, documents and plans, for both programs that restore | `RecoveryDomain`, TLAPS, the library's theorems on finite sets, sequences and well-founded relations |
| `NativeVault_proofs` | theorems about `NativeVault` | `NativeVault`, `RecoveryDomain_proofs` |
| `PromptListPage` | the page of advanced tools: loads, delayed searches, effects, ticks, bulk changes | – |
| `LibraryPages` | the library with its favorites, and the editor | – |
| `MCDesktop` | the three parts of the desktop application in one run | `NativeVault`, `PromptListPage`, `LibraryPages` |
| `VaultJobs` | imports, exports, tools, repair, snapshots and the tag migration, one service call a step | – |
| `Search` | listing, searching and advanced searching, page by page | – |
| `MC*` | instances for TLC: small sets, symmetry | the module named |

### PromptRepository

State: `prompts` is a function from the ids present to rows (rowid, slug, title,
category, stored checksum, trashed); `versions` is a set of rows with rowid and
time; `fts` a set of index entries keyed by rowid; `tags` and `promptTags` the
two stored tag tables. `title` stands for the columns that the index holds,
`category` for the other metadata; a `body` carries its semantic version and
changelog, and `created` is in whole seconds because every query orders by
`datetime(created_at)`. The checksum of a row is represented by the payload that
was hashed, so two checksums are equal exactly when the payloads are.

Each method is one action: a better-sqlite3 call blocks the process. The action
includes what the triggers do (`Reindex`): delete the entry of the row, insert
it again if the prompt is active. `NextRow` gives a new row the largest rowid
plus one, as SQLite does without AUTOINCREMENT, so a purged last row's number is
used again, which is what makes a stale index entry dangerous. `UpdatePromptMetadata` writes the
columns given, recomputes the checksum of the whole row and fires the index
trigger only for indexed columns. `updated_at` and `touchPrompt` are left out: no
property reads them.

`Library` is the refinement: a prompt's title and latest body are read from the
index when the prompt is active, as a search does, and from the tables when it is
in the trash. `ImplementsLibrary` therefore says that tables and index move
together: one call changes one prompt in one respect, for both kinds of reader.

### SharedDatabase

CLI sessions, the HTTP server and the MCP server may hold one file open. A
transaction stays one action; `softDeletePrompt`, `restorePrompt`,
`updatePromptMetadata` and the service's `addVersion` read first and write later
and become two or three actions with what was read kept in `call`. An UPDATE of a
row that is gone changes nothing (`IfPresent`); an INSERT of a version for such a
row fails on its foreign key.

### Migrations

A schema is a set of objects; a file is a sequence of statements, each with what
makes it skip (`IF NOT EXISTS`), throw, drop and add. The runner infers a version
from the columns, takes the larger of that and `user_version`, settles the list of
pending files once, skips a file when a column it adds is there, executes
statement by statement, each committed on its own, and records the version after
the file. A thrown statement and a crash both end the process, which may be
started again. `Released(v)` is the database an earlier release left behind, with
or without its `user_version`. The runner of `main.rs` (`program = "native"`) is a
second one over the same schema: it has the files up to 005, infers a little
differently and records the version it starts from; what one program migrated may be
opened by the other.

### RecoveryDomain and Recovery

`RecoveryDomain` has the pure functions: slugs and their copies in text order,
identity of versions (semantic version and body hash), validation with the limits on
prompts, versions and titles (`WellFormed`, `SizeFits`, `TitlesFit`), normalisation,
the export document, and `BuildRestorePlan` folded over the sources in order, so
that an entry sees the slugs reserved before it. Fingerprints are the values that
were hashed. `Recovery` has a client that holds a file and a plan, and a database
that other sessions edit: create, add a version, update, trash, restore, purge.
`ExecuteBackupRestore` is one action since it is one transaction; it answers
invalid, stale, committed, failed or write failed, and the plan survives so that
it may be sent again.

### TagService

Prompts are in the main database, tags and taggings in the sidecar. A call of a
caller is a small program whose steps are the sidecar statements it awaits:
`ListTags`, `CreateTag` for each label not listed, `CompareTags`, `Link` and
`Unlink` one at a time, `SetProject`, `Return`. `Fail` ends a call at any of them.
Calls without an await (trash, purge, restore of a backup) happen in the gaps.
`burst` is a ghost: for overlapping calls on one prompt it records, per label,
what the calls agree on; no action reads it but those that maintain it.

### OfflineSync

State: the server's rows, `memory` (`inMemoryStore.prompts`), `stored` (its copy in
`localStorage`), the flag `fallback`, where each poll is, the call of the page that
awaits its answer, and `net`, the message of each poll and of that call. An action
runs from one `await` to the next. `Tick` starts a poll whether or not the last one
has ended; `FirstChecked` and `Checked` read the answer, `GotList` takes the list
that the push compares with, `Pushed` the answer to one POST or PATCH. `Serve` is
the server's handler; `Lose` loses a request before or after it was served, which
the page cannot tell from a refusal. `Reload` starts the page again from `stored`;
a save that fails is chosen by each action that saves, and takes back an edit
(`persistStoreOrRollback`) but not a removal. `reached` is a ghost: the slugs that
were ever on the server.

### GitSync

Each vault has a library, a clone (`files` is the directory `prompts/`, `head` the
tree of HEAD, `known` the commits of the remote it contains, `ahead`, `merging`)
and one command. Git is external and modelled from how the service calls it: a tree
maps file names to contents, `git pull` fast-forwards, merges file by file, or
refuses; a merge that leaves conflicts makes the command fail before the import. A
push is `BeginPush` (one listing of the library), `ClearPromptsDir`, one `WriteFile`
per file, `Commit` and `Send`; a pull is `GitPull`, then `ReadFile` and `ApplyFile`
per file with the `await` of `getPrompt` between them. `OtherEdit` is another process of
the vault and may come anywhere, `Crash` ends a command between two of its steps or
in the middle of clearing. A file written half by a crash, prompts whose format
(and so file name) changes, and several commands at once in one clone are left out.
The timestamps in a file are stood for by the row it was made from, so two vaults
that export one version still make a conflict of it, as they do in git.

### NativeVault

The mutex around the connection is `command`: its holder runs statement by statement
(`UpdateRow`, `UnlinkTags`, `StoreTag`; `DeleteTags`, `DeleteVersions`, `DeleteRow`),
and a Node process that has the same file open may write in between. The pure
functions of `main.rs` (validation, fingerprint, plan) repeat those of
`domain/recovery.ts` and are taken from `RecoveryDomain`. The recovery section of the
page is `page` (the document, the hash and the plan it shows) and `job`, the export,
preview or restore under way with the steps that are left of it: an export reads with
one command per prompt, a preview of the earlier database copies its files one after
the other, and a restore verifies, compares, locks and commits. The earlier
database is two files that stand for their sizes, times and hashes: `db` for the
transactions that were carried over, `wal` for those after them; the earlier
application writes and carries over at any step. `Crash` ends the process between two
statements. `broken` is a ghost: prompts whose deletion was begun.

### PromptListPage

An asynchronous function that awaits is a record in `loads`, `searches` or `jobs`; its
answer comes in a step of its own (`ServeList`, `ServeSearch`, `ServeJob`), and what it
does with it in another (`GotList`, `GotSearch`, `NextPrompt`, `Succeed`, `Fail`), for
React renders in between. Who answers depends on where the page runs (`inBrowser`). Natively
the application lists everything, and knows no search, so the page filters its own list
(`OwnFilter`). In a browser the server answers a list with one page (`Pages`, `ListCap`),
or fails, and then the memory of the page answers (`OfMemory`: prompts with ids of their
own); a search asks for a longer page than the router allows, is refused each time, and is
answered from that memory alone (`ServeSearch`). Effects whose dependencies changed are `due`, and `Effects` runs
them in the order of their declaration: load, search, then the pruning of the ticks. A
function keeps the values of the render it was called in (`list`, `filter`), and the
`isMounted` and `cancelled` flags of the effects are the numbers `token` and `request`: a
load or search whose number is not the present one was cancelled. `Remount` leaves the page and opens
it again; functions of the earlier mount go on, and set nothing. `unseen` is a ghost:
prompts that others wrote since they were loaded, or a job that stopped half-way, after
which the code does not load again.

### LibraryPages

`opened` is the page shown and `visit` its opening; records carry the opening they belong
to. `ToggleFavorite` shows the change and sends it, `ServeStar` stores it or fails before
or after the write, `GotStar` puts the stored row in, or takes the favorite back. A load
that failed can be tried again, also twice (`Retry`), and the answers come in either
order. The editor compares `form` with `base`, the prompt as it was opened, and saves in
one or two calls (`ServeSave`, `SaveText`); `NotSaved` leaves `base` as it is. The labels of
a prompt are one line in the form, parted by commas: `Retyped` says what a list of labels is
once it was written so and read again, and with it the form differs from `base` as soon as it is
opened if a label holds a comma (`FormOf`). `stale` is a
ghost: prompts that were written behind the back of the list shown, which an answer that
was given before (`missed`) does not know either; `touched` is one too: fields that the user changed.

### HttpServer

A request is `pending` while it arrives. The chain and the handler are one action
(`HandleApi`, `HandleToken`, `HandleLogs`): all they await has been settled, since both
databases are synchronous, so no timer or signal comes between. The order of the chain
is part of each action: `/api` counts first and authenticates then, `/logs`
authenticates first, `/auth` does not authenticate at all but its handler asks for the
key. Time is in units of the clock skew; a token is its claims, since a signature can
only be made with the secret, and `ForeignTokens` are those made elsewhere with it.
`closing` is how far `closeServerResources` has come; `connected` are the clients whose
connections it then waits for, which end when they are idle (`HangUp`) but may bring
further requests before (`Arrive`); the signal handlers are taken off
first (server-internal.ts:578-581), so a second signal kills (`DieOfSecond`).
`admitted`, `served` and `dropped` are ghosts.

### VaultJobs

A job of a client is a loop over `items` with a phase; one call of the service is one
step, since the repository is synchronous and `SharedDatabase` splits its methods
already. What a job read (`id`, `read`, `left`) is kept across its awaits. `Thrown`
either ends the job or notes the item and goes on, as the caller chose. Bodies are six
classes, by what the parsers of JSON and YAML make of them, which is what detection,
validation and conversion depend on; two of them (`OnceTrimmed`) are parsed only once
trimmed, as detection does and validation does not. `done`, `failed`, `before` and `foreign` say what
the job got through and whom others touched meanwhile: the properties leave those
slugs out. The snapshot is read table by table; its restore empties the tables and then
throws, as the code does (section 5). The migration of tags reads the source in two
steps and merges in one transaction.

### Search

`Ask`, `LookUp` (the tags, in the sidecar), `CountHits` and `Select` are the statements of one
page; other sessions write between them. `Total` joins all versions of a prompt and
`Hits` the latest one, as the queries do; the tag filter is applied to the page, after
paging. `Orders` is every order if the index ranks by relevance. The constructors
(`ListCommand`, `ListTool`, `SearchTool`, `PvSearchPrompts`) are what the front ends ask
for and what they keep of an answer.

## 3. The runs

Every run finishes within a few minutes on two cores. Each property of a passing run
has a mutant: a plausible bug of the code, written next to the action it changes
("Fault: ..."), under which TLC finds the property violated with the same
configuration. Most modules have a `TypeOK`; it is checked as the first conjunct of the
invariant marked with a star, not as a property of its own. That of
`PromptRepository` is proved (`TypeCorrect`).

| Run | Question | Bounds, and why they are enough |
|---|---|---|
| `prompt_tables` | Do the tables, checksums and index survive every sequence of repository calls? `Referential`, `IndexExact`, `ChecksumsMatch`, `ActiveSlugsUnique`; `HistoryAppendOnly`, `NewestWins` for steps. | Two prompts, two slugs, two titles, bodies, formats and labels, two seconds, rowids up to 3. Two prompts compete for a slug, a label and a rowid; three version rows give two in one second and one later; rowid reuse occurs at 2 and 3. The proofs remove the bounds; they also show that these methods implement `PromptLibrary`. |
| `shared_tables` | What survives when two processes interleave statements? `ImplementsLibrary`; that `Referential` and `IndexExact` do is proved. | Two processes, two ids that compete for one slug, so that a purge and a new creation can fall between a read and a write; three rows. The proofs remove the bounds. `ChecksumsMatch` is not among them: section 5. |
| `recovery` | Does a restore do what its preview said, or nothing? `RestoreAsPreviewed`, `FreshPlanCommits`, `ExportRestoresItself`*. Which exports can be refused after it? `OnlyLimitsRefuseExport`. | Files of at most three prompts and three versions, and one title that has no room for the suffix of a copy, so that every limit is met. Three changes, five foreign files chosen for the interesting shapes (unordered history, a prompt with its copy, old versions, a duplicate slug, no versions) plus every export of the library itself. Three changes are enough for edit, restore, edit and for create, trash, restore. |
| `migrations` | Does a process that is restarted after crashes get ready, with a complete schema? `GetsReady`, `ReadyIsComplete`*. | Databases of all releases (with and without `user_version`), three crashes: between files, before the first and after the last statement of any file, and at every statement of any file but 001 and 005 (section 5). One process after the other, of either program. |
| `tags` | Do overlapping tag calls leave the labels they agree on? `LabelAgreement`, `TagNamesUnique`*. | Two callers, one prompt, labels `a`/`A` and `b`, one project tag. Calls on different prompts share only the tag rows, which two callers on one prompt already contend for. The proofs remove these bounds. |
| `offline` | Do prompts written while the server is away survive, and does the store drain? `LocalKept`, `Drains`, `MemoryIsStored`*. | Two slugs, one title, two versions, two overlapping polls, two calls, two faults, one reload, one change by another client, four of these events together. Pages hold one prompt, so that a prompt of the server may be on a later page; two versions are enough for an edit that a push sends as a PATCH. |
| `git` | Do vaults that share a remote exchange whole exports, file by file? `PublishedIsExport`, `PullAgrees`, `OnlyWritten`*. | Two vaults, two prompts and a third that wants the slug of the first, two bodies, three edits, one crash, pushes begun while the remote has fewer than three commits: a conflict needs two edits and one push, and its resolution by a later push one more of each. The vaults, and the bodies, are interchangeable (`SYMMETRY`). |
| `native` | Does the desktop application restore what it showed, from files that held at one moment, and export valid files? `RestoredAsShown`, `NotTorn`, `ExportsAreWhole`*. Do its pages show and save what is stored? `ListIsCurrent`*, `LibraryAgrees`*, `SavesOnlyTouched` for steps. | One slug of the user and one of the files; a backup of two prompts of which one has a history to order; three transactions of the earlier database: one version, then one prompt; three changes and two recoveries, so a change falls before, between and after a preview and its restore, and a crash takes the place of any. The pages share no state with the vault or with each other, so `DesktopSpec` runs each part while the others stay as they begin. Three prompts, one tag and three events of the user, of others or of failure on the page of advanced tools, natively and in a browser, where two of the prompts are on a server whose pages hold one and the third is in memory: type, type again, leave; or change in bulk, fail, reload. One prompt, two lists of labels of which one becomes the other when its line is read, and four of the user's acts and failures for the library and the editor: a change of a favorite that is lost, a load tried twice, a save that stops half-way and is repeated. |
| `native_delete` (violation) | Does a delete command that ends remove the prompt? Not in a file that has the triggers of file 001. | As `native`. |
| `server` | Who is let pass, who writes, what is audited, how does the process end? `TwiceAtMost`, `WritersHoldTheKey`, `AuditIsNewest`, `CloseEnds`, `ClosesInOrder`*. | One client, one request a window, windows of two units, a lifetime of one, three requests, a log of one event, clock up to four: three requests fit in two windows, a token can run out and be within the skew, and a second change displaces the first. One of the requests may come on a connection that a closing server waits for. |
| `jobs` | Do the longer jobs do all or a prefix of what they report, while others write? `ImportIsPrefix`*, `RepairSettles`, `ExportsAreTrue`, `MigrationsSettle` for steps. | Two jobs in all, which may overlap, of 27 requests; two events of others or crashes. The library has one prompt in use whose text its format refuses and one in the trash whose text is YAML only once trimmed; one bundle names a slug twice, another meets the trash. Two jobs are what an overlap needs; a migration needs one event of the source and one of the application to be repeated differently. |
| `search` | What do pages, totals and matches show while others write? `PagesCover`*, `RoomIsUsed`, `ShowsWanted`, `TotalCovers`. | Three prompts in use, one in the trash and one that may be created; pages of one, two or four, so that a list has up to four pages; two writes, which can move a prompt from an unread page to a read one and back; limits of two matches a prompt and three in all, so that a prompt just fails to fit; one prompt has a part of the words in its title and the other in its body. With and without the index. |

Deadlock is checked except for `Migrations` (it stops when every process is ready),
`NativeVault` with the pages, `HttpServer`, `VaultJobs` and `Search` (a server that has ended, and
clients whose bounded supply of requests is used up, do nothing more).

### Fairness

`Migrations` states `WF_migrationVars(Step(x))`: a process that can execute its next
statement does so (the runner is a synchronous loop), and a process that stopped is
started again by whoever runs it. Crashes are not fair and are bounded by
`MaxCrashes`; `GetsReady` says that after the last one the process gets through.

`OfflineSync` states weak fairness of each poll's steps (`setInterval` fires for
ever, and a promise that is settled continues), of `Serve` (what is on its way is
served, unless it is lost first) and of `Return`. Faults, reloads, calls and other
clients are not fair and are bounded; `Drains` speaks of the time after the last of
them, and of a store whose prompts the server can accept (`Calm`): two local prompts
of one slug, or one whose slug is in the server's trash or on a later page, are
refused for ever.

`HttpServer` states weak fairness of `HangUp` (node drops a connection that stays idle for
longer than `keepAliveTimeout`, which is a timer of the connection), `ConnectionsClosed`,
`CloseDatabase` and `Exit` (callbacks that are due are run). Nothing makes a request
arrive to its end: the interval that enforces node's request timeouts is cleared by
`server.close`, and `closeServerResources` has no timeout. So `CloseEnds` is about clients
that leave off: if from some time on no request is under way, the first signal ends the
process. Requests, their answers, time and signals are not fair.

The other modules state safety only: a call that is never finished is a crash,
which their properties allow for.

## 4. What is proved

`SharedDatabase_proofs` proves of `PromptRepository`, for every set of ids, slugs, titles, bodies,
times and labels and every bound `MaxRow`, under the two assumptions of
`PromptRepository` (times are natural numbers, `Keep` is no column value):

| Theorem | Statement |
|---|---|
| `TypeCorrect` | `Spec => []TypeOK` |
| `NothingDangles` | `Spec => []Referential` |
| `IndexFollowsTables` | `Spec => []IndexExact` |
| `ChecksumsAlwaysMatch` | `Spec => []ChecksumsMatch` |
| `SlugFindsOnePrompt` | `Spec => []ActiveSlugsUnique` |
| `HistoryIsAppendOnly` | `Spec => HistoryAppendOnly` |
| `NewestVersionWins` | `Spec => NewestWins` |
| `TablesImplementLibrary` | `Spec => ImplementsLibrary` |

The argument is one inductive invariant, `Sound`, which also holds of a file that
several processes write; `IInv` adds `ChecksumsMatch`, which only one process keeps.
`IndexExact` is not inductive
alone: deleting the index entry of a row is right only if no other row has its
rowid (`RowsDistinct`), and the entry to insert is determined only if a prompt has
a newest version (`HasLatest`; the set of versions is finite, but this form is
preserved step by step without an induction). `ActiveSlugsUnique` needs slugs to be
unique over the trash as well (`SlugsUnique`), or a restore would break it.
Lemmas: `LatestIs` (a newest row of a set with distinct rowids is the one `Latest`
picks), `InsertVersionAdds` and `InsertVersionEffect` (an insertion adds one row,
after all the others, and touches one history), `ReindexExact` (reindexing the one
prompt that changed makes an exact index exact again), then one lemma per action,
and `VersionStep` (what a step can remove or add) for the two action properties.

The hinge of the refinement is `ShownIs`: while the
index is exact, what a search finds of a prompt is what its rows say, so a step
may be compared through the rows alone. Then there is one lemma per method: each
is one action of the library, except that a change of format and a tag edit that
names no prompt leave the library as it is. `Sound` holds before and after each
step, which is why the refinement needs no invariant of its
own.

Of `SharedDatabase` it proves, under the same assumptions and for every set of
processes:

| Theorem | Statement |
|---|---|
| `NothingDanglesShared` | `SharedSpec => []Referential` |
| `IndexFollowsTablesShared` | `SharedSpec => []IndexExact` |
| `SharedTablesImplementLibrary` | `SharedSpec => ImplementsLibrary` |

The invariant is `Sound` and the types of what a process holds between two statements
(`SharedInv`). Every statement does to the tables nothing, or what one method of one
process could do in one step (`TableStep`), except that an update may store a checksum
that is not that of the row it leaves (`WriteColumns`, of which `UpdatePromptMetadata`
is the case with the right one). So the lemmas about single methods are used again, and
the refinement is that of `PromptRepository`: the library does not know checksums.

Of `Migrations` it proves, for one process of either program after another, for every set
of released databases, every number of crashes, and every set `CrashFiles` without 001 and
005 (with either of them the statement is false, section 5):

| Theorem | Statement |
|---|---|
| `OneRunnerIsComplete` | `MigrationSpec => []ReadyIsComplete` |

`Since(v)` is what a database of version `v` is sure to have. The invariant (`MigrationInv`)
says that the schema has what its `user_version` promises and, of a process between two
files, that it has what the files before brought; inside a file, also what each statement
so far has left (`Amid`). Two more facts carry it over a restart, which infers a version
from a few objects, and over a skipped file, of which only one column is looked for: where
a process may stop, there are all tables or no table and no column (`Whole`), and
`is_favorite` and `rating` come together (`Paired`). They fail only inside 001 and inside
005. `FileSound` is what a file must satisfy for that: its statements lead from the version
before to its own, never drop a table, a column or what an earlier one left, and cannot
throw in 001, nor at the second column of 005. It is shown of all thirteen files of both programs
(`NodePlaces`, `NativePlaces`), and the steps are proved from it alone.

`VaultService_proofs` proves of `TagService`, for every set of callers, prompts, labels and project tags,
under the assumptions of `TagService` (the labels of one call differ in more than case,
labels are not the names of projects, there are finitely many project tags, and an
argument that is left out is no tag id):

| Theorem | Statement |
|---|---|
| `TagsStayUnique` | `TagSpec => []TagNamesUnique` |
| `CallsLeaveWhatTheyAgree` | `TagSpec => []LabelAgreement` |

`TagNamesUnique` needs that ids are at most the number of tags, or a new tag could get
the id of another (`IdsCounted`), and that calls know only tags there are
(`CallsTyped`). `LabelAgreement` speaks of the end of a burst; the invariant says the
same of every moment before it (`Promises`, one `Kept` per label): a label that the
calls agree to have is there or some call will link it, and a call that will unlink it
(an update unlinks the tag of its project before it links it again) will link it too; a
label that they agree not to have will be unlinked if it is there, and no call will
link it; the others are touched by nobody. `WillLink` and `WillUnlink` say what a call has
left to do; `KeptByStep` says what a step may change of them. That an update
compares rightly rests on what it listed and created being exactly its labels
(`Coherent`) and on one tag standing for each key (`KeyIsOneTag`), that is, on the first
theorem's invariant.

`Copies_proofs` proves of `GitSync`, for every set of vaults, ids and bodies, every choice of slugs
(`SlugsAssumption`: each id has one) and every bound:

| Theorem | Statement |
|---|---|
| `VersionsStayWithTheirPrompt` | `Spec => []OnlyWritten` |
| `PullsAgree` | `Spec => []PullAgrees` |
| `ExportsArePublished` | `Spec => PublishedIsExport` |

The invariant says of every vault (`VaultOK`), and of every commit of the remote, that a
file holds a version that was written for a prompt with the file's slug (`Mine`), or the
markers of a conflict, which are only in a working tree and only while a merge is open
(`merging`). While a push writes, the directory is the export without what is left to
write (`ExportOK`), so it is the export when it is committed and sent, whether or not
the commit changed anything. While a pull imports, each file is still to be read, or is
the one that is about to be applied, or is in the library, or its prompt was edited
(`ImportOK`, `ApplyOK`); that applying one file does not undo another rests on `Mine`:
two files are never about one prompt. A step of one vault leaves the invariant of the
others as it was, since what was written and the remote only grow (`OneVault`). What git
does to two histories enters only as "every file is that of one side, or in conflict"
(`MergedTree`, `UpdatedTree`).

`Server_proofs` proves of `HttpServer`, for every set of clients, every configuration (limits,
lifetime, skew, what is required of whom), every set of foreign tokens and every bound,
under `ConfigAssumption`:

| Theorem | Statement |
|---|---|
| `ServerClosesInOrder` | `Spec => []ClosesInOrder` |
| `OnlyHoldersWrite` | `Spec => []WritersHoldTheKey` |
| `AtMostTwice` | `Spec => []TwiceAtMost` |
| `AuditHoldsNewest` | `Spec => []AuditIsNewest` |

`ClosesInOrder` is not inductive: that no handler runs without a database needs that
there is no pending request once `closing` is past the connections, that nothing listens from
the first step of the close on, and that the database is open until the step that
closes it (`ClosingSoFar`). `WritersHoldTheKey` needs that every token there is
was issued to the holder of the key, by a request that was served at the time the token
is dated (`TokensAreIssued`): it is then within its lifetime when it is verified, and
the request that got it comes earlier in `served`. `Typed` gives the types of the ghosts
that `TypeOK` does not speak of. There is one lemma per handler and one for the steps of
the life of the process.

`TwiceAtMost` counts the requests of a stretch of time, of which no variable keeps the
windows they came in: an entry is overwritten by the next window's and cleared by the
timer. The invariant (`WindowsAreAccounted`) says that there are beginnings of windows,
one for each request that passed (`Accounted`): windows follow each other by more than
their length, none lets more pass than is allowed, and the last one, if it is still open,
is the entry's, which counts at least what passed in it, blocked requests included. Then
of the requests, taken in order, the one that comes twice the allowed number later is
more than a window's length later (`ThirdWindow`), and indices that are less than some
number apart are at most that many (`AtMostWithin`, from the least element of a set,
which the library's theorem on well-founded relations gives for `<`). `AuditIsNewest` is
inductive: with one more change, each older one has one more after it, and the event it
is recorded in moves by one place exactly when the log is full (`LogTakesChange`).

The same module proves of `Search`, for every library, every set of queries, every limit and
every bound, under `LimitsAssumption` (pages and limits are at least one) and
`LibraryAssumption` (there are finitely many ids, rows have the types of their columns, and
no two prompts of the library at the start were updated at one time, none of them after the
first write):

| Theorem | Statement |
|---|---|
| `PagesAlwaysCover` | `SearchSpec => []PagesCover` |
| `RoomIsAlwaysUsed` | `SearchSpec => []RoomIsUsed` |
| `ShownAreWanted` | `SearchSpec => ShowsWanted` |
| `TotalsCover` | `SearchSpec => TotalCovers` |

`PagesCover` speaks of the end of a listing; before the end (`PagesSoFar`) a prompt that
nobody wrote to was seen, or at least as many hits come before it as the pages so far hold
(`Reached`). A write to another prompt can only put more before it, as long as none leaves
the result: what is written moves to the front, and trashing is what `left` tells
(`WriteKeeps`). A page then shows it, or it still comes after the next page (`SelectKeeps`),
or the page was not full and was the last. The number of hits before a prompt is its place
in the listing (`OrderIs`); that nobody is listed twice while nobody writes is that each
place is shown once (`SeenInOrder`). `RoomIsUsed` is an invariant of the walk through the
rows of a page (`Room`, `TakeKeepsRoom`), and `Sum`, `Found` and `Kept` are recursive
functions, of which `StepByStep` shows that they exist.

`NativeVault_proofs` proves of `NativeVault`, for every content of the earlier database
(`Legacy`), every set of slugs, titles, labels, drafts and backup files, and every bound,
under `DraftsAreNumbers`, `BackupsHoldPrompts` and `LegacyHoldsPrompts` (the types the code
gives these constants, and that the earlier database was written once; a file may hold any
prompts, valid or not), `TicksArePositive`, `OrderedByNumber` and `SlugsAreSequences`:

| Theorem | Statement |
|---|---|
| `DocumentsAreNotTorn` | `Spec => []NotTorn` |
| `HandedOutIsWhole` | `Spec => []ExportsAreWhole` |
| `RestoresAsShown` | `Spec => RestoredAsShown` |

For the first, the reading is a list of steps, and what it may rely on depends on how far it is: `Snap(q,
..)` says what has been found out before the `q`-th step, the inspection being the first
(`OnLegacy` finds the place of the remaining steps in `LegacyPreview` or `LegacyRestore`).
The heart of it is `Gone`: a log that was replaced never comes back, since the next one
ends after a later transaction. So when the check after the copying finds the log of the
inventory, it was there all the time and is the one that was copied, and when it finds
the file of the inventory, the copy is that file; the log begins in what that file
holds, and the two together are one moment of the database (`ReadStep`). `SourceMoves`
shows that writing on, carrying over and removing the log spoil none of this.

The other two rest on a second invariant, `RInv`: rows are complete, a prompt without a
version is one whose deletion was begun (`RowsOK`), the page's document and what is read of
the earlier database consist of prompts (`PageKnown`, `SourcesKnown`), what was exported is
valid, and an operation has done what its remaining steps say (`OperationOK`). For a restore
`RestoreOrder` says in which order the steps are left, so that at the commit the document, read
again, is known to be valid and to be the one that the plan on the page was made of (`Compared`),
though the library need no longer be the one that plan was made for. The transaction is then proved
one entry at a time: each leaves every history as the beginning of what it becomes
(`Retains`), makes what it announced true whatever rows it met, and leaves true what
earlier entries announced (`Fulfilled`, `OneEntry`); an entry that fails undoes all
(`PlanExecuted`). What an entry inserted stays as it is: later ones add only to the row of their own prompt, a
valid document has each slug once, and an insertion under a slug that is taken fails
(`InsertedIs`). TLC checked `RInv` on the instance of `MCNativeVault` before it was proved.

`Copies_proofs` proves of `LibraryPages` and `PromptListPage`, for every set of prompts and tags, every content of the
library at first and every bound, under `PagesAssumption` (an error is not a row; labels that were read from a line are
read again as they are),
`PageSentinels` (a filter for a project is none for a tag, no set of tags means that a
prompt is absent) and `PageAtFirst` (there are finitely many prompts, some of them in a
browser's memory; a page of the server has any length):

| Theorem | Statement |
|---|---|
| `LibraryAlwaysAgrees` | `LibrarySpec => []LibraryAgrees` |
| `SavesChangeOnlyTouched` | `LibrarySpec => SavesOnlyTouched` |
| `ListAlwaysCurrent` | `PageSpec => []ListIsCurrent` |

That a row is shown as stored once its favorite is no longer being written needs to know
what the answer under way will make of it. An answer with a row, or with a list, holds
what is stored, but for prompts it missed (`FetchesAreTrue`, `StarsAreTrue`). An error
brings back the favorite from before, so that one is the stored one as long as the write
has not happened, and the rest of the row is as stored all the while (`ShownIsStored`).
That all this is about one call at a time for each prompt and opening of the page is
`OneStarEach`, which the guard on the key keeps. `FormIsTouched` says that the form
differs from what it was opened to show only where the user changed it, and that a save
writes only such fields and labels that their line does not give back (`Resplit`).

For the page of advanced tools the invariant follows an answer from the server to the
screen. The answer to the load that counts has each row as it is stored, or as it was
before somebody wrote it since, or before a job of this mount changed it (`LoadsTrue`,
`Excused`): that job either ends well, and then the list is loaded again, or fails, and
then its prompts are among those written since. Once the load has arrived and as long as
no other is due the same holds of the list (`PromptsTrue`). A search counts only if it
was begun for the present filter over the present list, or the effect that cancels it is
still due (`SearchTrue`), so its answer shows what the filter selects, natively of
that list and in a browser of the memory (`SearchTrue`, `Found`), and so does the screen
(`ShownTrue`). That a list is one of the server or of the memory, and lacks a row of it only
where it is a full page, is `ListTrue`. `RowsChange` says all this of any step in which rows change or jobs go on.

`OfflineSync_proofs` proves, for every set of polls, slugs and versions, every size of a
page and every bound, under `PollsAssumption` (there is a poll, and the user is none):

| Theorem | Statement |
|---|---|
| `PageShowsWhatIsStored` | `Spec => []MemoryIsStored` |
| `LocalPromptsAreKept` | `Spec => LocalKept` |

The invariant follows a prompt to wherever the page has it (`Known`: in memory, in
`localStorage`, in the list of a poll that read it long ago): an id stands for one slug
everywhere (`SlugById`), though the records of one id may differ by then. Of each poll it
says what it waits for (`Waiting`): the slugs that it took from an answer have been on the
server, and so has the slug of what it pushes, unless that is still to be created or has
failed (`PushUnderWay`). So what an answer settles may leave every list of the page,
whichever poll asked (`AdvanceInv`). The rest are lemmas on what the lists of the page
become when they are filtered, edited and read on (`WithoutIs`, `EditedInIs`, `RestIs`).

`VaultJobs_proofs` proves, for every set of clients, slugs, titles and labels, every set of
requests and every bound, under `JobsAssumption` (the library at the start obeys the
constraints of its tables: each prompt has a version, slugs are unique, ids are counted
from 1; a request is one of `Jobs`, and one on a text was given it) and `TagsAssumption`
(the rows of the earlier tag database have their columns, and no id the application makes
is that of a tag there):

| Theorem | Statement |
|---|---|
| `RepairsSettle` | `Spec => []RepairSettles` |
| `ExportsStayTrue` | `Spec => []ExportsAreTrue` |
| `ImportsLeaveAPrefix` | `Spec => []ImportIsPrefix` |

The first two speak of the end of a job that has many steps, so `JobsInv` says what holds before
the end: of a repair, that each prompt in use whose text its parser refuses is still to be
repaired, or was touched by others (`RepairOK`); of a bundle export, that what it read is
what there is, but for what others touched (`ReadOK`), and then the same of its answer
(`WholeOK`); of a bulk export, that each file it reports is the one that would be written
now (`FileOK`). So a step of one job has to respect three things about every other job.
`RowsMove` and `FilesMove` say in one place what any step may do to rows and files: the
slugs of the rows it changes become `foreign` to the others, no id is given twice, and a
file is only ever replaced by that of a prompt as it is. There is one lemma per method of
the service (`...Keeps`). That a repair gets through rests on the detection of a format
answering with one whose parser accepts the text, unless it accepts it only once trimmed
(`DetectedIsValid`); that the answer of an export has
each prompt once rests on the order of the bundle, a prompt's place being the number of
prompts before it (`PlacesAreIds`).

For `ImportsLeaveAPrefix` the invariant grows by what an import has done at each of its
phases (`ImportOK`). `ToldOK` is the property for every slug but the one the import fell
over, with the item whose row is written and whose labels are not yet counted among those
it got through (`Reached`); the property itself leaves the item under way out, and is not
inductive. `TargetOK` says that the row about to be updated has the slug of the
item, or is gone: without it a version could land under another prompt. That both survive
the steps of others is the same `RowsMove`; what a step does to a history is `CreatedHistory`,
`EditedHistory` and `LabelsLeaveHistory`, and what one more item does to the history its
items say is `NamedAppend` and `GrownMore`. The second half is `TypeOK`, which the
property contains: it needs that a merge of any two databases leaves no two tags of one
id and no tagging without its tag (`MergedKeeps`, from `MergeTagKeeps` and `MergeTaggingKeeps`, one
row each), that what a migration has read are rows of the source (`ReadingOK`), and that
the application, which gives a label only when no tagging has its id, cannot add a tag that is
there (the last conjunct of `TargetTags`). That the numbers of a bundle's slugs stay
distinct follows from their being read at once (`ReadOK`). TLC checked these invariants
on the instance of `MCVaultJobs` before they were proved.

`VaultService_proofs` proves of `Recovery`, for every set of slugs, drafts and files, every bound `MaxClock`
and every number of ticks to a second, under the assumptions of `RecoveryDomain` and
`Recovery` (`TicksArePositive`, `OrderedByNumber`, `SlugsAreSequences`,
`FilesHoldPrompts`, `ClockCounts`, `LimitsCount`: constants have the types the code gives them; a file
may hold any prompts, valid or not):

| Theorem | Statement |
|---|---|
| `TypesHold` | `Spec => []TypeOK` |
| `ExportsRestore` | `Spec => []ExportRestoresItself` |
| `RestoresAsPreviewed` | `Spec => RestoreAsPreviewed` |
| `OnlyLimitsRefuse` | `Spec => OnlyLimitsRefuseExport` |
| `FreshPlansCommit` | `Spec => FreshPlanCommits` |

The invariant `Inv` is short: the library is finite, its rows are complete, none has an
empty history, and the file consists of prompts. What takes the work is what one
transaction does with a plan of any length. `PlanOf` says of a plan that each entry
is about one prompt of the document and names a copy that no visible prompt and no earlier
entry has. `Applied` describes the library after the first `m` entries, in terms of the
plan alone: what was inserted by which entry, what was merged into which prompt, and that
nothing else changed. Each entry takes it one further (`Inserted`, `Merged`), or the first
one that cannot be carried out finds its slug taken, and from there on everything fails (`Stuck`).
That such a slug belongs to the trash, or to a new prompt further on in the file, is
`FreshPlanCommits`. What a preview promised (`RowsOf`, `ResultHolds`, `ResultCount`) and
that no version comes twice (`EachOnceIs`, `JoinedOnce`, `MissingOnce`) are read off
`Applied` for all entries. So is which title can be too long after a restore: a row is one
from before, an entry of a valid file, or a copy of one, and only a copy has a longer title
than what it was made from. `OnlyLimitsRefuse` promises nothing of the size of the whole,
which a restore may exceed (section 5).

Documents and plans are those of `RecoveryDomain`, for both programs, and so are the lemmas
about them (`RecoveryDomain_proofs`). The documents are sorted, and for the proofs a sort is a choice of places: the element at
place `i` is the one with `i - 1` before it (`InOrder`). `InOrderLists` shows that
a finite set in a strict order gets each of its elements at one place. Neither this nor the
walk through a plan can use the induction theorems of the library, which take an operator;
they go by least counterexample (`LeastOf`).

Only model-checked: of the jobs `MigrationsSettle`, which is not true of every source
(section 5). Liveness (`GetsReady`,
`Drains`, `CloseEnds`) stays with TLC in any case: TLAPS does not reason about fairness.
## 5. What disagrees with the repository's words

One is a run with expected outcome "violation", and quotes the sentence in
`PROJECT.json`:

- `native_delete`: `delete_prompt` (main.rs:1110) deletes labels, versions and row in
  three statements. While the file has the triggers of file 001 (only a Node
  process brings 006 and 007), the last statement fires a trigger that deletes from a
  contentless index and throws: the command ends with the prompt there and its labels
  and history gone, although prompts can be deleted (`docs/SPEC.md:17`).

Found with these models, without a run of its own:

- Lost update: `updatePromptMetadata` (PromptRepository.ts:803) hashes a row that it read in an earlier
  statement; two processes can leave a checksum that every later read refuses. Add
  `ChecksumsMatch` and a second category to `MCSharedDatabase.cfg` to see it.
- Trash: a slug in the trash is planned as new (RecoveryRepository.ts:59), the `UNIQUE`
  column refuses it, and the restore fails; `FreshPlanCommits` says so by excluding it.
- Migrations: a crash in file 001 after `prompt_versions` (PromptRepository.ts:1637)
  leaves a schema that is taken for version 5; the tag tables are never created. With
  `CrashFiles = {1}` `GetsReady` fails, since a crash right after
  `CREATE TABLE prompts` makes later starts skip a file and stop at another, every time.
  A Node process that crashes between the two columns of file 005 finds the first of them
  there when it starts again and skips the file (PromptRepository.ts:1571), so `rating` is
  never added: `CrashFiles = {5}` violates `ReadyIsComplete`. No other file has such a
  place: `OneRunnerIsComplete` is proved for a crash anywhere else.
  Two processes that start at once (`Runners` with two elements): without crashes
  `ReadyIsComplete` holds, but the two may make each other's statements throw at every
  restart, so `GetsReady` fails; with one crash, a process that settled its list while
  another was in file 006 (PromptRepository.ts:1510) executes 006 again after 007, puts
  the older trigger back and may stop there, with a version of 7 that hides it for good.
- Browser: a push whose list request fails swallows the failure (promptApi.ts:430), and
  the poll that called it clears the flag on which the next push depends.
- Tags that a restored backup brought into `prompt_tags` cannot be removed
  (PromptVaultService.ts:1308): the calls look for them in the sidecar.
- Rate limit: `README.md:115` speaks of a maximum per window; a fixed window
  (rate-limit.ts:145) lets twice the maximum pass in a window's time, which is what
  `TwiceAtMost` states; a new window lets its first request pass even with a maximum of
  zero (`Allowed`). A maximum that is not a number, from the environment, turns the
  limiter off.
- Snapshot: `restoreSnapshot` (snapshot.ts:102-112) empties the tables one by one and
  then executes `DELETE FROM prompts_fts_data`, which SQLite's defensive mode refuses:
  it throws, outside a transaction, with the library empty (`ClearPrompts`,
  `ClearIndex`). A snapshot taken while others write is torn between the tables, and a
  body with a semicolon would be cut in two when it is executed.
- A native restore compares the plan before its transaction begins (main.rs:2239), so it
  may be committed on a library that another process changed since, although
  `data-safety-recovery.md:38` has stale plans refused. `RestoredAsShown` holds all the
  same: nothing that was written meanwhile is lost.

Also seen:

- Backup limits. What a restore accepts can make the next export refuse itself, since an
  export is verified against the limits of a file (recovery.ts:671-689): a copy's title gets a
  suffix (:731) and may pass 500 characters (:450), and merging and copying may pass 10,000
  prompts (:565), 50,000 versions (:578) or 10 MiB (:617), though no file had more. The library stays
  as it is, but cannot be exported until it is smaller. `OnlyLimitsRefuseExport` says that
  nothing else can go wrong with it: the title of a copy and the size of the whole are its
  exceptions. The bytes of a file are modelled by its prompts and versions; the limits on
  bodies, labels and other fields are left out, since no restore makes these longer.
- Backup files. A copy of a restore may be given the slug of a later prompt of the same
  file (recovery.ts:784), and an imported version that is older by less than a second
  than the latest one becomes the latest, since reads compare whole seconds.
- Browser. A local prompt whose semantic version the server has is removed as pushed
  without its body being compared (promptApi.ts:391), and an edit made while its POST is
  awaited goes with it. The browser's backup export reads one page of 100 prompts
  (promptApi.ts:612-625).
- Git. A pull over edits that were not exported adds the file's older version as the
  newest one; the import compares contents, never times (SyncService.ts:95). A file whose
  slug belongs to another prompt, or whose prompt is in the trash, ends the pull, and the
  files after it are not imported (SyncService.ts:112). A merge in conflict stays open
  when the next push writes what HEAD has: the status is clean, nothing is committed, and
  push and pull are refused from then on.
- Native. A preview in a shared file that has a trashed prompt is always stale when it is
  executed. A change of the write-ahead log alone, between the verification of a preview
  and its inventory, goes unnoticed. A crash between unlinking and storing labels loses
  them.
- Server. A shutdown has no timeout: `server.close` (server-internal.ts:520) waits for every
  connection, and clears the interval that enforces node's request timeouts, so that a client
  that stalls a request, or brings the next one on its connection each time, keeps the process
  from its end. `CloseEnds` has the premise that clients leave off.
- Server. Requests refused with 401, 403 or 429, and those that restore, snapshot or
  import by another path, never reach the audit log. A handler of the router's 500 error
  calls `next(error)` after it has answered.
- Repair. Detection trims a text before it is parsed (conversion.ts:83, :100), validation
  does not (:133). A text such as an indented first line, `  a: 1`, before one that is not is
  YAML for the one and not for the other: the repair stores YAML, reports the prompt as repaired, and
  the next diagnosis finds the same issue. The same goes for JSON that is padded with
  characters that `trim` removes and `JSON.parse` refuses. `RefusedAsDetected` is the
  exception of `RepairSettles` for these texts, and for no other.
- Jobs. A failure of the sidecar after a creation leaves a stored prompt that is reported
  as failed. Repair trusts the detected format without validating again, and reports
  prompts of the trash that it may not touch as errors. A bulk export with the pattern
  `{title}` may write two prompts to one file (the model has the default, `{slug}`).
  `writePrompt` of the MCP server drops name and tags and may repeat a number, as may an
  edit that lasts while another one ends. `pv_update` reports "not found" after a part of
  the update was done, and `pv_delete` swallows every failure. Two edits of one slug from
  one directory share one temporary file.
- Pages. In a browser the list is one page of 100 prompts (promptApi.ts:621; the comment at
  :639 says so). A search there asks for 200 (PromptListPage.tsx:162), the router allows 100
  (createPromptVaultRouter.ts:80), and the refusal is taken for a server that is away: the
  answer is what the memory of the page holds, as a rule nothing of the library, and a filter
  for a project is ignored there (promptApi.ts:689-731). `ListIsCurrent` states both; it does
  not say that a search finds what is stored. A label that holds a comma, which restores,
  imports and the tag calls accept, is split in two by any save of its prompt, also one that
  changes only the title, since the form's line of labels is read back at the commas
  (EditPromptPage.tsx:28-46, :147, :181, :252): the exception `Resplit` of
  `SavesOnlyTouched`. A native search calls a command that main.rs does not have
  (`search_prompts`), so that each one falls back on the page's own filter, which finds nothing when the filter
  is a project (PromptListPage.tsx:173). Ticked prompts that a search found and the list
  does not hold are passed over in a bulk tagging (PromptListPage.tsx:294); after one that failed half-way
  the list is not loaded again, and the next one writes the tags of the list over those
  just added. A favorite whose answer was lost is shown as it was, though it is stored
  (LibraryPage.tsx:263); of two loads the answer that comes last is shown. After a save
  that stored the metadata and failed on the text, a title that is typed back is not
  written, since the form is still compared with the prompt as it was opened
  (EditPromptPage.tsx:246). A save that succeeds after its page was left opens the
  library all the same (EditPromptPage.tsx:301), over a form that may be open now.
- Tag migration. The source may only grow and rename in the instance: a name that is
  used again for another tag makes the repetition fail at a constraint, and two names
  that were exchanged give the taggings the wrong meaning (`legacy-tag-migration.md:59`).
- Searching. A label that is no tag is left out of the filter, so an unknown label alone
  filters nothing. The tag filter comes after paging: pages are short and the total is
  the length of the page. With a format filter the total counts prompts of which only an
  earlier version has the format. `listPrompts` of the MCP server divides offset by
  limit and rounds down, so an offset that is no multiple shows other prompts than asked
  for. An advanced search without text shows no matches. Statistics of a project
  subtract the trash twice.
- `resetCoreDb` clears the keys that were read at the start.

## 6. What is not modelled

- Plugin host: plugins are called one after the other, synchronously and each in a `try`;
  no other part shares state with them and there is no order of steps to explore.
- Local update planner: a pure table of decisions that performs none of the steps it
  lists, and that its unit tests enumerate.
- Telemetry and logging: counters and text that no other part reads.
- Desktop pages and widgets: the page that creates a prompt, the settings other than the
  recovery section, layout, shortcuts, messages and the copying to the clipboard. In the
  library and the editor the store of `OfflineSync`, which may answer for a server, is
  left out: a call is answered from what is stored, or fails. In a browser they show the
  prompts of one page of the server, which `Kept` stands for.
- Router, MCP server and command line: routes, tools and commands that decode a request
  and call one service method are that method's action; those that call several, page,
  or read before they write are in `VaultJobs` and `Search`.
- Conversion, templating and text domain: text to text. Detection, validation and
  conversion of formats are functions of six classes of text in `VaultJobs`; the syntax
  of backup, snapshot and bundle files is abstracted to values.
- Tag service: project-tag management, archived tags and tag queries. Integrity
  diagnostics: counts of orphaned tags, which are reported and change nothing.
- Browser fallback: several tabs on one `localStorage` key (the last save of either wins
  whole, nothing keeps the other's edits, and no property would survive it) and the
  restore of a backup into the store.
- Git: a file whose removal fails before an export (SyncService.ts:192 swallows the error)
  stays and is committed with the rest, whatever it holds; `PublishedIsExport` is about
  directories that can be emptied. Set-up, branches, the status report; files half-written by a crash; prompts whose
  format changes; several commands at once in one clone.
- Scripts and release tooling, run by hand.

What could be added next: `Migrations` with two processes that start at once, and which of
their interleavings end with a complete schema.
