------------------------------ MODULE NativeVault ------------------------------
(***************************************************************************)
(* The desktop application (src-tauri/src/main.rs): its commands over one  *)
(* SQLite connection behind a mutex, and the recovery section of its page, *)
(* which exports, previews and restores from a backup file or from the     *)
(* database of an earlier application.                                     *)
(*                                                                         *)
(* Three others act between the statements of a command: a Node process    *)
(* that has the same file open, the earlier application, which goes on     *)
(* writing to its own database, and the end of the process.                *)
(*                                                                         *)
(* Abstractions: as in RecoveryDomain; no command gives a slug again that  *)
(* was purged, so that it stands for the prompt's id.  The earlier         *)
(* database is two files, each read at once: `db' holds its first          *)
(* transactions, and the frames of `wal' those after `base' up to `upto';  *)
(* these numbers stand for size, time of change and hash, and the -shm     *)
(* file goes with `wal'.  Telemetry files and timestamps of rows are left  *)
(* out.                                                                    *)
(***************************************************************************)
EXTENDS RecoveryDomain

CONSTANTS
  UserSlugs, Titles, Labels, Drafts,  \* what the commands may be given
  Backups,                            \* the backup files a user may choose
  Legacy,                             \* Legacy[n]: the earlier database after n transactions
  MaxClock,                           \* bound on changes of the library and on crashes
  MaxRecoveries                       \* bound on exports, previews and restores

Meta == [title : Titles, copy : BOOLEAN, labels : SUBSET Labels]
Source == PromptWith(Meta)

ASSUME DraftsAreNumbers == Drafts \subseteq [semver : Nat, body : Nat]
ASSUME BackupsHoldPrompts == Backups \subseteq Seq(Source)
ASSUME LegacyHoldsPrompts == Legacy \in Seq(Seq(Source)) /\ Len(Legacy) > 0

VARIABLES
  library,   \* slug -> [meta, trashed, versions], the rows of the shared file
  rebuilt,   \* the triggers of the index are those of files 006 and 007
  purged,    \* slugs that were given and taken away
  command,   \* who holds the mutex of the connection
  source,    \* the files of the earlier database
  page,      \* what the recovery section holds
  job,       \* the export, preview or restore under way
  exported,  \* the last file handed out
  broken,    \* ghost: prompts whose deletion was begun
  clock, recoveries

vars == <<library, rebuilt, purged, command, source, page, job, exported, broken, clock, recoveries>>
recovering == <<rebuilt, source, page, job, exported, recoveries>>

Free == [op |-> "free"]
Restoring == [op |-> "restore"]
NoPlan == BuildRestorePlan(<<>>, <<>>)
NoPage == [kind |-> "none", document |-> <<>>, hash |-> 0, plan |-> NoPlan]
NoFile == <<>>
NoFiles == [db |-> 0, wal |-> [base |-> 0, upto |-> 0]]
Job(op, policy, steps) ==
  [op |-> op, policy |-> policy, steps |-> steps, begun |-> FALSE, inspected |-> 0,
   inventory |-> NoFiles, copy |-> NoFiles, read |-> 0, left |-> {}, seen |-> <<>>]
NoJob == Job("none", "none", <<>>)

Policies == {"skip-existing", "add-missing-versions", "import-as-copy"}

(* read_recovery_library: one statement is open over the whole read. *)
Visible(lib) ==
  [s \in {t \in DOMAIN lib : ~lib[t].trashed} |->
    [meta |-> lib[s].meta, versions |-> lib[s].versions]]

With(lib, slug, row) == [s \in DOMAIN lib \cup {slug} |-> IF s = slug THEN row ELSE lib[s]]
Dropped(lib, slug) == [s \in DOMAIN lib \ {slug} |-> lib[s]]
Fresh(slug) == slug \notin DOMAIN library \cup purged

(* validate_recovery_document, fingerprint_library and build_restore_plan  *)
(* repeat the functions of domain/recovery.ts.                             *)
ValidDocument(document) == Valid(document)
LibraryFingerprint == Visible(library)
RebuiltPlan(document) == BuildRestorePlan(document, LibraryFingerprint)

(* The first write of a restore holds the file until it commits. *)
Locked == job.begun

-----------------------------------------------------------------------------
(* Commands of the prompts.  A statement on its own commits at once. *)

Tick == clock < MaxClock /\ clock' = clock + 1

Dated(draft) == [semver |-> draft.semver, body |-> draft.body, created |-> clock']

NewRow(title, labels, draft) ==
  [meta |-> [title |-> title, copy |-> FALSE, labels |-> labels],
   trashed |-> FALSE, versions |-> <<Dated(draft)>>]

CreatePrompt(slug, title, labels, draft) ==
  /\ command = Free /\ Tick
  /\ Fresh(slug)
  /\ library' = With(library, slug, NewRow(title, labels, draft))
  /\ UNCHANGED <<purged, command, broken, recovering>>

AddPromptVersion(slug, draft) ==
  /\ command = Free /\ Tick
  /\ library' = [library EXCEPT ![slug].versions = Append(@, Dated(draft))]
  /\ UNCHANGED <<purged, command, broken, recovering>>

(* update_prompt: the row, then the links away, then one link at a time. *)
UpdateRow(slug, title, labels) ==
  /\ command = Free /\ Tick
  /\ library' = [library EXCEPT ![slug].meta.title = title]
  /\ command' = [op |-> "unlink", slug |-> slug, labels |-> labels]
  /\ UNCHANGED <<purged, broken, recovering>>

UnlinkTags ==
  /\ command.op = "unlink"
  /\ library' = IF command.slug \in DOMAIN library
                THEN [library EXCEPT ![command.slug].meta.labels = {}] ELSE library
  /\ command' = IF command.labels = {} THEN Free ELSE [command EXCEPT !.op = "link"]
  /\ UNCHANGED <<purged, broken, clock, recovering>>

StoreTag ==
  /\ command.op = "link"
  /\ IF command.slug \notin DOMAIN library
     THEN UNCHANGED library /\ command' = Free
     ELSE \E l \in command.labels :
            /\ library' = [library EXCEPT ![command.slug].meta.labels = @ \cup {l}]
            /\ command' = IF command.labels = {l} THEN Free
                          ELSE [command EXCEPT !.labels = @ \ {l}]
  /\ UNCHANGED <<purged, broken, clock, recovering>>

(* delete_prompt: three statements, each on its own. *)
DeleteTags(slug) ==
  /\ command = Free /\ Tick
  /\ library' = [library EXCEPT ![slug].meta.labels = {}]
  /\ broken' = broken \cup {slug}
  /\ command' = [op |-> "delete versions", slug |-> slug]
  /\ UNCHANGED <<purged, recovering>>

DeleteVersions ==
  /\ command.op = "delete versions"
  /\ library' = IF command.slug \in DOMAIN library
                THEN [library EXCEPT ![command.slug].versions = <<>>] ELSE library
  /\ command' = [command EXCEPT !.op = "delete row"]
  /\ UNCHANGED <<purged, broken, clock, recovering>>

(* The trigger of file 001 deletes from a contentless index, which throws; *)
(* only the files of a Node process replace it.                            *)
DeleteRow ==
  /\ command.op = "delete row"
  /\ IF command.slug \in DOMAIN library /\ ~rebuilt THEN UNCHANGED <<library, rebuilt, purged, broken>>
     ELSE /\ library' = Dropped(library, command.slug)
          /\ purged' = purged \cup {command.slug}
          /\ broken' = broken \ {command.slug}
  /\ command' = Free
  /\ UNCHANGED <<clock, recovering>>

-----------------------------------------------------------------------------
(* The others. *)

(* A Node process brings the file up to date when it opens it. *)
NodeProcess ==
  /\ ~Locked /\ Tick
  /\ rebuilt' = TRUE
  /\ \/ \E s \in UserSlugs, d \in Drafts, t \in Titles :
          Fresh(s) /\ library' = With(library, s, NewRow(t, {}, d)) /\ UNCHANGED purged
     \/ \E s \in DOMAIN Visible(library) :
          /\ \/ \E d \in Drafts :
                  library' = [library EXCEPT ![s].versions = Append(@, Dated(d))]
             \/ library' = [library EXCEPT ![s].trashed = TRUE]
          /\ UNCHANGED purged
     \/ \E s \in DOMAIN library :
          library' = Dropped(library, s) /\ purged' = purged \cup {s}
  /\ UNCHANGED <<command, broken, source, page, job, exported, recoveries>>

(* The process ends: a transaction is rolled back, the page is gone. *)
Crash ==
  /\ Tick
  /\ command # Free \/ job # NoJob
  /\ command' = Free /\ page' = NoPage /\ job' = NoJob
  /\ UNCHANGED <<library, rebuilt, purged, source, exported, broken, recoveries>>

Holds(db, wal) ==
  IF wal.upto <= db THEN db ELSE IF wal.base <= db THEN wal.upto ELSE 0

NoWal == [base |-> 0, upto |-> 0]

(* A transaction goes on in the log, or begins it again if all of it has   *)
(* been carried over; the log is carried over, and removed when it is not  *)
(* needed any more.                                                        *)
LegacyApplication ==
  LET now == Holds(source.db, source.wal)
  IN /\ \/ /\ now < Len(Legacy)
           /\ \/ source' = [source EXCEPT !.wal = [base |-> now, upto |-> now + 1]]
                 /\ source.wal.upto <= source.db
              \/ source' = [source EXCEPT !.wal.upto = now + 1]
                 /\ source.wal # NoWal
        \/ source.wal.upto > source.db /\ source' = [source EXCEPT !.db = now]
        \/ source.wal # NoWal /\ source.wal.upto <= source.db
           /\ source' = [source EXCEPT !.wal = NoWal]
  /\ UNCHANGED <<library, rebuilt, purged, command, page, job, exported, broken, clock, recoveries>>

-----------------------------------------------------------------------------
(* The recovery section.  One operation at a time is under way; it is the  *)
(* list of the steps that it still has to take.                            *)

(* LegacyReadSnapshot and with_legacy_snapshot *)
Snapshot == <<"inventory db", "inventory wal", "copy db", "copy wal", "check db", "check wal",
              "read", "check db", "check wal">>
ReadLibrary == <<"list", "versions">>
LegacyPreview == <<"inspect">> \o Snapshot \o <<"answer">> \o ReadLibrary \o <<"plan">>
LegacyRestore == <<"lock", "inspect">> \o Snapshot
                 \o <<"same hash", "inventory db", "inventory wal", "same hash",
                      "same plan", "begin", "check db", "check wal", "commit">>

Start(op, policy, steps) ==
  /\ job = NoJob
  /\ recoveries < MaxRecoveries /\ recoveries' = recoveries + 1
  /\ job' = Job(op, policy, steps)
  /\ UNCHANGED <<library, rebuilt, purged, command, source, exported, broken, clock>>

(* handleExport, handleFileSelection, handleLegacyPreview, handleExecute *)
Export == Start("export", "none", ReadLibrary \o <<"hand out">>) /\ UNCHANGED page

PreviewFile ==
  /\ Start("preview", "none", ReadLibrary \o <<"plan">>)
  /\ \E file \in Backups : page' = [NoPage EXCEPT !.kind = "backup", !.document = file]

PreviewLegacy ==
  Start("preview", "none", LegacyPreview) /\ page' = [NoPage EXCEPT !.kind = "legacy"]

Execute(policy) ==
  /\ page.plan # NoPlan
  /\ Start("restore", policy,
           IF page.kind = "legacy" THEN LegacyRestore
           ELSE <<"lock", "same plan", "begin", "commit">>)
  /\ UNCHANGED page

Doing(step) == job.steps # <<>> /\ Head(job.steps) = step
Done(j) == [j EXCEPT !.steps = Tail(@)]
Stays == UNCHANGED <<library, rebuilt, purged, source, exported, broken, clock, recoveries>>

Unlocked == IF job.op = "restore" /\ ~Doing("lock") THEN Free ELSE command
Refused == job' = NoJob /\ command' = Unlocked /\ UNCHANGED page
RefusedAsStale == job' = NoJob /\ command' = Unlocked /\ page' = [page EXCEPT !.plan = NoPlan]
Continue(j) == job' = Done(j) /\ UNCHANGED <<command, page>>

Lock ==
  /\ Doing("lock") /\ command = Free
  /\ command' = Restoring /\ job' = Done(job)
  /\ UNCHANGED page /\ Stays

(* inspect_legacy_path, on a snapshot of its own *)
Inspect ==
  /\ Doing("inspect")
  /\ Continue([job EXCEPT !.inspected = source.db])
  /\ Stays

InventoryFile ==
  /\ \/ Doing("inventory db") /\ Continue([job EXCEPT !.inventory.db = source.db])
     \/ Doing("inventory wal") /\ Continue([job EXCEPT !.inventory.wal = source.wal])
  /\ Stays

(* The log is copied if it was there when the inventory was made. *)
CopyFile ==
  /\ \/ Doing("copy db") /\ Continue([job EXCEPT !.copy.db = source.db])
     \/ /\ Doing("copy wal")
        /\ IF job.inventory.wal # NoWal /\ source.wal = NoWal THEN Refused
           ELSE Continue([job EXCEPT !.copy.wal =
                            IF job.inventory.wal = NoWal THEN NoWal ELSE source.wal])
  /\ Stays

(* Fault: a source that changes while it is copied is not noticed. *)
CheckFileAtCommit ==
  /\ Doing("check db") \/ Doing("check wal")
  /\ IF job.begun /\ source # job.inventory THEN Refused ELSE Continue(job)
  /\ Stays

(* verify_legacy_source_unchanged *)
CheckFile ==
  /\ \/ Doing("check db")
        /\ IF source.db = job.inventory.db THEN Continue(job) ELSE Refused
     \/ Doing("check wal")
        /\ IF source.wal = job.inventory.wal THEN Continue(job) ELSE Refused
  /\ Stays

DocumentAt(n) == IF n = 0 THEN <<>> ELSE Normalized(Legacy[n])

(* read_legacy_recovery_document, from the copies *)
ReadDocument ==
  /\ Doing("read")
  /\ LET n == Holds(job.copy.db, job.copy.wal)
     IN IF job.inventory.db = job.inspected /\ ValidDocument(DocumentAt(n))
        THEN Continue([job EXCEPT !.read = n]) ELSE Refused
  /\ Stays

AnswerPreview ==
  /\ Doing("answer")
  /\ page' = [page EXCEPT !.document = DocumentAt(job.read), !.hash = job.inspected]
  /\ job' = Done(job)
  /\ UNCHANGED command /\ Stays

Summary(row) == [meta |-> row.meta, versions |-> <<>>]

(* getRecoveryLibrary of promptApi.ts: one command lists the prompts, in   *)
(* the trash or not, and one for each of them its versions.                *)
ListPrompts ==
  /\ Doing("list") /\ command = Free
  /\ Continue([job EXCEPT !.left = DOMAIN library,
                 !.seen = [s \in DOMAIN library |-> Summary(library[s])]])
  /\ Stays

ListPromptVersions ==
  /\ Doing("versions") /\ command = Free
  /\ IF job.left = {} THEN Continue(job)
     ELSE \E s \in job.left :
            IF s \notin DOMAIN library THEN Refused
            ELSE /\ job' = [job EXCEPT !.left = @ \ {s},
                              !.seen[s].versions = library[s].versions]
                 /\ UNCHANGED <<command, page>>
  /\ Stays

(* Fault: the file is handed out without being parsed again. *)
HandOutUnverified ==
  /\ Doing("hand out")
  /\ exported' = Document(job.seen)
  /\ job' = NoJob
  /\ UNCHANGED <<library, rebuilt, purged, command, source, page, broken, clock, recoveries>>

(* exportVerifiedBackup *)
HandOut ==
  /\ Doing("hand out")
  /\ exported' = IF Valid(Document(job.seen)) THEN Document(job.seen) ELSE exported
  /\ job' = NoJob
  /\ UNCHANGED <<library, rebuilt, purged, command, source, page, broken, clock, recoveries>>

ShowPlan ==
  /\ Doing("plan")
  /\ page' = IF Valid(page.document)
             THEN [page EXCEPT !.plan = BuildRestorePlan(Normalized(page.document), job.seen)]
             ELSE page
  /\ job' = NoJob
  /\ UNCHANGED command /\ Stays

-----------------------------------------------------------------------------
(* execute_legacy_restore and execute_backup_restore, under the mutex. *)

Restored == IF page.kind = "legacy" THEN DocumentAt(job.read) ELSE Normalized(page.document)

(* Only the hash of the database file is compared, not that of its log. *)
SameHash ==
  /\ Doing("same hash")
  /\ IF page.hash = (IF job.inventory = NoFiles THEN job.inspected ELSE job.inventory.db)
     THEN Continue(job) ELSE RefusedAsStale
  /\ Stays

SamePlan ==
  /\ Doing("same plan")
  /\ IF ~ValidDocument(Restored) THEN Refused
     ELSE IF page.plan = RebuiltPlan(Restored) THEN Continue(job)
     ELSE RefusedAsStale
  /\ Stays

(* The transaction is deferred: another process may write until its first  *)
(* statement.                                                              *)
BeginTransaction ==
  /\ Doing("begin")
  /\ Continue([job EXCEPT !.begun = TRUE])
  /\ Stays

Failure == [ok |-> FALSE, library |-> <<>>]

(* Fault: the statement replaces a prompt that has the slug. *)
InsertOrReplacePrompt(lib, source_, slug, meta) ==
  [ok |-> TRUE,
   library |-> With(lib, slug, [meta |-> meta, trashed |-> FALSE,
                                versions |-> source_.versions])]

InsertRecoveryPrompt(lib, source_, slug, meta) ==
  IF slug \in DOMAIN lib THEN Failure
  ELSE [ok |-> TRUE,
        library |-> With(lib, slug, [meta |-> meta, trashed |-> FALSE,
                                     versions |-> source_.versions])]

ApplyEntry(policy, document, entry, lib) ==
  LET prompt == CHOOSE p \in ToSet(document) : p.slug = entry.slug
      missing == Selected(prompt.versions,
                   {i \in DOMAIN prompt.versions : Identity(prompt.versions[i]) \in entry.missing})
  IN CASE entry.kind = "new-prompt" ->
            InsertRecoveryPrompt(lib, prompt, prompt.slug, prompt.meta)
       [] entry.kind # "new-prompt" /\ policy = "skip-existing" ->
            [ok |-> TRUE, library |-> lib]
       [] entry.kind # "new-prompt" /\ policy = "import-as-copy" ->
            InsertRecoveryPrompt(lib, prompt, entry.copySlug, Copied(prompt.meta))
       [] entry.kind # "new-prompt" /\ policy = "add-missing-versions" ->
            IF missing = <<>> THEN [ok |-> TRUE, library |-> lib]
            ELSE IF prompt.slug \notin DOMAIN lib THEN Failure
            ELSE [ok |-> TRUE, library |-> [lib EXCEPT ![prompt.slug].versions = @ \o missing]]

ApplyPlan(policy, document, entries, lib) ==
  LET after[i \in 0..Len(entries)] ==
        IF i = 0 THEN [ok |-> TRUE, library |-> lib]
        ELSE LET before == after[i - 1]
             IN IF before.ok THEN ApplyEntry(policy, document, entries[i], before.library)
                ELSE before
  IN after[Len(entries)]

(* A statement may fail, and everything is rolled back. *)
Commit ==
  /\ Doing("commit")
  /\ LET result == ApplyPlan(job.policy, Restored, page.plan.entries, library)
     IN \/ result.ok /\ library' = result.library
        \/ UNCHANGED library
  /\ job' = NoJob /\ command' = Free
  /\ UNCHANGED <<rebuilt, purged, source, page, exported, broken, clock, recoveries>>

-----------------------------------------------------------------------------
Init ==
  /\ library = <<>> /\ purged = {} /\ rebuilt \in BOOLEAN
  /\ command = Free
  /\ source = [db |-> 1, wal |-> NoWal]
  /\ page = NoPage /\ job = NoJob
  /\ exported = NoFile
  /\ broken = {}
  /\ clock = 0 /\ recoveries = 0

PromptCommand ==
  \/ \E s \in UserSlugs, t \in Titles, ls \in SUBSET Labels, d \in Drafts :
       CreatePrompt(s, t, ls, d)
  \/ \E s \in DOMAIN library, d \in Drafts : AddPromptVersion(s, d)
  \/ \E s \in DOMAIN library, t \in Titles, ls \in SUBSET Labels : UpdateRow(s, t, ls)
  \/ UnlinkTags \/ StoreTag
  \/ \E s \in DOMAIN library : DeleteTags(s)
  \/ DeleteVersions \/ DeleteRow

Recovery ==
  \/ Export \/ PreviewFile \/ PreviewLegacy
  \/ \E policy \in Policies : Execute(policy)
  \/ Lock \/ Inspect \/ InventoryFile \/ CopyFile \/ CheckFile \/ ReadDocument
  \/ AnswerPreview \/ ListPrompts \/ ListPromptVersions \/ HandOut \/ ShowPlan
  \/ SameHash \/ SamePlan \/ BeginTransaction \/ Commit

Next == PromptCommand \/ Recovery \/ NodeProcess \/ LegacyApplication \/ Crash

Spec == Init /\ [][Next]_vars

-----------------------------------------------------------------------------
(* A prompt has a version unless its deletion was begun and did not end,     *)
(* and the mutex is held by the restore that works under it.                 *)
TypeOK ==
  /\ \A s \in DOMAIN library :
       /\ library[s].meta \in Meta
       /\ library[s].trashed \in BOOLEAN
       /\ library[s].versions \in Seq(Version)
       /\ library[s].versions = <<>> => s \in broken
  /\ command = Restoring => job.op = "restore" /\ ~Doing("lock")
  /\ job.begun => command = Restoring
  /\ source.wal.base <= source.db
  /\ rebuilt \in BOOLEAN

(* The document read from the copies of the earlier database is what that   *)
(* database held at one moment, although the database and its log are copied *)
(* one after the other while it is written and its log begun again.          *)
NotTorn ==
  page.kind = "legacy" /\ (Doing("answer") \/ Doing("same plan")) => job.read # 0

(* A file that is handed out as verified holds no prompt without its history, *)
(* though a deletion that was cut short leaves such prompts in the library,   *)
(* and prompts come and go between the reads of an export; only such deletions *)
(* leave a prompt without its history.                                        *)
ExportsAreWhole == TypeOK /\ Valid(exported)

(* What a restore commits is what the plan that the user was shown announced,  *)
(* with the document of that plan, whatever the source has become since: a new *)
(* prompt or a copy has the whole history of its source, a merged prompt the   *)
(* versions it missed.  No prompt, not even one that another process wrote     *)
(* since the plan was compared, loses anything.                                *)
Announced(entry, lib) ==
  LET p == CHOOSE q \in ToSet(page.plan.document) : q.slug = entry.slug
  IN CASE entry.kind = "new-prompt" -> lib[p.slug].versions = p.versions
       [] entry.kind # "new-prompt" /\ job.policy = "skip-existing" -> TRUE
       [] entry.kind # "new-prompt" /\ job.policy = "import-as-copy" ->
            lib[entry.copySlug].versions = p.versions
       [] entry.kind # "new-prompt" /\ job.policy = "add-missing-versions" ->
            entry.missing \subseteq (IF p.slug \in DOMAIN lib THEN Identities(lib[p.slug].versions)
                                     ELSE {})

CommitStep ==
  Doing("commit") /\ library' # library =>
    /\ \A s \in DOMAIN library :
         /\ s \in DOMAIN library' /\ library'[s].meta = library[s].meta
         /\ IsPrefix(library[s].versions, library'[s].versions)
    /\ \A e \in ToSet(page.plan.entries) : Announced(e, library')

RestoredAsShown == [][CommitStep]_vars

(* docs/SPEC.md:17: prompts can be deleted; a delete command that ends has    *)
(* removed the prompt, rather than only its tags and versions.                 *)
DeleteRemoves ==
  [][command.op = "delete row" /\ command'.op = "free" /\ clock' = clock
       => command.slug \notin DOMAIN library']_vars

=============================================================================
