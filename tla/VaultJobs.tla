------------------------------- MODULE VaultJobs -------------------------------
(***************************************************************************)
(* The longer jobs of the command line and of the MCP server: imports of   *)
(* bundles and files, tool calls that read a prompt and then write it,     *)
(* diagnosis and repair, snapshots, and the migration of the tags of an    *)
(* earlier application.  Several such jobs, each in a process or a request *)
(* of its own, take their statements in turn on one database file.         *)
(*                                                                         *)
(* Abstractions: a body is one of six classes, told apart by what the      *)
(* parsers of JSON and YAML say of it, as it is and once it is trimmed:    *)
(* detection trims, validation does not.  The latest version is the last   *)
(* one added (PromptRepository models the times).  A call that checks a    *)
(* row and then writes it is one step (SharedDatabase splits those).  The  *)
(* label catalogue is in TagService; here `labels' are those of a prompt,  *)
(* and a sidecar that cannot be written is an action of its own.           *)
(***************************************************************************)
EXTENDS Integers, Sequences, FiniteSets, SequencesExt

CONSTANTS
  Slugs, Titles, Labels,  \* what rows and requests are made of
  Clients,      \* jobs that may be under way at once
  Library,      \* the prompts at the start
  Requests,     \* the jobs that may be asked for
  Desktop,      \* versions the desktop application may add, unchecked
  Sources,      \* Sources[n]: the earlier tag database after n - 1 changes
  AppTags,      \* labels the application itself may give: [name, entity]
  MaxRequests,  \* bound on jobs
  MaxEvents     \* bound on what others do: desktop, earlier application, crash

VARIABLES
  prompts,   \* id -> [slug, title, labels, trashed, versions]
  snapshot,  \* the rows in the snapshot file
  bundle,    \* the prompts in the bundle file
  files,     \* [slug, format] -> [id, body], the files of a bulk export
  sidecar,   \* [tags, taggings], the target of the migration
  legacy,    \* how far the earlier tag database has come
  job,       \* client -> the job it runs
  lastId,    \* the last id given
  requests, events

vars == <<prompts, snapshot, bundle, files, sidecar, legacy, job, lastId, requests, events>>

NoJob ==
  [op |-> "none", phase |-> "none", policy |-> "create", keepGoing |-> FALSE,
   items |-> <<>>, id |-> 0, done |-> <<>>, failed |-> {}, read |-> <<>>, left |-> {},
   before |-> <<>>, foreign |-> {}]

-----------------------------------------------------------------------------
(* domain/conversion.ts *)

(* An indented text is a YAML mapping, and a padded one a JSON object,     *)
(* only once trimmed: bodies are stored as they come.                      *)
OnceTrimmed == {"indented", "padded"}
Bodies == {"text", "mapping", "object", "broken"} \cup OnceTrimmed
Formats == {"markdown", "yaml", "json"}

ValidContent(body, format) ==
  CASE format = "markdown" -> TRUE
    [] format = "yaml" -> body \notin OnceTrimmed \cup {"broken"}
    [] format = "json" -> body = "object"

(* Fault: what starts like a list or a mapping is taken for YAML unparsed. *)
DetectedUnparsed(body) ==
  CASE body \in {"object", "padded"} -> "json"
    [] body \in {"mapping", "indented", "broken"} -> "yaml"
    [] body = "text" -> "markdown"

Detected(body) ==
  CASE body \in {"object", "padded"} -> "json"
    [] body \in {"mapping", "indented"} -> "yaml"
    [] body \in {"text", "broken"} -> "markdown"

(* A scalar counts as an object or a mapping once it is written as one. *)
Converted(body, from, to) ==
  IF from = to THEN body
  ELSE CASE to = "json" -> "object"
         [] to = "yaml" -> "mapping"
         [] to = "markdown" -> "text"

-----------------------------------------------------------------------------
(* Rows *)

Versions == [semver : Nat, body : Bodies, format : Formats]
Rows ==
  [slug : Slugs, title : Titles, labels : SUBSET Labels, trashed : Nat, versions : Seq(Versions)]
Items ==
  [slug : Slugs, title : Titles, labels : SUBSET Labels, semver : Nat, body : Bodies,
   format : Formats, wellFormed : BOOLEAN]

(* What is asked for: files, bundles and tool calls that a parser has read. *)
Strategies == {"create", "skip", "addVersion"}
WithItem == {"write", "duplicate", "convert", "edit", "update", "version"}
Jobs ==
  [op : WithItem \cup {"import", "importFile", "trash", "restore", "purge", "delete", "restoreLatest",
                       "repair", "export", "snapshot", "restoreSnapshot", "migrate"},
   policy : Strategies, keepGoing : BOOLEAN, items : Seq(Items)]
  \cup [op : {"bulkExport"}, policy : Formats \cup {"asIs"}, keepGoing : BOOLEAN, items : {<<>>}]

(* The library at the start obeys the constraints of its tables, and a job *)
(* on one text was given that text.                                        *)
ASSUME JobsAssumption ==
  /\ DOMAIN Library = 1..Cardinality(DOMAIN Library) /\ Cardinality(DOMAIN Library) \in Nat
  /\ \A id \in DOMAIN Library : Library[id] \in Rows /\ Library[id].versions # <<>>
  /\ \A i, k \in DOMAIN Library : Library[i].slug = Library[k].slug => i = k
  /\ Desktop \subseteq Versions
  /\ Requests \subseteq Jobs
  /\ \A request \in Requests : request.op \in WithItem => request.items # <<>>

Active(id) == id \in DOMAIN prompts /\ prompts[id].trashed = 0
IdsOf(slug) == {id \in DOMAIN prompts : prompts[id].slug = slug}
Latest(id) == Last(prompts[id].versions)
Slug(id) == IF id \in DOMAIN prompts THEN {prompts[id].slug} ELSE {}
Trash == {id \in DOMAIN prompts : prompts[id].trashed > 0}
Newest(ids) == CHOOSE id \in ids : \A i \in ids : prompts[i].trashed <= prompts[id].trashed

Version(item) == [semver |-> item.semver, body |-> item.body, format |-> item.format]

(* promptInputSchema, validatePromptContent and the constraints of the row. *)
Creatable(item) ==
  /\ item.wellFormed
  /\ ValidContent(item.body, item.format)
  /\ IdsOf(item.slug) = {}

(* f with one more value, or another one *)
With(f, x, value) == [y \in DOMAIN f \cup {x} |-> IF y = x THEN value ELSE f[y]]

(* The job of c goes on as j; the others see the slugs it touched. *)
Become(c, j, touched) ==
  job' = [d \in Clients |->
            IF d = c THEN j
            ELSE IF job[d].op = "none" THEN NoJob
            ELSE [job[d] EXCEPT !.foreign = @ \cup touched]]

After(items) == IF items = <<>> THEN "done" ELSE "next"

Stored(c) ==
  [job[c] EXCEPT !.items = Tail(@), !.phase = After(Tail(job[c].items)),
                 !.done = Append(@, Head(job[c].items))]

(* What is thrown ends the job, or is noted and the next item taken. *)
Thrown(c) ==
  IF job[c].items # <<>> /\ job[c].keepGoing
  THEN [job[c] EXCEPT !.items = Tail(@), !.phase = After(Tail(job[c].items)),
                      !.failed = @ \cup {Head(job[c].items).slug}]
  ELSE [job[c] EXCEPT !.phase = "failed"]

Item(c) == Head(job[c].items)
In(c, phase) == job[c].phase = phase
Outside == <<snapshot, bundle, files, legacy>>
Migrating == <<prompts, Outside, lastId, requests, events>>
Aside == <<Outside, sidecar, requests, events>>

-----------------------------------------------------------------------------
(* The jobs that may be asked for *)

Job(op, policy, keepGoing, items) ==
  [op |-> op, policy |-> policy, keepGoing |-> keepGoing, items |-> items]

FirstNumber == 1
Numbered(items) == [i \in DOMAIN items |-> [items[i] EXCEPT !.semver = FirstNumber]]

(* The command `import': one file. *)
ImportFile(item) == Job("import", "create", FALSE, Numbered(<<item>>))

(* The command `bulk-import': one file after the other. *)
BulkImport(items, skipErrors) == Job("import", "create", skipErrors, Numbered(items))

(* The tool `importPrompts' never stops. *)
ImportTool(items) == Job("import", "create", TRUE, Numbered(items))

(* The tool pv_import_prompts stores Markdown, and never stops either; the *)
(* tasks of a planner's bucket are such prompts, with one more label.      *)
PvImportPrompts(items) ==
  Job("import", "create", TRUE,
      [i \in DOMAIN items |-> [Numbered(items)[i] EXCEPT !.format = "markdown"]])
PlannerBucket(items) ==
  PvImportPrompts([i \in DOMAIN items |-> [items[i] EXCEPT !.labels = @ \cup {"planner-aido"}]])

(* A bundle keeps the numbers of its versions; the first failure stops it. *)
ImportBundle(items, strategy) == Job("import", strategy, FALSE, items)
ImportBundleFile(strategy) == Job("importFile", strategy, FALSE, <<>>)

(* The other jobs: on one prompt, and on all. *)
OnPrompt(op, items) == Job(op, "create", FALSE, items)
BulkExport(format, skipErrors) == Job("bulkExport", format, skipErrors, <<>>)
OnLibrary(op) == Job(op, "create", FALSE, <<>>)

-----------------------------------------------------------------------------
(* Beginning and end *)

OnOne == {"write", "duplicate", "convert", "edit", "update", "version",
          "trash", "restore", "purge", "delete"}

(* Some jobs begin in the middle of the steps of an import. *)
FirstPhase(op, items) ==
  CASE op \in {"import", "importFile"} -> After(items)
    [] op \in {"update", "version"} -> op
    [] OTHER -> "begun"

Opened(request) ==
  LET items == IF request.op = "importFile" THEN bundle ELSE request.items
  IN [NoJob EXCEPT !.op = IF request.op = "importFile" THEN "import" ELSE request.op,
                   !.policy = request.policy, !.keepGoing = request.keepGoing,
                   !.items = items, !.before = prompts,
                   !.left = IF request.op = "bulkExport" THEN DOMAIN prompts ELSE {},
                   !.phase = FirstPhase(request.op, items)]

(* A tool call names a prompt by an id its caller saw in some listing. *)
Begin(c, request) ==
  /\ job[c].op = "none" /\ requests < MaxRequests
  /\ requests' = requests + 1
  /\ \E id \in IF request.op \in OnOne THEN DOMAIN prompts ELSE {0} :
       Become(c, [Opened(request) EXCEPT !.id = id], {})
  /\ UNCHANGED <<prompts, Outside, sidecar, lastId, events>>

(* The answer is given and, at the command line, the database closed. *)
End(c) ==
  /\ job[c].phase \in {"done", "failed"}
  /\ Become(c, NoJob, {})
  /\ UNCHANGED <<prompts, lastId, Aside>>

-----------------------------------------------------------------------------
(* Imports of bundles and files *)

Resolve(c) ==
  /\ In(c, "next")
  /\ LET ids == {id \in IdsOf(Item(c).slug) : Active(id)} IN
       CASE job[c].policy = "create" \/ ids = {} ->
              Become(c, [job[c] EXCEPT !.phase = "create"], {})
         [] job[c].policy = "skip" /\ ids # {} -> Become(c, Stored(c), {})
         [] job[c].policy = "addVersion" /\ ids # {} ->
              \E id \in ids : Become(c, [job[c] EXCEPT !.phase = "update", !.id = id], {})
  /\ UNCHANGED <<prompts, lastId, Aside>>

Throw(c) == Become(c, Thrown(c), {}) /\ UNCHANGED <<prompts, lastId, Aside>>

(* createPrompt: the row and its version in one transaction, *)
CreateRow(c) ==
  /\ In(c, "create") /\ Creatable(Item(c))
  /\ prompts' = With(prompts, lastId + 1,
       [slug |-> Item(c).slug, title |-> Item(c).title, labels |-> {},
        trashed |-> 0, versions |-> <<Version(Item(c))>>])
  /\ lastId' = lastId + 1
  /\ Become(c, [job[c] EXCEPT !.phase = "tag", !.id = lastId + 1], {Item(c).slug})
  /\ UNCHANGED Aside

Refuse(c) == In(c, "create") /\ ~Creatable(Item(c)) /\ Throw(c)

(* then its labels in the other database, then it is read again. *)
TagRow(c) ==
  /\ In(c, "tag")
  /\ IF job[c].id \in DOMAIN prompts
     THEN prompts' = [prompts EXCEPT ![job[c].id].labels = @ \cup Item(c).labels]
     ELSE UNCHANGED prompts
  /\ Become(c, IF Active(job[c].id) THEN Stored(c) ELSE Thrown(c), Slug(job[c].id))
  /\ UNCHANGED <<lastId, Aside>>

(* updatePrompt: the row, then its labels, then it is read again; *)
UpdateRow(c) ==
  /\ In(c, "update") /\ Active(job[c].id)
  /\ prompts' = [prompts EXCEPT ![job[c].id].title = Item(c).title]
  /\ Become(c, [job[c] EXCEPT !.phase = "relabel"], Slug(job[c].id))
  /\ UNCHANGED <<lastId, Aside>>

AfterLabels(c) == IF job[c].op = "update" THEN "number" ELSE "version"

(* Fault: a known prompt is given no new version. *)
RelabelLast(c) ==
  /\ In(c, "relabel")
  /\ IF job[c].id \in DOMAIN prompts
     THEN prompts' = [prompts EXCEPT ![job[c].id].labels = Item(c).labels]
     ELSE UNCHANGED prompts
  /\ Become(c, IF Active(job[c].id) THEN Stored(c) ELSE Thrown(c), Slug(job[c].id))
  /\ UNCHANGED <<lastId, Aside>>

Relabel(c) ==
  /\ In(c, "relabel")
  /\ IF job[c].id \in DOMAIN prompts
     THEN prompts' = [prompts EXCEPT ![job[c].id].labels = Item(c).labels]
     ELSE UNCHANGED prompts
  /\ Become(c, IF Active(job[c].id) THEN [job[c] EXCEPT !.phase = AfterLabels(c)] ELSE Thrown(c),
            Slug(job[c].id))
  /\ UNCHANGED <<lastId, Aside>>

(* addVersion, in a transaction of its own. *)
AddVersion(c) ==
  /\ In(c, "version") /\ Active(job[c].id) /\ ValidContent(Item(c).body, Item(c).format)
  /\ prompts' = [prompts EXCEPT ![job[c].id].versions = Append(@, Version(Item(c)))]
  /\ Become(c, Stored(c), {prompts[job[c].id].slug})
  /\ UNCHANGED <<lastId, Aside>>

(* The prompt went to the trash or for good, or its text does not parse. *)
Gone(c) ==
  /\ \/ (In(c, "update") \/ In(c, "number")) /\ ~Active(job[c].id)
     \/ In(c, "version") /\ ~(Active(job[c].id) /\ ValidContent(Item(c).body, Item(c).format))
  /\ Throw(c)

(* The database of the labels cannot be written. *)
SidecarFails(c) == (In(c, "tag") \/ In(c, "relabel")) /\ Throw(c)

-----------------------------------------------------------------------------
(* Calls of the MCP server and of the tools, and the command `edit' *)

Writes(c, phase, item) == Become(c, [job[c] EXCEPT !.phase = phase, !.items = <<item>>], {})

(* writePrompt keeps the number of the version it follows. *)
ReadForWrite(c) ==
  /\ job[c].op = "write" /\ In(c, "begun") /\ Active(job[c].id)
  /\ Writes(c, "version", [Item(c) EXCEPT !.semver = Latest(job[c].id).semver])
  /\ UNCHANGED <<prompts, lastId, Aside>>

Likeness(c, item) ==
  [item EXCEPT !.semver = Latest(job[c].id).semver, !.labels = prompts[job[c].id].labels]

ReadForCopy(c) ==
  /\ job[c].op = "duplicate" /\ In(c, "begun") /\ Active(job[c].id)
  /\ LET last == Latest(job[c].id) IN
       Writes(c, "create",
              [Likeness(c, Item(c)) EXCEPT !.body = last.body, !.format = last.format])
  /\ UNCHANGED <<prompts, lastId, Aside>>

(* convertPrompt: to a prompt of its own, or as the next version. *)
ReadForConversion(c) ==
  /\ job[c].op = "convert" /\ In(c, "begun") /\ Active(job[c].id)
  /\ LET last == Latest(job[c].id)
         to == Item(c).format
         item == [Likeness(c, Item(c)) EXCEPT !.body = Converted(last.body, last.format, to)]
     IN IF ValidContent(last.body, last.format)
        THEN Writes(c, IF job[c].policy = "create" THEN "create" ELSE "version", item)
        ELSE Become(c, Thrown(c), {})
  /\ UNCHANGED <<prompts, lastId, Aside>>

(* The tool pv_update_prompt reads the number that it raises once the row  *)
(* and its labels are written, and stores Markdown.                        *)
ReadForUpdate(c) ==
  /\ In(c, "number") /\ Active(job[c].id)
  /\ Writes(c, "version", [Item(c) EXCEPT !.semver = Latest(job[c].id).semver + 1,
                                         !.format = "markdown"])
  /\ UNCHANGED <<prompts, lastId, Aside>>

(* `edit' compares the text that comes back with the one it handed out.    *)
ReadForEdit(c) ==
  /\ job[c].op = "edit" /\ In(c, "begun") /\ Active(job[c].id)
  /\ LET last == Latest(job[c].id) IN
       IF Item(c).body = last.body
       THEN Become(c, [job[c] EXCEPT !.phase = "done"], {})
       ELSE Writes(c, "version", [Item(c) EXCEPT !.semver = last.semver + 1,
                                               !.format = last.format])
  /\ UNCHANGED <<prompts, lastId, Aside>>

(* pv_delete_prompt takes the labels off one by one and passes over what   *)
(* fails of that.                                                          *)
Unlabel(c) ==
  /\ job[c].op = "delete" /\ In(c, "begun") /\ Active(job[c].id)
  /\ \E kept \in SUBSET prompts[job[c].id].labels :
       prompts' = [prompts EXCEPT ![job[c].id].labels = kept]
  /\ Become(c, [job[c] EXCEPT !.phase = "purge"], Slug(job[c].id))
  /\ UNCHANGED <<lastId, Aside>>

NotFound(c) ==
  /\ job[c].op \in {"write", "duplicate", "convert", "edit", "trash", "delete"} /\ In(c, "begun")
  /\ ~Active(job[c].id)
  /\ Throw(c)

Finish(c, touched) == Become(c, [job[c] EXCEPT !.phase = "done"], touched)

SoftDelete(c) ==
  /\ job[c].op = "trash" /\ In(c, "begun") /\ Active(job[c].id)
  /\ prompts' = [prompts EXCEPT ![job[c].id].trashed =
                   1 + Max({prompts[i].trashed : i \in DOMAIN prompts})]
  /\ Finish(c, {prompts[job[c].id].slug})
  /\ UNCHANGED <<lastId, Aside>>

PermanentlyDelete(c) ==
  /\ In(c, "purge") \/ (job[c].op = "purge" /\ In(c, "begun"))
  /\ job[c].id \in DOMAIN prompts
  /\ prompts' = Restrict(prompts, DOMAIN prompts \ {job[c].id})
  /\ Finish(c, {prompts[job[c].id].slug})
  /\ UNCHANGED <<lastId, Aside>>

(* Neither the purge nor the move to the trash succeeds, and all is well.  *)
GoneAlready(c) ==
  /\ In(c, "purge") /\ job[c].id \notin DOMAIN prompts
  /\ Finish(c, {})
  /\ UNCHANGED <<prompts, lastId, Aside>>

(* restoreLatestTrash lists the trash, and only then restores. *)
ListTrash(c) ==
  /\ job[c].op = "restoreLatest" /\ In(c, "begun") /\ Trash # {}
  /\ Become(c, [job[c] EXCEPT !.phase = "restore", !.id = Newest(Trash)], {})
  /\ UNCHANGED <<prompts, lastId, Aside>>

RestoreTrash(c) ==
  /\ In(c, "restore") \/ (job[c].op = "restore" /\ In(c, "begun"))
  /\ job[c].id \in Trash
  /\ prompts' = [prompts EXCEPT ![job[c].id].trashed = 0]
  /\ Finish(c, {prompts[job[c].id].slug})
  /\ UNCHANGED <<lastId, Aside>>

NotInTrash(c) ==
  /\ \/ job[c].op = "restore" /\ In(c, "begun") /\ job[c].id \notin Trash
     \/ In(c, "restore") /\ job[c].id \notin Trash
     \/ job[c].op = "restoreLatest" /\ In(c, "begun") /\ Trash = {}
     \/ job[c].op = "purge" /\ In(c, "begun") /\ job[c].id \notin DOMAIN prompts
  /\ Throw(c)

-----------------------------------------------------------------------------
(* Diagnosis and repair.  getAllPrompts reads the trash too, getPromptById *)
(* does not: an invalid prompt in the trash is reported as an error.       *)

InvalidIds ==
  {id \in DOMAIN prompts : ~ValidContent(Latest(id).body, Latest(id).format)}

RunDiagnostics(c) ==
  /\ job[c].op = "repair" /\ In(c, "begun")
  /\ Become(c, [job[c] EXCEPT !.left = InvalidIds, !.before = prompts, !.foreign = {},
                              !.phase = IF InvalidIds = {} THEN "done" ELSE "repair"], {})
  /\ UNCHANGED <<prompts, lastId, Aside>>

(* What the latest version is now is not checked again. *)
Repair(c, id) ==
  /\ In(c, "repair") /\ id \in job[c].left
  /\ LET left == job[c].left \ {id}
         next == [job[c] EXCEPT !.left = left, !.phase = IF left = {} THEN "done" ELSE "repair"]
     IN IF Active(id)
        THEN /\ prompts' = [prompts EXCEPT ![id].versions[Len(prompts[id].versions)].format =
                              Detected(Latest(id).body)]
             /\ Become(c, next, {prompts[id].slug})
        ELSE /\ Become(c, [next EXCEPT !.failed = @ \cup {id}], {})
             /\ UNCHANGED prompts
  /\ UNCHANGED <<lastId, Aside>>

-----------------------------------------------------------------------------
(* Exports.  A bundle is made of rows read at once and labels read later.  *)

BundleItem(id) ==
  [slug |-> prompts[id].slug, title |-> prompts[id].title, labels |-> prompts[id].labels,
   semver |-> Latest(id).semver, body |-> Latest(id).body, format |-> Latest(id).format,
   wellFormed |-> TRUE]

Listed(c, ids) ==
  /\ job[c].op = "export" /\ In(c, "begun")
  /\ Become(c, [job[c] EXCEPT !.read = [id \in ids |-> BundleItem(id)], !.phase = "labels"], {})
  /\ UNCHANGED <<prompts, lastId, Aside>>

(* Fault: the rows of the trash are exported, too. *)
ListAllWithTrash(c) == Listed(c, DOMAIN prompts)

(* listAllPrompts *)
ListAll(c) == Listed(c, DOMAIN prompts \ Trash)

(* What is created last comes first.  A purge leaves the labels behind.    *)
ExportBundle(c) ==
  /\ In(c, "labels")
  /\ LET rows == job[c].read
         Nth(k) == CHOOSE id \in DOMAIN rows : Cardinality({i \in DOMAIN rows : i >= id}) = k
         labelled == [id \in DOMAIN rows |->
                        IF id \in DOMAIN prompts
                        THEN [rows[id] EXCEPT !.labels = prompts[id].labels] ELSE rows[id]]
         items == [k \in 1..Cardinality(DOMAIN rows) |-> labelled[Nth(k)]]
     IN /\ bundle' = items
        /\ Become(c, [job[c] EXCEPT !.phase = "done", !.done = items], {})
  /\ UNCHANGED <<prompts, snapshot, files, sidecar, legacy, lastId, requests, events>>

(* "{slug}" and the ending that belongs to the format. *)
FileName(id, format) == <<prompts[id].slug, format>>

(* bulkExportPrompts and exportPromptToFile, of one prompt. *)
ExportFile(c, id) ==
  /\ job[c].op = "bulkExport" /\ id \in job[c].left
  /\ LET left == job[c].left \ {id}
         to == IF job[c].policy = "asIs" THEN Latest(id).format ELSE job[c].policy
         file == [id |-> id, body |-> Converted(Latest(id).body, Latest(id).format, to)]
         Left(rest) == [job[c] EXCEPT !.left = rest, !.phase = IF rest = {} THEN "done" ELSE "begun"]
     IN IF /\ Active(id)
           /\ to = Latest(id).format \/ ValidContent(Latest(id).body, Latest(id).format)
        THEN /\ files' = With(files, FileName(id, to), file)
             /\ Become(c, [Left(left) EXCEPT !.done = Append(@, [name \in {FileName(id, to)} |-> file])], {})
        ELSE /\ Become(c, [Left(IF job[c].keepGoing THEN left ELSE {}) EXCEPT !.failed = @ \cup {id}], {})
             /\ UNCHANGED files
  /\ UNCHANGED <<prompts, snapshot, bundle, sidecar, legacy, lastId, requests, events>>

-----------------------------------------------------------------------------
(* Snapshots: one SELECT for each table, and no transaction around them.   *)
(* A version whose prompt was not read cannot be inserted again.           *)

SnapshotPrompts(c) ==
  /\ job[c].op = "snapshot" /\ In(c, "begun")
  /\ Become(c, [job[c] EXCEPT !.read = prompts, !.phase = "versions"], {})
  /\ UNCHANGED <<prompts, lastId, Aside>>

SnapshotVersions(c) ==
  /\ In(c, "versions")
  /\ snapshot' = [id \in DOMAIN job[c].read |->
                    [job[c].read[id] EXCEPT !.versions =
                       IF id \in DOMAIN prompts THEN prompts[id].versions ELSE <<>>]]
  /\ Finish(c, {})
  /\ UNCHANGED <<prompts, bundle, files, sidecar, legacy, lastId, requests, events>>

(* validateSnapshot: there is no snapshot file yet. *)
NoSnapshot(c) ==
  job[c].op = "restoreSnapshot" /\ In(c, "begun") /\ snapshot = <<>> /\ Throw(c)

(* restoreSnapshot: DELETE FROM each table in turn, with foreign keys off; *)
(* the versions left behind by the first DELETE belong to no prompt.       *)
ClearPrompts(c) ==
  /\ job[c].op = "restoreSnapshot" /\ In(c, "begun") /\ snapshot # <<>>
  /\ prompts' = <<>>
  /\ Become(c, [job[c] EXCEPT !.phase = "clear index", !.before = prompts],
            {prompts[id].slug : id \in DOMAIN prompts})
  /\ UNCHANGED <<lastId, Aside>>

(* The tables behind the index are among those listed, and the driver lets *)
(* no statement write them: the restore throws before its first INSERT.    *)
ClearIndex(c) == In(c, "clear index") /\ Throw(c)

-----------------------------------------------------------------------------
(* Migration of the earlier tag database (lib/legacy-tag-migration.ts).    *)
(* A name is a word and its case; names are compared without their case.   *)

Tags == UNION {Range(Sources[n].tags) : n \in DOMAIN Sources}
Taggings == UNION {Range(Sources[n].taggings) : n \in DOMAIN Sources}

(* The rows of the earlier database are read in some order; the ids that   *)
(* the application makes are random, and none is that of a tag there.      *)
ASSUME TagsAssumption ==
  /\ Sources \in Seq([tags : Seq(Tags), taggings : Seq(Taggings)]) /\ Sources # <<>>
  /\ \A tag \in Tags : DOMAIN tag = {"id", "name", "kind"}
  /\ \A tagging \in Taggings : DOMAIN tagging = {"id", "tag", "entity"}
  /\ \A label \in AppTags, tag \in Tags : label.id # tag.id

SameName(a, b) == a.name.word = b.name.word /\ a.kind = b.kind
WithId(tags, id) == {i \in DOMAIN tags : tags[i].id = id}
Alike(tags, tag) == {i \in DOMAIN tags : SameName(tags[i], tag)}
First(S) == CHOOSE i \in S : \A j \in S : i <= j

(* The constraint UNIQUE(name, kind) does regard the case. *)
Clash(tags, tag) ==
  \E i \in DOMAIN tags : tags[i].id # tag.id /\ tags[i].name = tag.name /\ tags[i].kind = tag.kind

(* One tag of the source: updated by its id, else one of its name is used, *)
(* else inserted.  `ids' says what each id of the source became.           *)
MergeTag(state, tag) ==
  LET own == WithId(state.tags, tag.id)
      alike == Alike(state.tags, tag)
      Noted(id) == With(state.ids, tag.id, id)
  IN IF own # {}
     THEN [state EXCEPT !.tags[First(own)] = tag, !.ids = Noted(tag.id),
                        !.sound = @ /\ ~Clash(state.tags, tag)]
     ELSE IF alike # {}
     THEN [state EXCEPT !.ids = Noted(state.tags[First(alike)].id)]
     ELSE [state EXCEPT !.tags = Append(@, tag), !.ids = Noted(tag.id)]

(* Fault: a tagging keeps the id its tag had in the source. *)
MergeTaggingUnmapped(state, tagging) ==
  IF \/ tagging.tag \notin DOMAIN state.ids
     \/ \E t \in state.taggings : t.tag = tagging.tag /\ t.entity = tagging.entity
     \/ \A i \in DOMAIN state.tags : state.tags[i].id # tagging.tag
  THEN state
  ELSE [state EXCEPT !.taggings = @ \cup {tagging},
                     !.sound = @ /\ \A t \in state.taggings : t.id # tagging.id]

(* Fault: a pair that is there is inserted again. *)
MergeTaggingAgain(state, tagging) ==
  IF tagging.tag \notin DOMAIN state.ids
  THEN state
  ELSE [state EXCEPT
          !.taggings = @ \cup {[tagging EXCEPT !.tag = state.ids[tagging.tag]]},
          !.sound = @ /\ \A t \in state.taggings : t.id # tagging.id]

(* One tagging: left out when its tag is unknown or the pair is there.     *)
MergeTagging(state, tagging) ==
  IF \/ tagging.tag \notin DOMAIN state.ids
     \/ \E t \in state.taggings :
           t.tag = state.ids[tagging.tag] /\ t.entity = tagging.entity
  THEN state
  ELSE [state EXCEPT
          !.taggings = @ \cup {[tagging EXCEPT !.tag = state.ids[tagging.tag]]},
          !.sound = @ /\ \A t \in state.taggings : t.id # tagging.id]

Merged(target, source) ==
  LET tagged[n \in 0..Len(source.tags)] ==
        IF n = 0 THEN [tags |-> target.tags, taggings |-> target.taggings,
                       ids |-> <<>>, sound |-> TRUE]
        ELSE MergeTag(tagged[n - 1], source.tags[n])
      joined[n \in 0..Len(source.taggings)] ==
        IF n = 0 THEN tagged[Len(source.tags)]
        ELSE MergeTagging(joined[n - 1], source.taggings[n])
  IN joined[Len(source.taggings)]

ReadTags(c) ==
  /\ job[c].op = "migrate" /\ In(c, "begun")
  /\ Become(c, [job[c] EXCEPT !.read = [tags |-> Sources[legacy].tags], !.phase = "taggings"], {})
  /\ UNCHANGED <<prompts, lastId, Aside>>

ReadTaggings(c) ==
  /\ In(c, "taggings")
  /\ Become(c, [job[c] EXCEPT !.read = [tags |-> @.tags, taggings |-> Sources[legacy].taggings],
                              !.phase = "migrate"], {})
  /\ UNCHANGED <<prompts, lastId, Aside>>

(* One transaction: a constraint that fails undoes all of it. *)
Migrate(c) ==
  /\ In(c, "migrate")
  /\ LET merged == Merged(sidecar, job[c].read) IN
       IF merged.sound
       THEN /\ sidecar' = [tags |-> merged.tags, taggings |-> merged.taggings]
            /\ Finish(c, {})
       ELSE Become(c, Thrown(c), {}) /\ UNCHANGED sidecar
  /\ UNCHANGED Migrating

-----------------------------------------------------------------------------
(* What others do *)

Event == events < MaxEvents /\ events' = events + 1

(* The desktop application stores a text in whatever format it was given.  *)
DesktopAdds(id, version) ==
  /\ Active(id) /\ Event
  /\ prompts' = [prompts EXCEPT ![id].versions = Append(@, version)]
  /\ job' = [c \in Clients |-> IF job[c].op = "none" THEN NoJob
                               ELSE [job[c] EXCEPT !.foreign = @ \cup {prompts[id].slug}]]
  /\ UNCHANGED <<Outside, sidecar, lastId, requests>>

LegacyMoves ==
  /\ legacy < Len(Sources) /\ Event
  /\ legacy' = legacy + 1
  /\ UNCHANGED <<prompts, snapshot, bundle, files, sidecar, job, lastId, requests>>

(* The application gives a label of its own in the target (TagService).    *)
AppTag(label) ==
  /\ Event
  /\ \A t \in sidecar.taggings : t.id # label.id
  /\ LET alike == Alike(sidecar.tags, label)
         tags == IF alike # {} THEN sidecar.tags
                 ELSE Append(sidecar.tags, [id |-> label.id, name |-> label.name,
                                            kind |-> label.kind])
         tag == IF alike # {} THEN tags[First(alike)].id ELSE label.id
     IN sidecar' = [tags |-> tags,
                    taggings |-> sidecar.taggings \cup
                      IF \E t \in sidecar.taggings : t.tag = tag /\ t.entity = label.entity
                      THEN {} ELSE {[id |-> label.id, tag |-> tag, entity |-> label.entity]}]
  /\ UNCHANGED <<prompts, Outside, job, lastId, requests>>

Crash(c) ==
  /\ job[c].op # "none" /\ Event
  /\ Become(c, NoJob, {})
  /\ UNCHANGED <<prompts, Outside, sidecar, lastId, requests>>

-----------------------------------------------------------------------------
Init ==
  /\ prompts = Library
  /\ lastId = Cardinality(DOMAIN Library)
  /\ snapshot = <<>> /\ bundle = <<>> /\ files = <<>>
  /\ sidecar = [tags |-> <<>>, taggings |-> {}]
  /\ legacy = 1
  /\ job = [c \in Clients |-> NoJob]
  /\ requests = 0 /\ events = 0

ImportStep(c) ==
  \/ Resolve(c) \/ CreateRow(c) \/ Refuse(c) \/ TagRow(c) \/ UpdateRow(c) \/ Relabel(c)
  \/ AddVersion(c) \/ Gone(c) \/ SidecarFails(c)

ToolStep(c) ==
  \/ ReadForWrite(c) \/ ReadForCopy(c) \/ ReadForConversion(c) \/ NotFound(c)
  \/ ReadForUpdate(c) \/ ReadForEdit(c) \/ Unlabel(c) \/ GoneAlready(c)
  \/ SoftDelete(c) \/ PermanentlyDelete(c) \/ ListTrash(c) \/ RestoreTrash(c) \/ NotInTrash(c)

UpkeepStep(c) ==
  \/ RunDiagnostics(c)
  \/ \E id \in job[c].left : Repair(c, id)
  \/ ListAll(c) \/ ExportBundle(c)
  \/ \E id \in job[c].left : ExportFile(c, id)
  \/ SnapshotPrompts(c) \/ SnapshotVersions(c)
  \/ NoSnapshot(c) \/ ClearPrompts(c) \/ ClearIndex(c)
  \/ ReadTags(c) \/ ReadTaggings(c) \/ Migrate(c)

Step(c) == ImportStep(c) \/ ToolStep(c) \/ UpkeepStep(c) \/ End(c)

Others ==
  \/ \E id \in DOMAIN prompts, v \in Desktop : DesktopAdds(id, v)
  \/ LegacyMoves
  \/ \E label \in AppTags : AppTag(label)
  \/ \E c \in Clients : Crash(c)

Next ==
  \/ \E c \in Clients, request \in Requests : Begin(c, request)
  \/ \E c \in Clients : Step(c)
  \/ Others

Spec == Init /\ [][Next]_vars

-----------------------------------------------------------------------------
(* Types, and what the constraints of the tables say. *)
TypeOK ==
  /\ DOMAIN prompts \subseteq 1..lastId
  /\ \A i, k \in DOMAIN prompts : prompts[i].slug = prompts[k].slug => i = k
  /\ \A i \in DOMAIN prompts : prompts[i].versions # <<>>
  /\ \A t \in sidecar.taggings : \E i \in DOMAIN sidecar.tags : sidecar.tags[i].id = t.tag
  /\ \A i, k \in DOMAIN sidecar.tags : sidecar.tags[i].id = sidecar.tags[k].id => i = k
  /\ \A c \in Clients :
       /\ job[c].op = "none" <=> job[c].phase = "none"
       /\ job[c].phase \in {"next", "create", "tag", "update", "relabel", "version"} =>
            job[c].items # <<>>
       /\ job[c].phase = "repair" => job[c].left # {}
  /\ IsInjective([i \in DOMAIN bundle |-> bundle[i].slug])

(* The versions a library has of a slug, if it has that slug at all. *)
History(lib, slug) ==
  LET ids == {id \in DOMAIN lib : lib[id].slug = slug} IN
    IF ids = {} THEN <<>> ELSE lib[CHOOSE id \in ids : TRUE].versions

(* The items of a slug, in their order. *)
Named(items, slug) ==
  LET named[n \in 0..Len(items)] ==
        IF n = 0 THEN <<>>
        ELSE IF items[n].slug = slug THEN Append(named[n - 1], items[n]) ELSE named[n - 1]
  IN named[Len(items)]

(* What those items leave of that history, in their order. *)
Grown(history, items, policy) ==
  LET all == history \o [i \in DOMAIN items |-> Version(items[i])]
  IN IF policy = "skip" THEN SubSeq(all, 1, IF history = <<>> /\ all # <<>> THEN 1 ELSE Len(history))
     ELSE all

(* An import has stored all of each item it got through, in their order,   *)
(* and nothing of those to come: an import that stops leaves a prefix.     *)
(* Slugs that others touched meanwhile, and that of the item under way or  *)
(* refused, are left out; the constraints of the tables hold throughout.   *)
(* (importPromptBundle stops at what is thrown; bulkImportPrompts and the  *)
(* tool importPrompts may go on.)                                          *)
ImportIsPrefix ==
  TypeOK /\
  \A c \in Clients : job[c].op = "import" =>
    LET j == job[c]
        aside == j.foreign \cup j.failed \cup
                 IF j.items = <<>> \/ j.phase = "next" THEN {} ELSE {Head(j.items).slug}
        slugs == {prompts[id].slug : id \in DOMAIN prompts}
                 \cup {j.before[id].slug : id \in DOMAIN j.before}
                 \cup {j.done[i].slug : i \in DOMAIN j.done}
    IN \A s \in slugs \ aside :
         History(prompts, s) =
           Grown(History(j.before, s), Named(j.done, s), j.policy)

(* Refused as before, though in the format that detection gives it. *)
RefusedAsDetected(id) ==
  Latest(id).body \in OnceTrimmed /\ Latest(id).format = Detected(Latest(id).body)

(* After a repair the latest version of every prompt not in the trash is   *)
(* one its parser accepts, but for those others touched since diagnosis    *)
(* and for a text that is parsed only once trimmed: that one is refused as *)
(* before in the format detected for it, and was reported as repaired      *)
(* (detectPromptFormat trims, validatePromptContent does not).             *)
RepairSettles ==
  \A c \in Clients : job[c].op = "repair" /\ job[c].phase = "done" =>
    \A id \in InvalidIds :
      \/ prompts[id].trashed > 0
      \/ prompts[id].slug \in job[c].foreign
      \/ RefusedAsDetected(id)

(* The bundle that an export answers with holds every prompt in use with   *)
(* its latest version and labels, and no other, but for those others       *)
(* touched since the export began.                                         *)
BundleIsWhole ==
  \A c \in Clients : job[c].op = "export" /\ job[c].phase = "done" =>
    \A id \in {i \in DOMAIN prompts : prompts[i].slug \notin job[c].foreign} :
      {item \in Range(job[c].done) : item.slug = prompts[id].slug} =
        IF Active(id) THEN {BundleItem(id)} ELSE {}

(* Each prompt that a bulk export reports as written has a file with its   *)
(* text, which no later file of that export replaced.                      *)
FilesAreOwn ==
  \A c \in Clients : job[c].op = "bulkExport" =>
    \A i \in DOMAIN job[c].done : \A name \in DOMAIN job[c].done[i] :
      LET file == job[c].done[i][name]
      IN Slug(file.id) \subseteq job[c].foreign \/ files[name] = file

(* What an export reports, of either kind, is what it wrote and all there  *)
(* was to write.                                                           *)
ExportsAreTrue == BundleIsWhole /\ FilesAreOwn

(* Who is tagged in the source is tagged in the target, with a tag of the   *)
(* same name and kind.                                                     *)
AssociationsKept(source, target) ==
  \A t \in Range(source.taggings) : \A i \in WithId(source.tags, t.tag) :
    \E u \in target.taggings : u.entity = t.entity
      /\ \E k \in WithId(target.tags, u.tag) : SameName(target.tags[k], source.tags[i])

(* Merging the same source again fails at no constraint and changes nothing. *)
RepeatChangesNothing(source, target) ==
  LET again == Merged(target, source)
  IN again.sound /\ again.tags = target.tags /\ again.taggings = target.taggings

(* A migration that has gone through has taken over every association, and *)
(* can be repeated.                                                        *)
MigrationsSettle ==
  [][\A c \in Clients : job[c].phase = "migrate" /\ job'[c].phase = "done" =>
       /\ AssociationsKept(job[c].read, sidecar')
       /\ RepeatChangesNothing(job[c].read, sidecar')]_vars

=============================================================================
