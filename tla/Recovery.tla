------------------------------- MODULE Recovery -------------------------------
(***************************************************************************)
(* Export, restore preview and restore execution, between a client that    *)
(* holds a file and a plan and a library that other sessions go on         *)
(* editing.  A restore is one SQLite transaction, so it is one action.     *)
(***************************************************************************)
EXTENDS RecoveryDomain

CONSTANTS
  UserSlugs,                      \* the slugs that sessions give to prompts
  Metas, Drafts,                  \* metadata, and versions not yet dated
  Files,                          \* the foreign files a client may choose
  MaxClock                        \* bound: the number of changes made

AnyMeta == [title : {m.title : m \in Metas}, copy : BOOLEAN]
Source == PromptWith(AnyMeta)

ASSUME OrderedByNumber == Drafts \subseteq [semver : Nat, body : Nat]
ASSUME SlugsAreSequences == UserSlugs \subseteq Slugs
ASSUME FilesHoldPrompts == Metas \subseteq AnyMeta /\ Files \subseteq Seq(Source)
ASSUME ClockCounts == MaxClock \in Nat

VARIABLES
  library,   \* slug -> [meta, trashed, versions], the rows of the database
  file,      \* the prompts of the file the client has chosen
  plan,      \* the plan of the last preview
  reply,     \* the answer to the client's last call
  clock

vars == <<library, file, plan, reply, clock>>

NoPlan == BuildRestorePlan(<<>>, <<>>)

Policies == {"skip-existing", "add-missing-versions", "import-as-copy"}

(* readRecoveryLibrary *)
Visible(lib) ==
  [s \in {t \in DOMAIN lib : ~lib[t].trashed} |->
    [meta |-> lib[s].meta, versions |-> lib[s].versions]]

-----------------------------------------------------------------------------
(* The restore transaction: a library, or a failure that rolls it back *)

Done(lib) == [ok |-> TRUE, library |-> lib]
Failure == [ok |-> FALSE, library |-> <<>>]

(* The slug is UNIQUE over the prompts in the trash, too. *)
InsertCompletePrompt(lib, source, slug, meta) ==
  IF slug \in DOMAIN lib THEN Failure
  ELSE Done([s \in DOMAIN lib \cup {slug} |->
         IF s = slug
         THEN [meta |-> meta, trashed |-> FALSE, versions |-> source.versions]
         ELSE lib[s]])

(* Metadata and tags of the current prompt stay. *)
MergeVersions(lib, source, missing) ==
  LET places == {i \in DOMAIN source.versions : Identity(source.versions[i]) \in missing}
  IN Done([lib EXCEPT ![source.slug].versions = @ \o Selected(source.versions, places)])

ApplyEntry(policy, document, entry, lib) ==
  LET source == document[CHOOSE i \in DOMAIN document : document[i].slug = entry.slug]
  IN CASE entry.kind = "new-prompt" ->
            InsertCompletePrompt(lib, source, source.slug, source.meta)
       [] entry.kind # "new-prompt" /\ policy = "skip-existing" -> Done(lib)
       [] entry.kind # "new-prompt" /\ policy = "import-as-copy" ->
            InsertCompletePrompt(lib, source, entry.copySlug, Copied(source.meta))
       [] entry.kind # "new-prompt" /\ policy = "add-missing-versions" ->
            MergeVersions(lib, source, entry.missing)

ApplyPlan(policy, document, entries, lib) ==
  LET after[i \in 0..Len(entries)] ==
        IF i = 0 THEN Done(lib)
        ELSE LET before == after[i - 1]
             IN IF before.ok THEN ApplyEntry(policy, document, entries[i], before.library)
                ELSE before
  IN after[Len(entries)]

-----------------------------------------------------------------------------
(* The client *)

Silent == [answer |-> "none", policy |-> "none"]
Answer(answer, policy) == [answer |-> answer, policy |-> policy]

Init ==
  /\ library = <<>>
  /\ file \in Files
  /\ plan = NoPlan
  /\ reply = Silent
  /\ clock = 0

SelectFile ==
  /\ file' \in Files
  /\ reply' = Silent
  /\ UNCHANGED <<library, plan, clock>>

(* The export is parsed again before it is handed out. *)
ExportBackupV2 ==
  LET document == Document(Visible(library))
  IN /\ file' = IF Valid(document) THEN document ELSE file
     /\ reply' = Answer(IF Valid(document) THEN "exported" ELSE "export refused", "none")
     /\ UNCHANGED <<library, plan, clock>>

PreviewBackupRestore ==
  /\ IF Valid(file)
     THEN /\ plan' = BuildRestorePlan(Normalized(file), Visible(library))
          /\ reply' = Answer("previewed", "none")
     ELSE plan' = plan /\ reply' = Answer("invalid", "none")
  /\ UNCHANGED <<library, file, clock>>

(* The plan goes on existing at the client, which may send it again.  A    *)
(* write that fails half-way rolls everything back.                        *)
ExecuteBackupRestore(policy) ==
  LET document == Normalized(file)
      matches == document = plan.document /\ PlanMatches(plan, document, Visible(library))
      result == ApplyPlan(policy, document, plan.entries, library)
  IN /\ plan # NoPlan
     /\ UNCHANGED <<file, plan>>
     /\ \/ /\ ~Valid(file)
           /\ reply' = Answer("invalid", policy)
           /\ UNCHANGED <<library, clock>>
        \/ /\ Valid(file) /\ ~matches
           /\ reply' = Answer("stale", policy)
           /\ UNCHANGED <<library, clock>>
        \/ /\ Valid(file) /\ matches
           /\ \/ /\ result.ok /\ clock < MaxClock
                 /\ reply' = Answer("committed", policy)
                 /\ library' = result.library
                 /\ clock' = clock + 1
              \/ /\ reply' = Answer(IF result.ok THEN "write failed" ELSE "failed", policy)
                 /\ UNCHANGED <<library, clock>>

-----------------------------------------------------------------------------
(* Other sessions; an edit, like a restore, takes a tick of the clock *)

Edit ==
  /\ clock < MaxClock
  /\ clock' = clock + 1
  /\ reply' = Silent
  /\ UNCHANGED <<file, plan>>

Dated(draft) == [semver |-> draft.semver, body |-> draft.body, created |-> clock']

CreatePrompt(slug, meta, draft) ==
  /\ Edit
  /\ slug \notin DOMAIN library
  /\ library' = [s \in DOMAIN library \cup {slug} |->
       IF s = slug
       THEN [meta |-> meta, trashed |-> FALSE, versions |-> <<Dated(draft)>>]
       ELSE library[s]]

(* Nothing keeps a semantic version, or a whole version, from being added twice. *)
AddVersion(slug, draft) ==
  /\ Edit
  /\ slug \in DOMAIN Visible(library)
  /\ library' = [library EXCEPT ![slug].versions = Append(@, Dated(draft))]

UpdatePrompt(slug, meta) ==
  /\ Edit
  /\ slug \in DOMAIN Visible(library) /\ library[slug].meta # meta
  /\ library' = [library EXCEPT ![slug].meta = meta]

SetTrashed(slug, trashed) ==
  /\ Edit
  /\ slug \in DOMAIN library /\ library[slug].trashed # trashed
  /\ library' = [library EXCEPT ![slug].trashed = trashed]

PermanentlyDelete(slug) ==
  /\ Edit
  /\ slug \in DOMAIN library
  /\ library' = [s \in DOMAIN library \ {slug} |-> library[s]]

-----------------------------------------------------------------------------

Next ==
  \/ SelectFile
  \/ ExportBackupV2
  \/ PreviewBackupRestore
  \/ \E policy \in Policies : ExecuteBackupRestore(policy)
  \/ \E s \in UserSlugs, m \in Metas, d \in Drafts : CreatePrompt(s, m, d)
  \/ \E s \in DOMAIN library, d \in Drafts : AddVersion(s, d)
  \/ \E s \in DOMAIN library, m \in Metas : UpdatePrompt(s, m)
  \/ \E s \in DOMAIN library, trashed \in BOOLEAN : SetTrashed(s, trashed)
  \/ \E s \in DOMAIN library : PermanentlyDelete(s)

Spec == Init /\ [][Next]_vars

-----------------------------------------------------------------------------
(* Properties *)

(* The library holds complete prompts only, none without a version. *)
TypeOK ==
  /\ \A s \in DOMAIN library :
       /\ s \in Slugs /\ library[s].meta \in AnyMeta
       /\ library[s].trashed \in BOOLEAN
       /\ library[s].versions \in Seq(Version) \ {<<>>}
  /\ clock \in 0..MaxClock

Restored == reply'.answer = "committed"

Sources == ToSet(plan.document)

(* The visible prompts as the set of the versions they hold. *)
Contents(visible) ==
  UNION {{s} \X Identities(visible[s].versions) : s \in DOMAIN visible}

SourceContents(sources) == UNION {{d.slug} \X Identities(d.versions) : d \in sources}

(* What the policy promises of the library that the preview was made of:   *)
(* skip-existing adds the prompts whose slug is not there, with their      *)
(* histories, add-missing-versions the versions that are not there, and    *)
(* import-as-copy one whole prompt per source, at a slug of its own.       *)
Promised(policy, before, after) ==
  LET fresh == {d \in Sources : d.slug \notin DOMAIN before}
  IN CASE policy = "skip-existing" ->
            Contents(after) = Contents(before) \cup SourceContents(fresh)
       [] policy = "add-missing-versions" ->
            Contents(after) = Contents(before) \cup SourceContents(Sources)
       [] policy = "import-as-copy" ->
            /\ Cardinality(DOMAIN after) = Cardinality(DOMAIN before) + Cardinality(Sources)
            /\ \A d \in Sources : \E s \in DOMAIN after \ DOMAIN before :
                 /\ IF d \in fresh THEN s = d.slug
                    ELSE s = CopySlug(d.slug, Last(s))
                 /\ after[s].versions = d.versions

(* A restore call either changes nothing or leaves exactly what the        *)
(* preview announced, on the very library that was previewed: edits made   *)
(* meanwhile, a call sent twice, a failed write or another file never mix  *)
(* with it.  The prompts that were there, the trash included, keep their   *)
(* metadata and their history as it was.                                   *)
RestoreStep ==
  /\ Restored =>
       /\ \A s \in DOMAIN library :
            /\ s \in DOMAIN library'
            /\ library'[s].meta = library[s].meta
            /\ library'[s].trashed = library[s].trashed
            /\ IsPrefix(library[s].versions, library'[s].versions)
       /\ Promised(reply'.policy, plan.library, Visible(library'))
  /\ reply'.policy # "none" /\ ~Restored => UNCHANGED library

RestoreAsPreviewed == [][RestoreStep]_vars

(* A restore into a library that could be exported puts no version twice   *)
(* into a history, whatever copies and merges preceded it, and makes no    *)
(* title too long, unless it copies a prompt whose title has no room for   *)
(* the suffix.  So the next export is refused for such a title or for the  *)
(* size of the whole library only.                                         *)
CopiesLongTitle ==
  /\ reply'.policy = "import-as-copy"
  /\ \E d \in Sources : d.slug \in DOMAIN plan.library /\ TooLong(Copied(d.meta))

ExportStep ==
  LET after == Document(Visible(library'))
  IN Restored /\ Valid(Document(Visible(library))) =>
       WellFormed(after) /\ (TitlesFit(after) \/ CopiesLongTitle)

OnlyLimitsRefuseExport == [][ExportStep]_vars

(* A fresh plan is carried out, unless it gives to a prompt a slug that is *)
(* in the trash, or to a copy the slug of a new prompt of the same file.   *)
Blocked(policy) ==
  \E e \in ToSet(plan.entries) :
    IF e.kind = "new-prompt" THEN e.slug \in DOMAIN library
    ELSE /\ policy = "import-as-copy"
         /\ \/ e.copySlug \in DOMAIN library \ DOMAIN Visible(library)
            \/ \E f \in ToSet(plan.entries) : f.kind = "new-prompt" /\ f.slug = e.copySlug

FreshPlanStep == reply'.answer = "failed" => Blocked(reply'.policy)

FreshPlanCommits == [][FreshPlanStep]_vars

(* The file of an export, previewed against the library it came from,      *)
(* asks for nothing; and a restore of it into an empty library gives the   *)
(* same prompts and histories.                                             *)
ExportRestoresItself ==
  /\ TypeOK
  /\ LET visible == Visible(library)
         document == Document(visible)
     IN Valid(document) =>
          /\ \A e \in ToSet(BuildRestorePlan(document, visible).entries) :
               e.kind = "existing-exact-duplicate"
          /\ \A policy \in Policies :
               LET result == ApplyPlan(policy, document,
                                       BuildRestorePlan(document, <<>>).entries, <<>>)
               IN /\ result.ok
                  /\ Contents(Visible(result.library)) = Contents(visible)
                  /\ \A s \in DOMAIN visible : result.library[s].meta = visible[s].meta

=============================================================================
