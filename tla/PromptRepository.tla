--------------------------- MODULE PromptRepository ---------------------------
(***************************************************************************)
(* The prompt tables of the main SQLite database, as PromptRepository      *)
(* changes them, with the full-text index that the triggers of migration   *)
(* 007 maintain.  One Node process runs one repository method at a time    *)
(* (better-sqlite3 is synchronous), so a method is one action;             *)
(* SharedDatabase.tla splits the methods that use no transaction.          *)
(*                                                                         *)
(* Abstractions: `title' stands for the indexed columns (title and         *)
(* description), `category' for the other ones (category, is_favorite,     *)
(* rating); a `body' carries its semantic version and changelog; labels    *)
(* are compared in lower case; `created' is a time in whole seconds, the   *)
(* resolution of datetime(created_at).  The checksum of a row is the       *)
(* payload that was hashed.  updated_at is left out.                       *)
(***************************************************************************)
EXTENDS Naturals

CONSTANTS
  PromptIds, Slugs, Titles, Categories,  \* the columns of a prompt row
  Bodies, Formats, Times,                \* the columns of a version row
  Labels,                                \* stored tag labels
  NoBody,                                \* the index's text for "no version"
  Keep,                                  \* a field that an update leaves out
  MaxRow                                 \* bound: the largest rowid of a table

ASSUME TimesAreNaturals == Times \subseteq Nat
ASSUME KeepIsNoValue == Keep \notin Titles \cup Categories

VARIABLES
  prompts,     \* table prompts: a function from the ids present to their rows
  versions,    \* table prompt_versions: a set of rows
  fts,         \* virtual table prompts_fts: a set of entries
  tags,        \* table tags: the labels present
  promptTags   \* table prompt_tags: pairs of an id and a label

vars == <<prompts, versions, fts, tags, promptTags>>

-----------------------------------------------------------------------------
(* Rows and their order *)

Payload == [slug : Slugs, title : Titles, category : Categories]

PromptRow == [row : Nat, slug : Slugs, title : Titles, category : Categories,
              checksum : Payload, trashed : BOOLEAN]

VersionRow == [prompt : PromptIds, row : Nat, body : Bodies,
               format : Formats, created : Times]

IndexRow == [row : Nat, title : Titles, body : Bodies \cup {NoBody}]

(* SQLite gives a new row the largest rowid in the table plus one, so the  *)
(* rowid of a deleted last row is used again.  At most one number.         *)
NextRow(rows) ==
  {r \in {1} \cup {s + 1 : s \in rows} : r <= MaxRow /\ \A s \in rows : s < r}

(* Fault: among versions of one second the first row counts as the latest. *)
FirstRowWins(v, w) == v.created > w.created \/ (v.created = w.created /\ v.row <= w.row)

(* ORDER BY datetime(created_at) DESC, rowid DESC *)
NotOlder(v, w) == v.created > w.created \/ (v.created = w.created /\ v.row >= w.row)

Latest(vs) == CHOOSE v \in vs : \A w \in vs : NotOlder(v, w)

VersionsOf(vs, p) == {v \in vs : v.prompt = p}

LatestBody(vs, p) ==
  IF VersionsOf(vs, p) = {} THEN NoBody ELSE Latest(VersionsOf(vs, p)).body

Checksum(slug, title, category) ==
  [slug |-> slug, title |-> title, category |-> category]

Active(p) == p \in DOMAIN prompts /\ ~prompts[p].trashed

(* The body shared by the triggers: delete the entry of the row, insert it *)
(* again when the prompt is active.                                        *)
Entry(ps, vs, p) ==
  [row |-> ps[p].row, title |-> ps[p].title, body |-> LatestBody(vs, p)]

(* Fault: the triggers of migration 001, which do not look at deleted_at.  *)
ReindexTrashedToo(index, ps, vs, p) ==
  {e \in index : e.row # ps[p].row} \cup {Entry(ps, vs, p)}

Reindex(index, ps, vs, p) ==
  {e \in index : e.row # ps[p].row} \cup
  (IF ps[p].trashed THEN {} ELSE {Entry(ps, vs, p)})

-----------------------------------------------------------------------------
(* Operations *)

Init ==
  /\ prompts = [p \in {} |-> {}]
  /\ versions = {}
  /\ fts = {}
  /\ tags = {}
  /\ promptTags = {}

(* A version row enters the table at the next rowid. *)
InsertVersion(p, body, format, created) ==
  \E r \in NextRow({v.row : v \in versions}) :
    versions' = versions \cup
      {[prompt |-> p, row |-> r, body |-> body, format |-> format, created |-> created]}

(* Fault: the slug is compared with those of active prompts only, as by    *)
(* getPromptIdBySlug.                                                      *)
CreateOverTrashed(p, slug, title, category, body, format, created) ==
  /\ p \notin DOMAIN prompts
  /\ \A q \in DOMAIN prompts : Active(q) => prompts[q].slug # slug
  /\ \E r \in NextRow({prompts[q].row : q \in DOMAIN prompts}) :
       prompts' = [q \in DOMAIN prompts \cup {p} |->
         IF q = p
         THEN [row |-> r, slug |-> slug, title |-> title, category |-> category,
               checksum |-> Checksum(slug, title, category), trashed |-> FALSE]
         ELSE prompts[q]]
  /\ InsertVersion(p, body, format, created)
  /\ fts' = Reindex(fts, prompts', versions', p)
  /\ UNCHANGED <<tags, promptTags>>

(* The slug is UNIQUE over every row, the trashed ones included; a clash   *)
(* of slug or id throws and the transaction changes nothing.               *)
CreatePrompt(p, slug, title, category, body, format, created) ==
  /\ p \notin DOMAIN prompts
  /\ \A q \in DOMAIN prompts : prompts[q].slug # slug
  /\ \E r \in NextRow({prompts[q].row : q \in DOMAIN prompts}) :
       prompts' = [q \in DOMAIN prompts \cup {p} |->
         IF q = p
         THEN [row |-> r, slug |-> slug, title |-> title, category |-> category,
               checksum |-> Checksum(slug, title, category), trashed |-> FALSE]
         ELSE prompts[q]]
  /\ InsertVersion(p, body, format, created)
  /\ fts' = Reindex(fts, prompts', versions', p)
  /\ UNCHANGED <<tags, promptTags>>

(* Fault: a version with a body that the history has replaces that one.    *)
AddVersionReplacing(p, body, format, created) ==
  /\ p \in DOMAIN prompts
  /\ \E r \in NextRow({v.row : v \in versions}) :
       versions' = {v \in versions : v.prompt # p \/ v.body # body} \cup
         {[prompt |-> p, row |-> r, body |-> body, format |-> format, created |-> created]}
  /\ fts' = Reindex(fts, prompts, versions', p)
  /\ UNCHANGED <<prompts, tags, promptTags>>

(* AddVersion does not look at deleted_at; only the foreign key guards it. *)
AddVersion(p, body, format, created) ==
  /\ p \in DOMAIN prompts
  /\ InsertVersion(p, body, format, created)
  /\ fts' = Reindex(fts, prompts, versions', p)
  /\ UNCHANGED <<prompts, tags, promptTags>>

Chosen(value, current) == IF value = Keep THEN current ELSE value

(* Fault: the checksum stays that of the row before the update. *)
UpdateKeepingChecksum(p, title, category) ==
  /\ Active(p)
  /\ title # Keep \/ category # Keep
  /\ prompts' = [prompts EXCEPT ![p].title = Chosen(title, @),
                                ![p].category = Chosen(category, @)]
  /\ fts' = IF title = Keep THEN fts ELSE Reindex(fts, prompts', versions, p)
  /\ UNCHANGED <<versions, tags, promptTags>>

(* Only the given columns are written, the checksum is that of the whole   *)
(* row, and the index trigger fires for the indexed columns alone.         *)
UpdatePromptMetadata(p, title, category) ==
  /\ Active(p)
  /\ title # Keep \/ category # Keep
  /\ LET old == prompts[p]
         t == Chosen(title, old.title)
         c == Chosen(category, old.category)
     IN prompts' = [prompts EXCEPT
          ![p] = [old EXCEPT !.title = t, !.category = c,
                             !.checksum = Checksum(old.slug, t, c)]]
  /\ fts' = IF title = Keep THEN fts ELSE Reindex(fts, prompts', versions, p)
  /\ UNCHANGED <<versions, tags, promptTags>>

SetTrashed(p, trashed) ==
  /\ prompts' = [prompts EXCEPT ![p].trashed = trashed]
  /\ fts' = Reindex(fts, prompts', versions, p)
  /\ UNCHANGED <<versions, tags, promptTags>>

SoftDeletePrompt(p) == Active(p) /\ SetTrashed(p, TRUE)

RestorePrompt(p) ==
  p \in DOMAIN prompts /\ prompts[p].trashed /\ SetTrashed(p, FALSE)

(* Fault: foreign keys are off, so nothing cascades. *)
DeleteRowOnly(p) ==
  /\ p \in DOMAIN prompts
  /\ prompts' = [q \in DOMAIN prompts \ {p} |-> prompts[q]]
  /\ fts' = {e \in fts : e.row # prompts[p].row}
  /\ UNCHANGED <<versions, tags, promptTags>>

(* Versions and tag links go with the prompt; tag rows stay. *)
PermanentlyDeletePrompt(p) ==
  /\ p \in DOMAIN prompts
  /\ versions' = {v \in versions : v.prompt # p}
  /\ prompts' = [q \in DOMAIN prompts \ {p} |-> prompts[q]]
  /\ fts' = {e \in fts : e.row # prompts[p].row}
  /\ promptTags' = {pt \in promptTags : pt[1] # p}
  /\ UNCHANGED tags

UpdateVersionFormat(v, format) ==
  /\ v \in versions
  /\ versions' = (versions \ {v}) \cup {[v EXCEPT !.format = format]}
  /\ UNCHANGED <<prompts, fts, tags, promptTags>>

UpsertTags(p, labels) ==
  /\ p \in DOMAIN prompts
  /\ tags' = tags \cup labels
  /\ promptTags' = promptTags \cup ({p} \X labels)
  /\ UNCHANGED <<prompts, versions, fts>>

(* The labels that no prompt carries any longer leave the table; the       *)
(* labels not named stay even when nothing carries them.                   *)
RemoveTags(p, labels) ==
  LET remaining == promptTags \ ({p} \X labels)
      unused == {l \in labels : \A pt \in remaining : pt[2] # l}
  IN /\ labels \cap tags # {}
     /\ promptTags' = remaining
     /\ tags' = tags \ unused
     /\ UNCHANGED <<prompts, versions, fts>>

-----------------------------------------------------------------------------

Next ==
  \/ \E p \in PromptIds, s \in Slugs, t \in Titles, c \in Categories,
        b \in Bodies, f \in Formats, at \in Times : CreatePrompt(p, s, t, c, b, f, at)
  \/ \E p \in PromptIds, b \in Bodies, f \in Formats, at \in Times :
        AddVersion(p, b, f, at)
  \/ \E p \in PromptIds, t \in Titles \cup {Keep}, c \in Categories \cup {Keep} :
        UpdatePromptMetadata(p, t, c)
  \/ \E p \in PromptIds : SoftDeletePrompt(p)
  \/ \E p \in PromptIds : RestorePrompt(p)
  \/ \E p \in PromptIds : PermanentlyDeletePrompt(p)
  \/ \E v \in versions, f \in Formats : UpdateVersionFormat(v, f)
  \/ \E p \in PromptIds, ls \in SUBSET Labels \ {{}} : UpsertTags(p, ls)
  \/ \E p \in PromptIds, ls \in SUBSET Labels \ {{}} : RemoveTags(p, ls)

Spec == Init /\ [][Next]_vars

-----------------------------------------------------------------------------
(* Properties *)

(* Every table holds rows of its own schema. *)
TypeOK ==
  /\ DOMAIN prompts \subseteq PromptIds
  /\ \A p \in DOMAIN prompts : prompts[p] \in PromptRow
  /\ versions \subseteq VersionRow
  /\ fts \subseteq IndexRow
  /\ tags \subseteq Labels
  /\ promptTags \subseteq PromptIds \X Labels

(* No foreign key dangles, and no prompt is ever without a version: a      *)
(* creation, a purge and a tag edit leave no half of themselves behind.    *)
Referential ==
  /\ \A v \in versions : v.prompt \in DOMAIN prompts
  /\ \A p \in DOMAIN prompts : VersionsOf(versions, p) # {}
  /\ \A pt \in promptTags : pt[1] \in DOMAIN prompts /\ pt[2] \in tags

(* What search reads is what the tables hold: one entry per active prompt, *)
(* with its present title and the body of its latest version, and nothing  *)
(* for a prompt in the trash or for a row whose rowid was used before.     *)
ExactIndex(ps, vs) == {Entry(ps, vs, p) : p \in {q \in DOMAIN ps : ~ps[q].trashed}}

IndexExact == fts = ExactIndex(prompts, versions)

(* getPromptById recomputes the checksum of the row and refuses a prompt   *)
(* whose stored checksum differs: no sequence of calls brings one there.   *)
ChecksumsMatch ==
  \A p \in DOMAIN prompts :
    prompts[p].checksum = Checksum(prompts[p].slug, prompts[p].title, prompts[p].category)

(* Two prompts of the active library never share a slug, so a slug finds   *)
(* one prompt, even after prompts came back from the trash.                *)
ActiveSlugsUnique ==
  \A p, q \in DOMAIN prompts :
    Active(p) /\ Active(q) /\ prompts[p].slug = prompts[q].slug => p = q

(* A version stays in the history of its prompt, with its body, its time   *)
(* and its place in the order, until the prompt itself is purged.          *)
SameVersion(v, w) ==
  /\ v.prompt = w.prompt /\ v.row = w.row
  /\ v.body = w.body /\ v.created = w.created

HistoryStep ==
  \A v \in versions :
    (\E w \in versions' : SameVersion(v, w)) \/ v.prompt \notin DOMAIN prompts'

HistoryAppendOnly == [][HistoryStep]_vars

(* A version that is written in the same second as the newest one, or      *)
(* later, is the one that reads return from then on.                       *)
NewestWinsStep ==
  \A v \in versions' :
    (/\ \A w \in versions : ~SameVersion(w, v)
     /\ \A w \in VersionsOf(versions, v.prompt) : w.created <= v.created)
    => Latest(VersionsOf(versions', v.prompt)) = v

NewestWins == [][NewestWinsStep]_vars

(* An edit of tags, a purge included, changes the tag links of one prompt  *)
(* at most, although the prompts share the rows of table tags.             *)
LinksOf(links, p) == {pt \in links : pt[1] = p}

(* The tables carry out the library of PromptLibrary: a method changes one *)
(* prompt in one respect, for readers of the rows and for searches alike.  *)
(* Title and latest body of an active prompt are those of the index.       *)
Found(p) == CHOOSE e \in fts : e.row = prompts[p].row

Shown == [p \in DOMAIN prompts |->
  [slug |-> prompts[p].slug,
   title |-> IF Active(p) THEN Found(p).title ELSE prompts[p].title,
   category |-> prompts[p].category,
   trashed |-> prompts[p].trashed,
   labels |-> {l \in Labels : <<p, l>> \in promptTags},
   bodies |-> {v.body : v \in VersionsOf(versions, p)},
   latest |-> IF Active(p) THEN Found(p).body ELSE LatestBody(versions, p)]]

Library == INSTANCE PromptLibrary WITH library <- Shown

ImplementsLibrary == Library!Spec

=============================================================================
