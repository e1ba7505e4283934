------------------------------- MODULE TagService -------------------------------
(***************************************************************************)
(* Tags of prompts, as PromptVaultService edits them.  Prompts are in the  *)
(* main database, tags and taggings in a sidecar, and no transaction spans *)
(* the two: a service call awaits one sidecar statement after the other,   *)
(* other calls of the process run in between, and any statement may throw  *)
(* and end the call where it is (as the crash of the process ends them     *)
(* all).  A restored backup puts its tags into the main database instead.  *)
(*                                                                         *)
(* Abstractions: a prompt is its id and whether it is in the trash; the    *)
(* labels of one call are trimmed and differ in more than case; the        *)
(* project tags are there from the start.  Nothing archives a tag.         *)
(***************************************************************************)
EXTENDS Naturals, FiniteSets

CONSTANTS
  Callers, Prompts,
  Names,          \* label spellings and the names of project tags
  Lower,          \* the lower-case form of each name
  LabelSets,      \* the label lists of the calls
  BackupLabels,   \* the label lists of the prompts in backups
  ProjectNames,   \* the project tags
  ProjectIds,     \* the tag ids that calls name as a project
  None            \* an argument that is left out

ASSUME LowerIsFunction == Lower \in [Names -> Names]
ASSUME LabelsDiffer ==
  \A ns \in LabelSets : \A m, n \in ns : Lower[m] = Lower[n] => m = n
ASSUME ProjectsApart ==
  /\ ProjectNames \subseteq Names
  /\ \A m \in ProjectNames : \A n \in Names \ {m} : Lower[m] # Lower[n]
  /\ \A ns \in LabelSets : ns \subseteq Names \ ProjectNames
ASSUME BackupLabelsAreNames == \A ns \in BackupLabels : ns \subseteq Names
ASSUME FewProjects == IsFiniteSet(ProjectNames)
ASSUME NoneIsNoId == None \notin Nat

VARIABLES
  prompts,    \* main database: prompt -> is it in the trash?
  stored,     \* main database: the tags of restored backups, <<prompt, key>>
  tags,       \* sidecar
  taggings,   \* sidecar: pairs of a prompt and a tag id
  call,       \* per caller: the call it is in
  burst       \* ghost, per prompt: what its overlapping calls agree on

tagVars == <<prompts, stored, tags, taggings, call, burst>>

Idle == [at |-> "idle", prompt |-> None]

Keys(names) == {Lower[n] : n \in names}
AllKeys == Keys(Names)

Active(p) == p \in DOMAIN prompts /\ ~prompts[p]

IsProject(id) == \E t \in tags : t.id = id /\ t.kind = "project"

(* listSharedTagsForEntity *)
Current(p) == {t \in tags : <<p, t.id>> \in taggings}

TagKeys(ts) == Keys({t.name : t \in ts})
Ids(ts) == {t.id : t \in ts}

-----------------------------------------------------------------------------
(* The ghost: a burst lasts while calls on one prompt overlap.  For each   *)
(* key it has what the calls so far agree on, "in" or "out"; "was in" or   *)
(* "was out" for a key that none of them names; "open" for one on which    *)
(* they differ, or when one of them failed.                                *)

Quiet == [k \in AllKeys |-> "open"]

Others(x, p) == \E y \in Callers \ {x} : call[y].prompt = p

Agreed(opinion, wanted) ==
  IF opinion \in {wanted, "was in", "was out"} THEN wanted ELSE "open"

Asked(x, p, adds, drops) ==
  LET marks == TagKeys(Current(p))
      before == IF Others(x, p) THEN burst[p]
                ELSE [k \in AllKeys |-> IF k \in marks THEN "was in" ELSE "was out"]
  IN burst' = [burst EXCEPT ![p] = [k \in AllKeys |->
       IF k \in adds THEN Agreed(before[k], "in")
       ELSE IF k \in drops THEN Agreed(before[k], "out") ELSE before[k]]]

Spoilt(p) == burst' = [burst EXCEPT ![p] = Quiet]

ProjectKeys(id) == TagKeys({t \in tags : t.id = id /\ t.kind = "project"})

-----------------------------------------------------------------------------
(* Calls *)

(* `missing': the names that ensureSharedTags still has to create; `adds'  *)
(* and `drops': the tag ids that are still to be linked and unlinked.      *)
Call(op, p, names, project, at) ==
  [op |-> op, prompt |-> p, names |-> names, project |-> project, at |-> at,
   missing |-> {}, chosen |-> {}, adds |-> {}, drops |-> {}]

Go(x, next) == call' = [call EXCEPT ![x] = next]

TagInit ==
  /\ prompts = [p \in {} |-> FALSE]
  /\ stored = {}
  /\ \E number \in [ProjectNames -> 1..Cardinality(ProjectNames)] :
       /\ \A m, n \in ProjectNames : number[m] = number[n] => m = n
       /\ tags = {[id |-> number[n], name |-> n, kind |-> "project"] : n \in ProjectNames}
  /\ taggings = {}
  /\ call = [x \in Callers |-> Idle]
  /\ burst = [p \in Prompts |-> Quiet]

(* The project tag is checked, the prompt committed, and then tagged.      *)
BeginCreate(x, p, names, project) ==
  /\ call[x] = Idle
  /\ p \notin DOMAIN prompts
  /\ project = None \/ IsProject(project)
  /\ prompts' = [q \in DOMAIN prompts \cup {p} |-> IF q = p THEN FALSE ELSE prompts[q]]
  /\ Go(x, Call("create", p, names, project, "list"))
  /\ Asked(x, p, Keys(names) \cup ProjectKeys(project), {})
  /\ UNCHANGED <<stored, tags, taggings>>

(* Only an update of metadata looks whether the prompt is there.           *)
BeginUpdate(x, p, names, project) ==
  LET wanted == Keys(names) \cup ProjectKeys(project)
  IN /\ call[x] = Idle
     /\ Go(x, Call("update", p, names, project, "list"))
     /\ Asked(x, p, wanted, AllKeys \ wanted)
     /\ UNCHANGED <<prompts, stored, tags, taggings>>

BeginUpdateOfProject(x, p, project) ==
  /\ call[x] = Idle
  /\ Go(x, Call("update", p, {}, project, "edit"))
  /\ Asked(x, p, ProjectKeys(project), {})
  /\ UNCHANGED <<prompts, stored, tags, taggings>>

BeginTag(x, p, names) ==
  /\ call[x] = Idle
  /\ Active(p) /\ names # {}
  /\ Go(x, Call("tag", p, names, None, "list"))
  /\ Asked(x, p, Keys(names), {})
  /\ UNCHANGED <<prompts, stored, tags, taggings>>

(* Fault: the spelling must be that of the tag. *)
BeginUntagExact(x, p, names) ==
  /\ call[x] = Idle
  /\ Active(p) /\ names # {}
  /\ Go(x, [Call("untag", p, names, None, "edit") EXCEPT
              !.drops = Ids({t \in Current(p) : t.name \in names})])
  /\ Asked(x, p, {}, Keys(names))
  /\ UNCHANGED <<prompts, stored, tags, taggings>>

(* The prompt and its tags are read together.                              *)
BeginUntag(x, p, names) ==
  /\ call[x] = Idle
  /\ Active(p) /\ names # {}
  /\ Go(x, [Call("untag", p, names, None, "edit") EXCEPT
              !.drops = Ids({t \in Current(p) : Lower[t.name] \in Keys(names)})])
  /\ Asked(x, p, {}, Keys(names))
  /\ UNCHANGED <<prompts, stored, tags, taggings>>

(* ensureSharedTags: one listing, then a creation for each unknown label.  *)
ListTags(x) ==
  LET known == {t \in tags : Lower[t.name] \in Keys(call[x].names)}
  IN /\ call[x].at = "list"
     /\ Go(x, [call[x] EXCEPT
          !.at = "ensure",
          !.missing = {n \in call[x].names : Lower[n] \notin TagKeys(known)},
          !.chosen = {(CHOOSE t \in known : Lower[t.name] = k).id : k \in TagKeys(known)}])
     /\ UNCHANGED <<prompts, stored, tags, taggings, burst>>

Made(x, name, id) ==
  Go(x, [call[x] EXCEPT !.missing = @ \ {name}, !.chosen = @ \cup {id}])

(* Fault: the listing is trusted; UNIQUE(name, kind) refuses one spelling. *)
CreateTagUnchecked(x, name) ==
  /\ call[x].at = "ensure" /\ name \in call[x].missing
  /\ \A t \in tags : t.name # name
  /\ tags' = tags \cup {[id |-> Cardinality(tags) + 1, name |-> name, kind |-> "label"]}
  /\ Made(x, name, Cardinality(tags) + 1)
  /\ UNCHANGED <<prompts, stored, taggings, burst>>

(* createSharedTag looks again before it inserts. *)
CreateTag(x, name) ==
  LET same == {t \in tags : t.kind = "label" /\ Lower[t.name] = Lower[name]}
      id == Cardinality(tags) + 1
  IN /\ call[x].at = "ensure" /\ name \in call[x].missing
     /\ IF same # {}
        THEN tags' = tags /\ \E t \in same : Made(x, name, t.id)
        ELSE /\ tags' = tags \cup {[id |-> id, name |-> name, kind |-> "label"]}
             /\ Made(x, name, id)
     /\ UNCHANGED <<prompts, stored, taggings, burst>>

(* An update compares with the present tags, a tag call adds what is       *)
(* missing, a creation adds all.                                           *)
CompareTags(x) ==
  LET c == call[x]
      current == Ids(Current(c.prompt))
  IN /\ c.at = "ensure" /\ c.missing = {}
     /\ Go(x, [c EXCEPT
          !.at = "edit",
          !.adds = IF c.op = "create" THEN c.chosen ELSE c.chosen \ current,
          !.drops = IF c.op = "update" THEN current \ c.chosen ELSE {}])
     /\ UNCHANGED <<prompts, stored, tags, taggings, burst>>

Link(x) ==
  /\ call[x].at = "edit"
  /\ \E id \in call[x].adds :
       /\ taggings' = taggings \cup {<<call[x].prompt, id>>}
       /\ Go(x, [call[x] EXCEPT !.adds = @ \ {id}])
  /\ UNCHANGED <<prompts, stored, tags, burst>>

Unlink(x) ==
  /\ call[x].at = "edit" /\ call[x].adds = {}
  /\ \E id \in call[x].drops :
       /\ taggings' = taggings \ {<<call[x].prompt, id>>}
       /\ Go(x, [call[x] EXCEPT !.drops = @ \ {id}])
  /\ UNCHANGED <<prompts, stored, tags, burst>>

Edited(x) == call[x].at = "edit" /\ call[x].adds = {} /\ call[x].drops = {}

AllDone(x) == Edited(x) /\ call[x].project = None

(* The last check of an update: the other tags are edited by then.         *)
SetProject(x) ==
  LET c == call[x]
  IN /\ Edited(x) /\ c.project # None
     /\ IF IsProject(c.project)
        THEN /\ taggings' = taggings \cup {<<c.prompt, c.project>>}
             /\ Go(x, [c EXCEPT !.project = None])
             /\ UNCHANGED burst
        ELSE /\ Go(x, Idle)
             /\ Spoilt(c.prompt)
             /\ UNCHANGED taggings
     /\ UNCHANGED <<prompts, stored, tags>>

Return(x) ==
  /\ AllDone(x)
  /\ Go(x, Idle)
  /\ IF Others(x, call[x].prompt) THEN UNCHANGED burst ELSE Spoilt(call[x].prompt)
  /\ UNCHANGED <<prompts, stored, tags, taggings>>

Fail(x) ==
  /\ call[x] # Idle
  /\ Go(x, Idle)
  /\ Spoilt(call[x].prompt)
  /\ UNCHANGED <<prompts, stored, tags, taggings>>

-----------------------------------------------------------------------------
(* Calls without an await, on the main database alone *)

SetPromptTrashed(p, trashed) ==
  /\ p \in DOMAIN prompts /\ prompts[p] # trashed
  /\ prompts' = [prompts EXCEPT ![p] = trashed]
  /\ UNCHANGED <<stored, tags, taggings, call, burst>>

(* The taggings stay in the sidecar. *)
PermanentlyDeletePrompt(p) ==
  /\ p \in DOMAIN prompts
  /\ prompts' = [q \in DOMAIN prompts \ {p} |-> prompts[q]]
  /\ stored' = {s \in stored : s[1] # p}
  /\ UNCHANGED <<tags, taggings, call, burst>>

(* The restored prompt has a new random id. *)
RestoreBackup(p, names) ==
  /\ p \notin DOMAIN prompts
  /\ Current(p) = {} /\ \A x \in Callers : call[x].prompt # p
  /\ prompts' = [q \in DOMAIN prompts \cup {p} |-> IF q = p THEN FALSE ELSE prompts[q]]
  /\ stored' = stored \cup ({p} \X Keys(names))
  /\ UNCHANGED <<tags, taggings, call, burst>>

-----------------------------------------------------------------------------

TagNext ==
  \/ \E x \in Callers, p \in Prompts, ns \in LabelSets, j \in ProjectIds \cup {None} :
       BeginCreate(x, p, ns, j) \/ BeginUpdate(x, p, ns, j)
  \/ \E x \in Callers, p \in Prompts, j \in ProjectIds : BeginUpdateOfProject(x, p, j)
  \/ \E x \in Callers, p \in Prompts, ns \in LabelSets :
       BeginTag(x, p, ns) \/ BeginUntag(x, p, ns)
  \/ \E x \in Callers : ListTags(x) \/ CompareTags(x) \/ Link(x) \/ Unlink(x)
  \/ \E x \in Callers, n \in Names : CreateTag(x, n)
  \/ \E x \in Callers : SetProject(x) \/ Return(x) \/ Fail(x)
  \/ \E p \in Prompts, trashed \in BOOLEAN : SetPromptTrashed(p, trashed)
  \/ \E p \in Prompts : PermanentlyDeletePrompt(p)
  \/ \E p \in Prompts, ns \in BackupLabels : RestoreBackup(p, ns)

TagSpec == TagInit /\ [][TagNext]_tagVars

-----------------------------------------------------------------------------
(* Properties *)

(* The sidecar's taggings refer to tags that exist. *)
TagTypeOK ==
  /\ DOMAIN prompts \subseteq Prompts
  /\ stored \subseteq Prompts \X AllKeys
  /\ tags \subseteq [id : Nat, name : Names, kind : {"label", "project"}]
  /\ taggings \subseteq Prompts \X Ids(tags)

(* Calls that list the tags at one time and create them at another never   *)
(* leave two label tags that differ in case only, nor two tags of one id,  *)
(* nor a tagging whose tag is not there.                                   *)
TagNamesUnique ==
  /\ TagTypeOK
  /\ \A t, u \in tags :
       t.id = u.id \/ (t.kind = u.kind /\ Lower[t.name] = Lower[u.name]) => t = u

(* When calls on one prompt overlapped and none of them failed, each label *)
(* on which they agree is as they want it, whatever the order of their     *)
(* steps, the calls on other prompts and the failures before: labels that  *)
(* all keep or add are there, those that all drop are gone, and the others *)
(* are as they were.  A call that ran alone has its way with every label.  *)
LastOf(x, p) == call[x].prompt = p /\ AllDone(x) /\ ~Others(x, p)

LabelAgreement ==
  \A x \in Callers, p \in Prompts : LastOf(x, p) =>
    \A k \in AllKeys :
      /\ burst[p][k] \in {"in", "was in"} => k \in TagKeys(Current(p))
      /\ burst[p][k] \in {"out", "was out"} => k \notin TagKeys(Current(p))

=============================================================================
