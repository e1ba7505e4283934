-------------------------------- MODULE GitSync --------------------------------
(***************************************************************************)
(* Prompt libraries shared through a git remote (SyncService, GitService): *)
(* `sync push' exports the library into the working tree, commits and      *)
(* pushes; `sync pull' pulls and imports the files.  Each vault has one    *)
(* clone and runs one command at a time in it; other processes edit the    *)
(* library meanwhile, and a command may die anywhere.                      *)
(*                                                                         *)
(* Git is external: a tree maps file names to contents; the remote is the  *)
(* sequence of its commits, and a clone knows how many of them its history *)
(* contains.  `git pull' fast-forwards, merges file by file (the timestamps*)
(* in the files make two changes of one file a conflict), or refuses.      *)
(*                                                                         *)
(* Abstractions: all prompts have one format, so a slug is a file name; a  *)
(* version is its body; title, tags and timestamps are stood for by the    *)
(* row they are read from.                                                 *)
(***************************************************************************)
EXTENDS Naturals, Sequences, FiniteSets, Functions, SequencesExt

CONSTANTS
  Vaults,
  Prompts,      \* prompt ids
  SlugOf,       \* the slug of each id; vaults may choose one slug for two ids
  Bodies,
  MaxEdits,     \* bound on the edits of all libraries
  MaxCrashes,   \* bound on commands that die
  MaxCommits    \* bound on the commits of the remote

ASSUME SlugsAssumption == DOMAIN SlugOf = Prompts

VARIABLES
  library,   \* per vault: id -> its row
  files,     \* per vault: the directory prompts/ of the working tree
  head,      \* per vault: the tree of HEAD
  known,     \* per vault: the commits of the remote that HEAD contains
  ahead,     \* per vault: does HEAD have commits of its own?
  merging,   \* per vault: the commits of the remote that a merge with conflicts is about
  remote,    \* the trees of the remote's commits
  command,   \* per vault: the command that runs
  written,   \* ghost: <<id, body>> of all versions that users wrote
  edits, crashes

git == <<head, known, ahead, merging>>
vars == <<library, files, git, remote, command, written, edits, crashes>>

Slugs == Range(SlugOf)
Empty == << >>
Row == [trashed : BOOLEAN, bodies : Seq(Bodies)]

Visible(v) == {p \in DOMAIN library[v] : ~library[v][p].trashed}
Latest(v, p) == Last(library[v][p].bodies)

(* formatPromptForFile: besides the version the file has what only this    *)
(* vault's row has, its timestamps.                                        *)
Content(v, p) ==
  [id |-> p, body |-> Latest(v, p), row |-> <<v, Len(library[v][p].bodies)>>]

Export(v) ==
  [s \in {SlugOf[p] : p \in Visible(v)} |->
     Content(v, CHOOSE p \in Visible(v) : SlugOf[p] = s)]

Conflict == [markers |-> TRUE]

Idle == [at |-> "idle"]
Run(v, state) == command' = [command EXCEPT ![v] = state]
At(v, place) == command[v].at = place
Set(f, v, value) == [f EXCEPT ![v] = value]
Tip == Last(remote)

-----------------------------------------------------------------------------
(* Edits of the library by other processes of the vault; updates of the    *)
(* metadata do not concern the import.                                     *)

SlugTaken(v, slug) == \E p \in DOMAIN library[v] : SlugOf[p] = slug
NewRow(v, p, body) ==
  library' = Set(library, v, [q \in DOMAIN library[v] \cup {p} |->
                                IF q = p THEN [trashed |-> FALSE, bodies |-> <<body>>]
                                ELSE library[v][q]])
AddBody(v, p, body) == library' = [library EXCEPT ![v][p].bodies = Append(@, body)]

(* The ghost of an import: what was edited since it began. *)
Touch(v, p) ==
  command' = IF At(v, "import") \/ At(v, "apply")
               THEN [command EXCEPT ![v].touched = @ \cup {p}] ELSE command

OtherEdit(v, p) ==
  /\ edits < MaxEdits
  /\ edits' = edits + 1
  /\ Touch(v, p)
  /\ \/ \E body \in Bodies :
          /\ written' = written \cup {<<p, body>>}
          /\ \/ p \notin DOMAIN library[v] /\ ~SlugTaken(v, SlugOf[p]) /\ NewRow(v, p, body)
             \/ p \in Visible(v) /\ AddBody(v, p, body)
     \/ /\ p \in DOMAIN library[v]
        /\ library' = [library EXCEPT ![v][p].trashed = ~@]
        /\ UNCHANGED written
  /\ UNCHANGED <<files, git, remote, crashes>>

-----------------------------------------------------------------------------
(* push: the rows are read at once, then the directory is emptied and      *)
(* written again, committed if that changed it, and sent.                  *)

BeginPush(v) ==
  /\ At(v, "idle")
  /\ Len(remote) < MaxCommits
  /\ Run(v, [at |-> "clear", listed |-> Export(v), todo |-> DOMAIN Export(v)])
  /\ UNCHANGED <<library, files, git, remote, written, edits, crashes>>

(* Fault: the files of prompts that are gone stay. *)
KeepPromptsDir(v) ==
  /\ At(v, "clear")
  /\ Run(v, [command[v] EXCEPT !.at = "write"])
  /\ UNCHANGED <<library, files, git, remote, written, edits, crashes>>

ClearPromptsDir(v) ==
  /\ At(v, "clear")
  /\ files' = Set(files, v, Empty)
  /\ Run(v, [command[v] EXCEPT !.at = "write"])
  /\ UNCHANGED <<library, git, remote, written, edits, crashes>>

WriteFile(v) ==
  /\ At(v, "write")
  /\ \E s \in command[v].todo :
       /\ files' = Set(files, v, [t \in DOMAIN files[v] \cup {s} |->
                                   IF t = s THEN command[v].listed[s] ELSE files[v][t]])
       /\ Run(v, [command[v] EXCEPT !.todo = @ \ {s}])
  /\ UNCHANGED <<library, git, remote, written, edits, crashes>>

(* A commit also concludes a merge, the conflicts being resolved by `git   *)
(* add'; a tree that is that of HEAD is clean, and nothing is committed.   *)
Commit(v) ==
  /\ At(v, "write")
  /\ command[v].todo = {}
  /\ Run(v, [command[v] EXCEPT !.at = "send"])
  /\ IF files[v] = head[v] THEN UNCHANGED git
     ELSE /\ head' = Set(head, v, files[v])
          /\ ahead' = Set(ahead, v, TRUE)
          /\ known' = IF merging[v] > 0 THEN Set(known, v, merging[v]) ELSE known
          /\ merging' = Set(merging, v, 0)
  /\ UNCHANGED <<library, files, remote, written, edits, crashes>>

(* The remote takes what contains all its commits. *)
Send(v) ==
  /\ At(v, "send")
  /\ Run(v, Idle)
  /\ IF known[v] = Len(remote) /\ ahead[v]
       THEN /\ remote' = Append(remote, head[v])
            /\ known' = Set(known, v, Len(remote'))
            /\ ahead' = Set(ahead, v, FALSE)
            /\ UNCHANGED <<head, merging>>
       ELSE UNCHANGED <<git, remote>>
  /\ UNCHANGED <<library, files, written, edits, crashes>>

-----------------------------------------------------------------------------
(* pull: git brings the tree up to date, then the files are imported. *)

Entry(tree, s) == IF s \in DOMAIN tree THEN {tree[s]} ELSE {}
Tree(entry) == [s \in {t \in Slugs : entry[t] # {}} |-> CHOOSE c \in entry[s] : TRUE]

(* The three-way merge of HEAD and the tip, over what they have in common. *)
Merged(v) ==
  [s \in Slugs |->
     LET base == Entry(remote[known[v]], s)
         ours == Entry(head[v], s)
         theirs == Entry(Tip, s)
     IN CASE ours = base -> theirs
          [] theirs = base \/ theirs = ours -> ours
          [] OTHER -> {Conflict}]

(* A crashed export left a change where git wants to write. *)
Overwrites(v, tree) ==
  \E s \in DOMAIN files[v] :
    Entry(tree, s) # Entry(head[v], s) /\ Entry(files[v], s) # Entry(head[v], s)

Updated(v, tree) ==
  Tree([s \in Slugs |-> IF Entry(tree, s) # Entry(head[v], s) THEN Entry(tree, s)
                        ELSE Entry(files[v], s)])

BeginImport(v, tree) ==
  Run(v, [at |-> "import", todo |-> DOMAIN tree, touched |-> {}])

NoGitChange(v) == UNCHANGED <<files, git>>

GitPull(v) ==
  /\ At(v, "idle")
  /\ LET tree == Tree(Merged(v))
         conflicts == Conflict \in Range(tree)
     IN \/ (* Refused: a merge is open, local changes are in the way, or the *)
           (* configuration does not say how to join histories.              *)
           /\ merging[v] > 0 \/ Overwrites(v, tree) \/ (ahead[v] /\ known[v] < Len(remote))
           /\ Run(v, Idle) /\ NoGitChange(v)
        \/ /\ merging[v] = 0 /\ known[v] = Len(remote)
           /\ BeginImport(v, files[v]) /\ NoGitChange(v)
        \/ /\ merging[v] = 0 /\ known[v] < Len(remote) /\ ~Overwrites(v, tree)
           /\ files' = Set(files, v, Updated(v, tree))
           /\ IF conflicts
                THEN /\ merging' = Set(merging, v, Len(remote))
                     /\ Run(v, Idle)
                     /\ UNCHANGED <<head, known, ahead>>
                ELSE /\ head' = Set(head, v, tree)
                     /\ known' = Set(known, v, Len(remote))
                     /\ BeginImport(v, files'[v])
                     /\ UNCHANGED <<ahead, merging>>
  /\ UNCHANGED <<library, remote, written, edits, crashes>>

(* Fault: a file whose prompt is there is never looked at again. *)
ReadNewFile(v) ==
  /\ At(v, "import")
  /\ \E s \in command[v].todo :
       LET c == files[v][s]
           rest == [command[v] EXCEPT !.todo = @ \ {s}]
       IN Run(v, IF c.id \in Visible(v) THEN rest
                 ELSE [at |-> "apply", todo |-> rest.todo, touched |-> rest.touched,
                       content |-> c, found |-> FALSE])
  /\ UNCHANGED <<library, files, git, remote, written, edits, crashes>>

(* getPrompt finds active prompts only; its answer is awaited.             *)
ReadFile(v) ==
  /\ At(v, "import")
  /\ \E s \in command[v].todo :
       LET c == files[v][s]
           rest == [command[v] EXCEPT !.todo = @ \ {s}]
           Apply(found) == [at |-> "apply", todo |-> rest.todo, touched |-> rest.touched,
                            content |-> c, found |-> found]
       IN Run(v, IF c.id \notin Visible(v) THEN Apply(FALSE)
                 ELSE IF Latest(v, c.id) = c.body THEN rest ELSE Apply(TRUE))
  /\ UNCHANGED <<library, files, git, remote, written, edits, crashes>>

NextFile(v) == [at |-> "import", todo |-> command[v].todo, touched |-> command[v].touched]

(* Fault: the prompt is found by the slug of the file. *)
ApplyFileBySlug(v) ==
  /\ At(v, "apply")
  /\ LET c == command[v].content
         same == {p \in Visible(v) : SlugOf[p] = SlugOf[c.id]}
     IN IF same # {} THEN \E p \in same : AddBody(v, p, c.body)
        ELSE c.id \notin DOMAIN library[v] /\ NewRow(v, c.id, c.body)
  /\ Run(v, NextFile(v))
  /\ UNCHANGED <<files, git, remote, written, edits, crashes>>

(* addVersion of a prompt that is gone throws, and the catch creates it;   *)
(* a creation that meets its id or slug ends the pull.                     *)
ApplyFile(v) ==
  /\ At(v, "apply")
  /\ LET c == command[v].content
     IN \/ /\ command[v].found /\ c.id \in Visible(v)
           /\ AddBody(v, c.id, c.body)
           /\ Run(v, NextFile(v))
        \/ /\ ~(command[v].found /\ c.id \in Visible(v))
           /\ IF SlugTaken(v, SlugOf[c.id])
                THEN Run(v, Idle) /\ UNCHANGED library
                ELSE Run(v, NextFile(v)) /\ NewRow(v, c.id, c.body)
  /\ UNCHANGED <<files, git, remote, written, edits, crashes>>

Imported(v) == At(v, "import") /\ command[v].todo = {}
EndPull(v) ==
  /\ Imported(v)
  /\ Run(v, Idle)
  /\ UNCHANGED <<library, files, git, remote, written, edits, crashes>>

(* A command that dies while it empties the directory leaves a part of it. *)
Crash(v) ==
  /\ crashes < MaxCrashes
  /\ ~At(v, "idle")
  /\ crashes' = crashes + 1
  /\ Run(v, Idle)
  /\ IF At(v, "clear")
       THEN \E kept \in SUBSET DOMAIN files[v] :
              files' = Set(files, v, [s \in kept |-> files[v][s]])
       ELSE UNCHANGED files
  /\ UNCHANGED <<library, git, remote, written, edits>>

-----------------------------------------------------------------------------
(* Clones of a remote that has one commit, without prompts. *)
Init ==
  /\ library = [v \in Vaults |-> Empty]
  /\ files = [v \in Vaults |-> Empty] /\ head = files
  /\ known = [v \in Vaults |-> 1]
  /\ ahead = [v \in Vaults |-> FALSE]
  /\ merging = [v \in Vaults |-> 0]
  /\ remote = <<Empty>>
  /\ command = [v \in Vaults |-> Idle]
  /\ written = {}
  /\ edits = 0 /\ crashes = 0

Push(v) == BeginPush(v) \/ ClearPromptsDir(v) \/ WriteFile(v) \/ Commit(v) \/ Send(v)
Pull(v) == GitPull(v) \/ ReadFile(v) \/ ApplyFile(v) \/ EndPull(v)

Next ==
  \E v \in Vaults :
    \/ \E p \in Prompts : OtherEdit(v, p)
    \/ Push(v)
    \/ Pull(v)
    \/ Crash(v)

Spec == Init /\ [][Next]_vars

-----------------------------------------------------------------------------
Contents == [id : Prompts, body : Bodies, row : Vaults \X Nat]

IsTree(tree, contents) ==
  DOMAIN tree \subseteq Slugs /\ \A s \in DOMAIN tree : tree[s] \in contents

TypeOK ==
  /\ \A v \in Vaults :
       /\ DOMAIN library[v] \subseteq Prompts
       /\ \A p \in DOMAIN library[v] : library[v][p] \in Row /\ library[v][p].bodies # << >>
       /\ \A p, q \in DOMAIN library[v] : SlugOf[p] = SlugOf[q] => p = q
       /\ IsTree(head[v], Contents)
       /\ IsTree(files[v], Contents \cup {Conflict})
       /\ known[v] \in 1..Len(remote) /\ merging[v] \in 0..Len(remote)
       /\ command[v].at \in {"idle", "clear", "write", "send", "import", "apply"}
  /\ \A i \in DOMAIN remote : IsTree(remote[i], Contents)
  /\ written \subseteq Prompts \X Bodies

(* What a push sends is one whole export: never a half-written directory    *)
(* that a crash left, a stale file, or the result of a merge that the       *)
(* library does not have.                                                   *)
PublishedIsExport ==
  [][remote' # remote => \E v \in Vaults : At(v, "send") /\ Last(remote') = command[v].listed]_vars

(* A pull that comes to its end has imported every file: the library has    *)
(* the version of each as its latest one, except where others edited since. *)
PullAgrees ==
  \A v \in Vaults : Imported(v) =>
    \A s \in DOMAIN files[v] :
      LET c == files[v][s] IN
      \/ c.id \in command[v].touched
      \/ c.id \in Visible(v) /\ Latest(v, c.id) = c.body

(* A version is only ever found under the prompt it was written for, also   *)
(* when two vaults use one slug, and so one file, for different prompts.    *)
OnlyWritten ==
  /\ TypeOK
  /\ \A v \in Vaults : \A p \in DOMAIN library[v] :
       \A b \in ToSet(library[v][p].bodies) : <<p, b>> \in written

=============================================================================
