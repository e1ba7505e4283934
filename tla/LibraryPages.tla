----------------------------- MODULE LibraryPages -----------------------------
(***************************************************************************)
(* The pages on which a user works: the library (LibraryPage.tsx), where   *)
(* the favorite of a prompt is shown as changed before the change is       *)
(* stored, and the editor (EditPromptPage.tsx), whose save writes the      *)
(* fields that differ from the prompt as it was opened, then the new text. *)
(*                                                                         *)
(* A page can be left while its calls run.  Their answers then set nothing *)
(* more, but a save that succeeds still opens the library.                 *)
(*                                                                         *)
(* The labels of a prompt are edited as one line, in which commas part     *)
(* them.  A label that holds a comma is not the same once that line is     *)
(* read, and so the form differs from its prompt before anyone touched it. *)
(*                                                                         *)
(* Abstractions: the title stands for all metadata but the favorite and    *)
(* the labels; a text to revert to is any text; filters, order and copying *)
(* change no prompt and are left out, as is the store of OfflineSync.  In  *)
(* a browser the list holds at most 100 prompts (PromptListPage): Kept are *)
(* the prompts that it holds.                                              *)
(***************************************************************************)
EXTENDS Naturals, FiniteSets

CONSTANTS
  Kept,                    \* the prompts
  Names, Texts,
  Taggings,                \* lists of labels
  Retyped,                 \* what such a list is once written as a line and read again
  AtFirst,                 \* the prompts at first
  NoRow, Pending, Errored, \* no prompt, no answer yet, an error for an answer
  MaxActs                  \* bound on what the user does, and on what goes wrong

Rows == [favorite : BOOLEAN, name : Names, tags : Taggings, text : Texts]

ASSUME PagesAssumption ==
  /\ Retyped \in [Taggings -> Taggings]
  /\ \A tags \in Taggings : Retyped[Retyped[tags]] = Retyped[tags]
  /\ "library" \notin Kept /\ AtFirst \in [Kept -> Rows]
  /\ NoRow \notin Rows
  /\ Pending # Errored /\ "ok" \notin {Pending, Errored}
  /\ {Pending, Errored} \cap Rows = {} /\ {Pending, Errored} \cap [Kept -> Rows] = {}

VARIABLES
  stored,      \* the prompts
  opened,      \* "library", or the prompt that is edited
  visit,       \* which opening of a page is the present one
  listed,      \* library: the prompts shown
  reading, failedToRead,
  starring,    \* library: prompts whose favorite is being written
  base, form,  \* editor: the prompt as opened, and as shown
  saving,
  fetches, stars, saves,   \* calls under way
  acts,
  stale,       \* ghost: prompts written behind the back of the page shown
  touched      \* ghost: fields that the user has changed in the form

shelf == <<listed, reading, failedToRead, starring>>
editor == <<base, form, saving, touched>>
under == <<fetches, stars, saves>>
libraryVars == <<stored, opened, visit, shelf, editor, under, acts, stale>>

Fields == {"favorite", "name", "tags", "text"}
Values(f) == {row[f] : row \in Rows}

(* parseTags: the form of a prompt, and what its user can make of a field. *)
FormOf(row) == IF row = NoRow THEN NoRow ELSE [row EXCEPT !.tags = Retyped[@]]
Entered(f) == IF f = "tags" THEN {Retyped[tags] : tags \in Taggings} ELSE Values(f)

Act == acts < MaxActs /\ acts' = acts + 1

Answers(all, call, answer) == (all \ {call}) \cup {[call EXCEPT !.answer = answer]}
Overtaken(all, p) == {[c EXCEPT !.missed = @ \cup {p}] : c \in all}

(* A write that the page shown, and the answers on their way, do not have. *)
Behind(p) ==
  /\ stale' = stale \cup {p}
  /\ fetches' = Overtaken(fetches, p) /\ stars' = Overtaken(stars, p)

-----------------------------------------------------------------------------
(* Opening a page *)

Fetch(v) == [visit |-> v, answer |-> Pending, missed |-> {}]

Open(to, row, reads) ==
  /\ opened' = to /\ visit' = visit + 1
  /\ listed' = << >> /\ failedToRead' = FALSE /\ starring' = {} /\ stale' = {}
  /\ base' = row /\ form' = FormOf(row) /\ saving' = FALSE /\ touched' = {}
  /\ reading' = reads
  /\ fetches' = IF reads THEN fetches \cup {Fetch(visit + 1)} ELSE fetches

OpenLibrary ==
  /\ Open("library", NoRow, TRUE) /\ Act
  /\ UNCHANGED <<stored, stars, saves>>

(* The list is shown once it is loaded, and not beside an error. *)
InList(p) == opened = "library" /\ ~reading /\ ~failedToRead /\ p \in DOMAIN listed

(* From its row, or by its address. *)
Edit(p) ==
  /\ \/ InList(p) /\ Open(p, listed[p], FALSE)
     \/ Open(p, NoRow, TRUE)
  /\ Act /\ UNCHANGED <<stored, stars, saves>>

Retry ==
  /\ opened = "library" /\ failedToRead
  /\ reading' = TRUE
  /\ Fetch(visit) \notin fetches /\ fetches' = fetches \cup {Fetch(visit)}
  /\ Act
  /\ UNCHANGED <<stored, opened, visit, listed, failedToRead, starring, editor,
                 stars, saves, stale>>

ServeFetch(f) ==
  /\ f \in fetches /\ f.answer = Pending
  /\ \/ fetches' = (fetches \ {f}) \cup {[f EXCEPT !.answer = stored, !.missed = {}]}
        /\ UNCHANGED acts
     \/ fetches' = Answers(fetches, f, Errored) /\ Act
  /\ UNCHANGED <<stored, opened, visit, shelf, editor, stars, saves, stale>>

(* Of two answers the later one counts, whichever was asked for first. *)
GotFetch(f) ==
  /\ f \in fetches /\ f.answer # Pending
  /\ fetches' = fetches \ {f}
  /\ IF f.visit # visit THEN UNCHANGED <<shelf, base, form, stale>>
     ELSE /\ reading' = FALSE /\ UNCHANGED starring
          /\ failedToRead' = (f.answer = Errored)
          /\ IF f.answer = Errored THEN UNCHANGED <<listed, base, form, stale>>
             ELSE IF opened = "library"
             THEN listed' = f.answer /\ stale' = f.missed /\ UNCHANGED <<base, form>>
             ELSE /\ base' = f.answer[opened] /\ form' = FormOf(f.answer[opened])
                  /\ UNCHANGED <<listed, stale>>
  /\ UNCHANGED <<stored, opened, visit, saving, touched, stars, saves, acts>>

-----------------------------------------------------------------------------
(* The favorite of a prompt *)

Star(p) ==
  [prompt |-> p, was |-> listed[p].favorite, visit |-> visit, answer |-> Pending,
   missed |-> stale \cap {p}]

(* The key of a row is disabled while its change is under way. *)
IsFree(p) == p \notin starring

(* Fault: the key does not ask whether a change is under way. *)
ToggleFavoriteAgain(p) ==
  /\ InList(p)
  /\ Star(p) \notin stars /\ stars' = stars \cup {Star(p)}
  /\ starring' = starring \cup {p}
  /\ listed' = [listed EXCEPT ![p].favorite = ~@]
  /\ Act
  /\ UNCHANGED <<stored, opened, visit, reading, failedToRead, editor, fetches,
                 saves, stale>>

ToggleFavorite(p) ==
  /\ InList(p) /\ IsFree(p)
  /\ starring' = starring \cup {p}
  /\ Star(p) \notin stars /\ stars' = stars \cup {Star(p)}
  /\ listed' = [listed EXCEPT ![p].favorite = ~@]
  /\ Act
  /\ UNCHANGED <<stored, opened, visit, reading, failedToRead, editor, fetches,
                 saves, stale>>

(* A failure is reported before the write, or after it. *)
ServeStar(s) ==
  LET p == s.prompt
      Write == stored' = [stored EXCEPT ![p].favorite = ~s.was]
      others == Overtaken(stars \ {s}, p)
  IN /\ s \in stars /\ s.answer = Pending
     /\ \/ /\ Write /\ UNCHANGED acts
           /\ stars' = others \cup {[s EXCEPT !.answer = stored'[p], !.missed = {}]}
           /\ stale' = IF s.visit = visit THEN stale ELSE stale \cup {p}
           /\ fetches' = Overtaken(fetches, p)
        \/ /\ Act /\ UNCHANGED <<stored, stale, fetches>>
           /\ stars' = Answers(stars, s, Errored)
        \/ /\ Act /\ Write
           /\ stars' = others \cup {[s EXCEPT !.answer = Errored, !.missed = {p}]}
           /\ stale' = stale \cup {p} /\ fetches' = Overtaken(fetches, p)
     /\ UNCHANGED <<opened, visit, shelf, editor, saves>>

(* The row as it was stored takes the place of the row shown; an error     *)
(* brings back the favorite.                                               *)
GotStar(s) ==
  LET p == s.prompt
  IN /\ s \in stars /\ s.answer # Pending
     /\ stars' = stars \ {s}
     /\ IF s.visit # visit THEN UNCHANGED <<listed, starring, stale>>
        ELSE /\ starring' = starring \ {p}
             /\ IF s.answer = Errored
                THEN /\ listed' = [listed EXCEPT ![p].favorite = s.was]
                     /\ stale' = stale \cup s.missed
                ELSE /\ listed' = [listed EXCEPT ![p] = s.answer]
                     /\ stale' = (stale \ {p}) \cup s.missed
     /\ UNCHANGED <<stored, opened, visit, reading, failedToRead, editor,
                    fetches, saves, acts>>

-----------------------------------------------------------------------------
(* The editor *)

Editing == opened \in Kept /\ base # NoRow

Change(f, value) ==
  /\ Editing /\ form[f] # value /\ form' = [form EXCEPT ![f] = value]
  /\ touched' = touched \cup {f}
  /\ Act
  /\ UNCHANGED <<stored, opened, visit, shelf, base, saving, under, stale>>

(* Fault: the whole form is written. *)
ChangesAll == Fields

(* The fields that differ from the prompt as it was opened: sameTags       *)
(* compares the labels read from the line with those of the prompt.        *)
Changes == {f \in Fields : form[f] # base[f]}

Metadata(fields) == fields \ {"text"}

Save(fields, row, changed) ==
  [prompt |-> opened, visit |-> visit, fields |-> fields, row |-> row, touched |-> changed,
   was |-> base, answer |-> Pending]

Begin(save) ==
  /\ ~saving /\ saving' = TRUE
  /\ save \notin saves /\ saves' = saves \cup {save}
  /\ Act
  /\ UNCHANGED <<stored, opened, visit, shelf, base, form, touched, fetches,
                 stars, stale>>

Submit == Editing /\ Changes # {} /\ Begin(Save(Changes, form, touched))

Revert(text) == Editing /\ Begin(Save({"text"}, [form EXCEPT !.text = text], {"text"}))

(* What a call of the save writes: the metadata, or else the text. *)
Written(s) == IF Metadata(s.fields) # {} THEN Metadata(s.fields) ELSE s.fields

ServeSave(s) ==
  LET p == s.prompt
      Write == /\ stored' = [stored EXCEPT ![p] =
                    [f \in Fields |-> IF f \in Written(s) THEN s.row[f] ELSE stored[p][f]]]
               /\ Behind(p)
  IN /\ s \in saves /\ s.answer = Pending
     /\ \/ Write /\ saves' = Answers(saves, s, "ok") /\ UNCHANGED acts
        \/ Write /\ saves' = Answers(saves, s, Errored) /\ Act
        \/ /\ saves' = Answers(saves, s, Errored) /\ Act
           /\ UNCHANGED <<stored, stale, fetches, stars>>
     /\ UNCHANGED <<opened, visit, shelf, editor>>

SaveText(s) ==
  /\ s \in saves /\ s.answer = "ok" /\ s.fields # Written(s)
  /\ saves' = (saves \ {s}) \cup {[s EXCEPT !.answer = Pending, !.fields = @ \ Written(s)]}
  /\ UNCHANGED <<stored, opened, visit, shelf, editor, fetches, stars, acts,
                 stale>>

Saved(s) ==
  /\ s \in saves /\ s.answer = "ok" /\ s.fields = Written(s)
  /\ saves' = saves \ {s}
  /\ Open("library", NoRow, TRUE)
  /\ UNCHANGED <<stored, stars, acts>>

(* The form stays as it is, and so does what it is compared with. *)
NotSaved(s) ==
  /\ s \in saves /\ s.answer = Errored
  /\ saves' = saves \ {s}
  /\ saving' = (saving /\ s.visit # visit)
  /\ UNCHANGED <<stored, opened, visit, shelf, base, form, touched, fetches,
                 stars, acts, stale>>

(* Another client. *)
WriteElsewhere(p, f, value) ==
  /\ stored[p][f] # value /\ stored' = [stored EXCEPT ![p][f] = value]
  /\ Behind(p) /\ Act
  /\ UNCHANGED <<opened, visit, shelf, editor, saves>>

-----------------------------------------------------------------------------
LibraryInit ==
  /\ stored = AtFirst
  /\ opened = "library" /\ visit = 1
  /\ listed = << >> /\ reading = TRUE /\ failedToRead = FALSE /\ starring = {}
  /\ base = NoRow /\ form = NoRow /\ saving = FALSE /\ touched = {}
  /\ fetches = {Fetch(1)} /\ stars = {} /\ saves = {}
  /\ acts = 0 /\ stale = {}

LibraryNext ==
  \/ OpenLibrary \/ Retry \/ Submit
  \/ \E p \in Kept : Edit(p) \/ ToggleFavorite(p)
  \/ \E f \in fetches : ServeFetch(f) \/ GotFetch(f)
  \/ \E s \in stars : ServeStar(s) \/ GotStar(s)
  \/ \E s \in saves : ServeSave(s) \/ SaveText(s) \/ Saved(s) \/ NotSaved(s)
  \/ \E f \in Fields : \E value \in Entered(f) : Change(f, value)
  \/ \E text \in Texts : Revert(text)
  \/ \E p \in Kept, f \in Fields : \E value \in Values(f) : WriteElsewhere(p, f, value)

LibrarySpec == LibraryInit /\ [][LibraryNext]_libraryVars

-----------------------------------------------------------------------------
LibraryTypeOK ==
  /\ stored \in [Kept -> Rows] /\ opened \in Kept \cup {"library"}
  /\ DOMAIN listed \subseteq Kept /\ \A p \in DOMAIN listed : listed[p] \in Rows
  /\ base \in Rows \cup {NoRow} /\ form \in Rows \cup {NoRow}
  /\ starring \subseteq Kept /\ stale \subseteq Kept /\ touched \subseteq Fields

(* The library shows every prompt as it is stored, but for the favorite    *)
(* that is being written and for prompts that were written elsewhere since *)
(* they were read: of the answers to loads and to changes, in whatever     *)
(* order they come, none brings back what another has replaced, and an     *)
(* error brings back what is stored.                                       *)
LibraryAgrees ==
  /\ LibraryTypeOK
  /\ \A p \in DOMAIN listed \ (stale \cup starring) : listed[p] = stored[p]

(* Labels that nobody touched and that their line does not give back. *)
Resplit(s, f) ==
  f = "tags" /\ s.row[f] = Retyped[s.was[f]] /\ s.row[f] # s.was[f]

(* A save changes no field that its user left alone, whatever the form     *)
(* shows of it and whoever wrote it in the meantime: it writes one prompt, *)
(* and there the fields that were changed in the form, as they were shown. *)
(* Labels that hold a comma are the one exception: they are split.         *)
SavesOnlyTouched ==
  [][\A s \in saves \ saves' : \A p \in Kept, f \in Fields :
       stored'[p][f] # stored[p][f] =>
         /\ p = s.prompt /\ stored'[p][f] = s.row[f]
         /\ f \in s.touched \/ Resplit(s, f)]_libraryVars

=============================================================================
