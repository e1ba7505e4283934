----------------------------- MODULE PromptLibrary -----------------------------
(***************************************************************************)
(* What the tables promise to the services above them: a library of        *)
(* prompts, each with its metadata, its stored labels, the bodies of its   *)
(* history and the one that reads and searches return.  Every call is one  *)
(* step here, and no row, rowid, index or checksum is to be seen.          *)
(***************************************************************************)

CONSTANTS PromptIds, Slugs, Titles, Categories, Bodies, Labels

VARIABLE library   \* a function from the ids present to their prompts

Prompt == [slug : Slugs, title : Titles, category : Categories, trashed : BOOLEAN,
           labels : SUBSET Labels, bodies : SUBSET Bodies, latest : Bodies]

Init == library = [p \in {} |-> {}]

Put(p, prompt) ==
  library' = [q \in DOMAIN library \cup {p} |-> IF q = p THEN prompt ELSE library[q]]

(* A prompt in the trash keeps its slug. *)
Create(p, slug, title, category, body) ==
  /\ p \notin DOMAIN library
  /\ \A q \in DOMAIN library : library[q].slug # slug
  /\ Put(p, [slug |-> slug, title |-> title, category |-> category, trashed |-> FALSE,
             labels |-> {}, bodies |-> {body}, latest |-> body])

(* A clock that was set back may leave the former version the latest one.  *)
Append(p, body) ==
  /\ p \in DOMAIN library
  /\ \E latest \in {body, library[p].latest} :
       Put(p, [library[p] EXCEPT !.bodies = @ \cup {body}, !.latest = latest])

Edit(p, title, category) ==
  /\ p \in DOMAIN library
  /\ Put(p, [library[p] EXCEPT !.title = title, !.category = category])

Move(p, trashed) ==
  /\ p \in DOMAIN library
  /\ Put(p, [library[p] EXCEPT !.trashed = trashed])

Label(p, labels) ==
  /\ p \in DOMAIN library
  /\ Put(p, [library[p] EXCEPT !.labels = labels])

Purge(p) ==
  /\ p \in DOMAIN library
  /\ library' = [q \in DOMAIN library \ {p} |-> library[q]]

Next ==
  \E p \in PromptIds :
    \/ \E s \in Slugs, t \in Titles, c \in Categories, b \in Bodies : Create(p, s, t, c, b)
    \/ \E b \in Bodies : Append(p, b)
    \/ \E t \in Titles, c \in Categories : Edit(p, t, c)
    \/ \E trashed \in BOOLEAN : Move(p, trashed)
    \/ \E ls \in SUBSET Labels : Label(p, ls)
    \/ Purge(p)

Spec == Init /\ [][Next]_library

=============================================================================
