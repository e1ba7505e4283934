----------------------------- MODULE Copies_proofs -----------------------------
(***************************************************************************)
(* Proofs about the parts that hold a copy of the library, for every value *)
(* of the constants: LibraryPages, whose library shows what is stored and  *)
(* whose editor saves what its user changed; PromptListPage, whose list    *)
(* shows what its filter selects; and GitSync, where what is sent is one   *)
(* export, what is imported is what the files say, and a version stays     *)
(* with its prompt.                                                        *)
(***************************************************************************)
EXTENDS LibraryPages, PromptListPage, GitSync, FiniteSetTheorems, SequenceTheorems, TLAPS

-----------------------------------------------------------------------------
(***************************************************************************)
(* The library and the editor                                              *)
(***************************************************************************)

(* Rows *)

LEMMA FavoriteOfRow ==
  ASSUME NEW row \in Rows, NEW value \in BOOLEAN
  PROVE  LET new == [row EXCEPT !.favorite = value]
         IN /\ new \in Rows /\ new.favorite = value
            /\ new.name = row.name /\ new.tags = row.tags /\ new.text = row.text
  BY DEF Rows

LEMMA EqualRows ==
  ASSUME NEW row \in Rows, NEW other \in Rows,
         row.favorite = other.favorite, row.name = other.name, row.tags = other.tags,
         row.text = other.text
  PROVE  row = other
  BY DEF Rows

LEMMA FieldOfRow ==
  ASSUME NEW row \in Rows, NEW f \in Fields, NEW value \in Values(f)
  PROVE  LET new == [row EXCEPT ![f] = value]
         IN new \in Rows /\ new[f] = value /\ \A g \in Fields \ {f} : new[g] = row[g]
  BY DEF Rows, Fields, Values

(* A form differs from its prompt in the labels alone, if at all. *)
LEMMA FormIs ==
  ASSUME NEW row \in Rows
  PROVE  /\ FormOf(row) \in Rows
         /\ FormOf(row).tags = Retyped[row.tags]
         /\ \A f \in Fields \ {"tags"} : FormOf(row)[f] = row[f]
<1>1. row # NoRow /\ Retyped[row.tags] \in Taggings
  BY PagesAssumption DEF PagesAssumption, Rows
<1> QED
  BY <1>1 DEF FormOf, Rows, Fields

LEMMA EnteredIs ==
  ASSUME NEW row \in Rows, NEW f \in Fields, NEW value \in Entered(f)
  PROVE  value \in Values(f)
<1>1. CASE f # "tags"
  BY <1>1 DEF Entered
<1>2. CASE f = "tags"
  <2>1. value \in Taggings
    BY <1>2, PagesAssumption DEF PagesAssumption, Entered
  <2>2. PICK new : new = [row EXCEPT !.tags = value]
    OBVIOUS
  <2>3. new \in Rows /\ new[f] = value
    BY <1>2, <2>1, <2>2 DEF Rows
  <2> QED
    BY <2>3 DEF Values
<1> QED
  BY <1>1, <1>2

LEMMA MergedRow ==
  ASSUME NEW row \in Rows, NEW other \in Rows, NEW fields
  PROVE  LET new == [f \in Fields |-> IF f \in fields THEN row[f] ELSE other[f]]
         IN new \in Rows /\ \A f \in Fields : new[f] = IF f \in fields THEN row[f] ELSE other[f]
  BY DEF Rows, Fields

-----------------------------------------------------------------------------
(* The invariant *)

FetchType ==
  [visit : Nat, answer : {Pending, Errored} \cup [Kept -> Rows], missed : SUBSET Kept]
StarType ==
  [prompt : Kept, was : BOOLEAN, visit : Nat, answer : {Pending, Errored} \cup Rows,
   missed : SUBSET Kept]
SaveType ==
  [prompt : Kept, visit : Nat, fields : SUBSET Fields, row : Rows, touched : SUBSET Fields,
   was : Rows, answer : {Pending, Errored, "ok"}]

Typed ==
  /\ LibraryTypeOK /\ visit \in Nat
  /\ fetches \subseteq FetchType /\ stars \subseteq StarType /\ saves \subseteq SaveType

(* A form differs from that of the prompt as it was opened where its user   *)
(* changed it, and a save writes what differs there, or labels that their   *)
(* line does not give back.                                                 *)
FormIsTouched ==
  /\ base = NoRow <=> form = NoRow
  /\ base # NoRow => \A f \in Fields : form[f] # FormOf(base)[f] => f \in touched
  /\ \A s \in saves : \A f \in s.fields : f \in s.touched \/ Resplit(s, f)

(* What is shown and what is on its way is stored, but for what was missed; *)
(* a favorite that is being written is not, but the rest of its row is.     *)
ShownIsStored ==
  /\ \A p \in DOMAIN listed \ (stale \cup starring) : listed[p] = stored[p]
  /\ \A p \in DOMAIN listed \ stale :
       /\ listed[p].name = stored[p].name /\ listed[p].tags = stored[p].tags
       /\ listed[p].text = stored[p].text

FetchesAreTrue ==
  \A f \in fetches : f.answer \in [Kept -> Rows] =>
    \A p \in Kept \ f.missed : f.answer[p] = stored[p]

StarsAreTrue ==
  \A s \in stars : s.prompt \notin s.missed =>
    /\ s.answer \in Rows => s.answer = stored[s.prompt]
    /\ s.answer \notin Rows => stored[s.prompt].favorite = s.was

(* One change of a favorite at a time, and the page knows of it. *)
OneStarEach ==
  /\ \A s \in stars : s.visit <= visit /\ (s.visit = visit => s.prompt \in starring)
  /\ \A s, other \in stars :
       s.visit = visit /\ other.visit = visit /\ s.prompt = other.prompt => s = other

PagesInv ==
  Typed /\ FormIsTouched /\ ShownIsStored /\ FetchesAreTrue /\ StarsAreTrue /\ OneStarEach


(* Calls on their way when a prompt is written *)

LEMMA OvertakenFetch ==
  ASSUME NEW all \in SUBSET FetchType, NEW p \in Kept, NEW f \in Overtaken(all, p)
  PROVE  f \in FetchType
         /\ \E old \in all : f.answer = old.answer /\ f.visit = old.visit
                             /\ f.missed = old.missed \cup {p}
  BY DEF Overtaken, FetchType

LEMMA OvertakenStar ==
  ASSUME NEW all \in SUBSET StarType, NEW p \in Kept, NEW s \in Overtaken(all, p)
  PROVE  s \in StarType
         /\ \E old \in all :
              /\ s = [old EXCEPT !.missed = @ \cup {p}]
              /\ s.prompt = old.prompt /\ s.was = old.was /\ s.visit = old.visit
              /\ s.answer = old.answer /\ s.missed = old.missed \cup {p}
  BY DEF Overtaken, StarType

LEMMA FetchesOvertaken ==
  ASSUME Typed, FetchesAreTrue, NEW p \in Kept, fetches' = Overtaken(fetches, p),
         \A q \in Kept \ {p} : stored'[q] = stored[q]
  PROVE  fetches' \subseteq FetchType /\ FetchesAreTrue'
<1>1. fetches' \subseteq FetchType
  BY OvertakenFetch DEF Typed
<1>2. ASSUME NEW f \in fetches', f.answer \in [Kept -> Rows], NEW q \in Kept \ f.missed
      PROVE  f.answer[q] = stored'[q]
  <2>1. PICK old \in fetches : f.answer = old.answer /\ f.missed = old.missed \cup {p}
    BY OvertakenFetch DEF Typed
  <2> QED
    BY <1>2, <2>1 DEF FetchesAreTrue
<1> QED
  BY <1>1, <1>2 DEF FetchesAreTrue

(* What holds of the calls about favorites holds of them as overtaken. *)
LEMMA StarsOvertaken ==
  ASSUME Typed, StarsAreTrue, OneStarEach, NEW all \in SUBSET stars, NEW p \in Kept,
         \A q \in Kept \ {p} : stored'[q] = stored[q]
  PROVE  /\ Overtaken(all, p) \subseteq StarType
         /\ \A s \in Overtaken(all, p) : s.prompt \notin s.missed =>
              /\ s.answer \in Rows => s.answer = stored'[s.prompt]
              /\ s.answer \notin Rows => stored'[s.prompt].favorite = s.was
         /\ \A s \in Overtaken(all, p) :
              s.visit <= visit /\ (s.visit = visit => s.prompt \in starring)
         /\ \A s, other \in Overtaken(all, p) :
              s.visit = visit /\ other.visit = visit /\ s.prompt = other.prompt => s = other
<1>1. all \in SUBSET StarType
  BY DEF Typed
<1>2. Overtaken(all, p) \subseteq StarType
  BY <1>1, OvertakenStar
<1> DEFINE From(s, old) ==
      /\ s = [old EXCEPT !.missed = @ \cup {p}]
      /\ s.prompt = old.prompt /\ s.was = old.was /\ s.visit = old.visit
      /\ s.answer = old.answer /\ s.missed = old.missed \cup {p}
<1>3. ASSUME NEW s \in Overtaken(all, p)
      PROVE  \E old \in all : From(s, old)
  BY <1>1 DEF Overtaken, StarType
<1>4. ASSUME NEW s \in Overtaken(all, p)
      PROVE  /\ s.prompt \notin s.missed =>
                  /\ s.answer \in Rows => s.answer = stored'[s.prompt]
                  /\ s.answer \notin Rows => stored'[s.prompt].favorite = s.was
             /\ s.visit <= visit /\ (s.visit = visit => s.prompt \in starring)
  <2>1. PICK old \in all : From(s, old)
    BY <1>3
  <2>2. old.prompt \in Kept
    BY <1>1 DEF StarType
  <2>3. s.prompt \notin s.missed => s.prompt # p /\ old.prompt \notin old.missed
    BY <2>1
  <2> QED
    BY <2>1, <2>2, <2>3 DEF StarsAreTrue, OneStarEach
<1>5. ASSUME NEW s \in Overtaken(all, p), NEW other \in Overtaken(all, p),
             s.visit = visit, other.visit = visit, s.prompt = other.prompt
      PROVE  s = other
  <2>1. PICK x \in all : From(s, x)
    BY <1>3
  <2>2. PICK y \in all : From(other, y)
    BY <1>3
  <2>3. x = y
    BY <1>5, <2>1, <2>2 DEF OneStarEach
  <2> QED
    BY <2>1, <2>2, <2>3
<1> QED
  BY <1>2, <1>4, <1>5

(* A write that neither the page nor the calls on their way have. *)
LEMMA WrittenBehind ==
  ASSUME PagesInv, NEW p \in Kept, Behind(p), stored' \in [Kept -> Rows],
         \A q \in Kept \ {p} : stored'[q] = stored[q],
         UNCHANGED <<listed, starring, visit>>
  PROVE  /\ stale' \subseteq Kept /\ fetches' \subseteq FetchType /\ stars' \subseteq StarType
         /\ ShownIsStored' /\ FetchesAreTrue' /\ StarsAreTrue' /\ OneStarEach'
<1> USE DEF PagesInv
<1>1. stale' = stale \cup {p} /\ fetches' = Overtaken(fetches, p) /\ stars' = Overtaken(stars, p)
  BY DEF Behind
<1>2. stale' \subseteq Kept
  BY <1>1 DEF Typed, LibraryTypeOK
<1>3. fetches' \subseteq FetchType /\ FetchesAreTrue'
  BY <1>1, FetchesOvertaken
<1>4. stars' \subseteq StarType /\ StarsAreTrue' /\ OneStarEach'
  BY <1>1, StarsOvertaken, stars \in SUBSET stars DEF StarsAreTrue, OneStarEach
<1>5. ShownIsStored'
  BY <1>1 DEF ShownIsStored, Typed, LibraryTypeOK
<1> QED
  BY <1>2, <1>3, <1>4, <1>5


-----------------------------------------------------------------------------
(* The steps *)

LEMMA InitialPages == LibraryInit => PagesInv
<1> SUFFICES ASSUME LibraryInit PROVE PagesInv
  OBVIOUS
<1> USE DEF LibraryInit
<1>1. DOMAIN listed = {}
  OBVIOUS
<1>2. Fetch(1) \in FetchType /\ Fetch(1).answer \notin [Kept -> Rows]
  BY PagesAssumption DEF Fetch, FetchType
<1>3. stored \in [Kept -> Rows]
  BY PagesAssumption
<1>4. Typed
  BY <1>1, <1>2, <1>3 DEF Typed, LibraryTypeOK
<1> QED
  BY <1>1, <1>2, <1>4 DEF PagesInv, FormIsTouched, ShownIsStored, FetchesAreTrue,
     StarsAreTrue, OneStarEach

LEMMA OpenKeeps ==
  ASSUME PagesInv, NEW to \in Kept \cup {"library"}, NEW row \in Rows \cup {NoRow},
         NEW reads \in BOOLEAN, Open(to, row, reads), UNCHANGED <<stored, stars>>,
         saves' \subseteq saves
  PROVE  PagesInv'
<1> USE DEF PagesInv
<1>1. DOMAIN listed' = {}
  BY DEF Open
<1>2. Fetch(visit + 1) \in FetchType /\ Fetch(visit + 1).answer \notin [Kept -> Rows]
  BY PagesAssumption DEF Fetch, FetchType, Typed
<1>3. fetches' \subseteq fetches \cup {Fetch(visit + 1)}
  BY DEF Open
<1>9. PICK new : new = FormOf(row)
  OBVIOUS
<1>10. /\ new \in Rows \cup {NoRow} /\ (row = NoRow <=> new = NoRow)
       /\ base' = row /\ form' = new /\ FormOf(base)' = new
  BY <1>9, FormIs, PagesAssumption DEF PagesAssumption, FormOf, Open
<1>4. Typed'
  BY <1>1, <1>2, <1>3, <1>10 DEF Typed, LibraryTypeOK, Open
<1>5. FormIsTouched'
  BY <1>10 DEF FormIsTouched
<1>6. ShownIsStored'
  BY <1>1 DEF ShownIsStored
<1>7. FetchesAreTrue' /\ StarsAreTrue'
  BY <1>2, <1>3 DEF FetchesAreTrue, StarsAreTrue
<1>8. OneStarEach'
  BY DEF OneStarEach, Open, Typed, StarType
<1> QED
  BY <1>4, <1>5, <1>6, <1>7, <1>8

LEMMA OpenLibraryKeeps == ASSUME PagesInv, OpenLibrary PROVE PagesInv'
  BY OpenKeeps DEF OpenLibrary

LEMMA EditKeeps == ASSUME PagesInv, NEW p \in Kept, Edit(p) PROVE PagesInv'
  BY OpenKeeps DEF Edit, InList, PagesInv, Typed, LibraryTypeOK

LEMMA SavedKeeps == ASSUME PagesInv, NEW s \in saves, Saved(s) PROVE PagesInv'
  BY OpenKeeps DEF Saved

LEMMA RetryKeeps == ASSUME PagesInv, Retry PROVE PagesInv'
<1> USE DEF PagesInv, Retry, shelf, editor
<1>1. Fetch(visit) \in FetchType /\ Fetch(visit).answer \notin [Kept -> Rows]
  BY PagesAssumption DEF Fetch, FetchType, Typed
<1>2. Typed'
  BY <1>1 DEF Typed, LibraryTypeOK
<1> QED
  BY <1>1, <1>2 DEF FormIsTouched, ShownIsStored, FetchesAreTrue, StarsAreTrue, OneStarEach

LEMMA ServeFetchKeeps == ASSUME PagesInv, NEW f \in fetches, ServeFetch(f) PROVE PagesInv'
<1> USE DEF PagesInv, shelf, editor
<1>1. PICK new : fetches' = (fetches \ {f}) \cup {new}
                 /\ (\/ new = [f EXCEPT !.answer = stored, !.missed = {}]
                     \/ new = [f EXCEPT !.answer = Errored])
  BY DEF ServeFetch, Answers
<1>2. new \in FetchType /\ (new.answer \in [Kept -> Rows] => new.answer = stored)
  BY ZenonT(60), <1>1, PagesAssumption DEF Typed, LibraryTypeOK, FetchType
<1>3. UNCHANGED <<stored, opened, visit, listed, reading, failedToRead, starring, base, form,
                  saving, touched, stars, saves, stale>>
  BY DEF ServeFetch
<1>4. Typed'
  BY <1>1, <1>2, <1>3 DEF Typed, LibraryTypeOK
<1> QED
  BY <1>1, <1>2, <1>3, <1>4
     DEF FormIsTouched, ShownIsStored, FetchesAreTrue, StarsAreTrue, OneStarEach

LEMMA GotFetchKeeps == ASSUME PagesInv, NEW f \in fetches, GotFetch(f) PROVE PagesInv'
<1> USE DEF PagesInv, shelf
<1>1. f \in FetchType /\ f.missed \subseteq Kept
  BY DEF Typed, FetchType
<1>2. fetches' = fetches \ {f} /\ UNCHANGED <<stored, opened, visit, starring, saving, touched, stars, saves>>
  BY DEF GotFetch
<1>3. CASE UNCHANGED <<listed, base, form, stale>>
  BY <1>2, <1>3 DEF Typed, LibraryTypeOK, FormIsTouched, ShownIsStored, FetchesAreTrue,
     StarsAreTrue, OneStarEach
<1>4. CASE /\ f.answer \in [Kept -> Rows] /\ UNCHANGED <<base, form>>
           /\ listed' = f.answer /\ stale' = f.missed
  <2>1. Typed'
    BY <1>1, <1>2, <1>4 DEF Typed, LibraryTypeOK
  <2>2. ShownIsStored'
    BY <1>2, <1>4 DEF ShownIsStored, FetchesAreTrue
  <2> QED
    BY <1>2, <1>4, <2>1, <2>2 DEF FormIsTouched, FetchesAreTrue, StarsAreTrue, OneStarEach
<1>5. CASE /\ f.answer \in [Kept -> Rows] /\ opened \in Kept /\ UNCHANGED <<listed, stale>>
           /\ base' = f.answer[opened] /\ form' = FormOf(f.answer[opened])
  <2>1. f.answer[opened] \in Rows /\ f.answer[opened] # NoRow
    BY <1>5, PagesAssumption
  <2>2. PICK new : new = FormOf(f.answer[opened])
    OBVIOUS
  <2>3. new \in Rows /\ new # NoRow /\ form' = new /\ FormOf(base)' = new
    BY <1>5, <2>1, <2>2, FormIs, PagesAssumption DEF PagesAssumption, FormOf
  <2>4. Typed'
    BY <1>2, <1>5, <2>1, <2>3 DEF Typed, LibraryTypeOK
  <2>5. FormIsTouched'
    BY <1>2, <1>5, <2>1, <2>3 DEF FormIsTouched
  <2> QED
    BY <1>2, <1>5, <2>4, <2>5 DEF ShownIsStored, FetchesAreTrue, StarsAreTrue, OneStarEach
<1> QED
  BY <1>1, <1>3, <1>4, <1>5 DEF GotFetch, FetchType, Typed, LibraryTypeOK


LEMMA ToggleFavoriteKeeps == ASSUME PagesInv, NEW p \in Kept, ToggleFavorite(p) PROVE PagesInv'
<1> USE DEF PagesInv
<1>1. /\ opened = "library" /\ p \in DOMAIN listed /\ p \notin starring
      /\ starring' = starring \cup {p} /\ stars' = stars \cup {Star(p)}
      /\ listed' = [listed EXCEPT ![p].favorite = ~@]
      /\ UNCHANGED <<stored, opened, visit, base, form, saving, touched, fetches, saves, stale>>
  BY DEF ToggleFavorite, InList, IsFree, editor
<1>2. listed[p] \in Rows /\ listed[p].favorite \in BOOLEAN
  BY <1>1 DEF Typed, LibraryTypeOK, Rows
<1>3. /\ DOMAIN listed' = DOMAIN listed /\ listed'[p] \in Rows
      /\ listed'[p].name = listed[p].name /\ listed'[p].tags = listed[p].tags
      /\ listed'[p].text = listed[p].text
      /\ \A q \in DOMAIN listed \ {p} : listed'[q] = listed[q]
  BY ZenonT(60), <1>1, <1>2, FavoriteOfRow
<1>4. /\ Star(p) \in StarType /\ Star(p).prompt = p /\ Star(p).visit = visit
      /\ Star(p).was = listed[p].favorite /\ Star(p).answer \notin Rows
      /\ Star(p).missed = stale \cap {p}
  BY <1>2, PagesAssumption DEF Star, StarType, Typed
<1>5. p \notin stale => stored[p].favorite = listed[p].favorite
  BY <1>1 DEF ShownIsStored
<1>6. Typed'
  BY <1>1, <1>3, <1>4 DEF Typed, LibraryTypeOK
<1>7. ShownIsStored'
  BY <1>1, <1>3 DEF ShownIsStored
<1>8. StarsAreTrue'
  BY <1>1, <1>4, <1>5 DEF StarsAreTrue
<1>9. OneStarEach'
  BY <1>1, <1>4 DEF OneStarEach, Typed
<1> QED
  BY <1>1, <1>6, <1>7, <1>8, <1>9 DEF FormIsTouched, FetchesAreTrue

LEMMA ServeStarKeeps == ASSUME PagesInv, NEW s \in stars, ServeStar(s) PROVE PagesInv'
<1> USE DEF PagesInv
<1> DEFINE p == s.prompt
           others == Overtaken(stars \ {s}, p)
           Write == stored' = [stored EXCEPT ![p].favorite = ~s.was]
<1>1. /\ s \in StarType /\ p \in Kept /\ s.was \in BOOLEAN /\ s.visit \in Nat
      /\ stored[p] \in Rows /\ stored \in [Kept -> Rows]
  BY DEF Typed, LibraryTypeOK, StarType
<1>2. UNCHANGED <<opened, visit, listed, reading, failedToRead, starring, base, form, saving,
                  touched, saves>>
  BY DEF ServeStar, shelf, editor
<1>3. Write => /\ stored' \in [Kept -> Rows]
               /\ stored'[p].name = stored[p].name /\ stored'[p].tags = stored[p].tags
               /\ stored'[p].text = stored[p].text
               /\ \A q \in Kept \ {p} : stored'[q] = stored[q]
  BY ZenonT(60), <1>1, FavoriteOfRow
<1>4. CASE /\ UNCHANGED <<stored, stale, fetches>>
           /\ stars' = (stars \ {s}) \cup {[s EXCEPT !.answer = Errored]}
  <2> DEFINE new == [s EXCEPT !.answer = Errored]
  <2>1. /\ new \in StarType /\ new.prompt = p /\ new.was = s.was /\ new.visit = s.visit
        /\ new.missed = s.missed /\ new.answer \notin Rows
    BY <1>1, PagesAssumption DEF StarType
  <2>2. s.answer \notin Rows
    BY PagesAssumption DEF ServeStar
  <2> HIDE DEF new
  <2>3. stars' = (stars \ {s}) \cup {new}
    BY <1>4 DEF new
  <2>4. Typed'
    BY <1>2, <1>4, <2>1, <2>3 DEF Typed, LibraryTypeOK
  <2>5. StarsAreTrue'
    BY <1>4, <2>1, <2>2, <2>3 DEF StarsAreTrue
  <2>6. OneStarEach'
    BY <1>2, <2>1, <2>3 DEF OneStarEach
  <2> QED
    BY <1>2, <1>4, <2>4, <2>5, <2>6 DEF FormIsTouched, ShownIsStored, FetchesAreTrue
<1>5. ASSUME Write, fetches' = Overtaken(fetches, p), NEW new \in StarType,
             new.prompt = p, new.visit = s.visit, stars' = others \cup {new},
             stale' \subseteq stale \cup {p}, stale \subseteq stale',
             s.visit # visit => p \in stale',
             p \notin new.missed => new.answer \in Rows /\ new.answer = stored'[p]
      PROVE  PagesInv'
  <2>1. fetches' \subseteq FetchType /\ FetchesAreTrue'
    BY <1>1, <1>3, <1>5, FetchesOvertaken
  <2>2. stars \ {s} \in SUBSET stars
    OBVIOUS
  <2> HIDE DEF Write
  <2>3. /\ others \subseteq StarType
        /\ \A x \in others : x.prompt \notin x.missed =>
              /\ x.answer \in Rows => x.answer = stored'[x.prompt]
              /\ x.answer \notin Rows => stored'[x.prompt].favorite = x.was
        /\ \A x \in others : x.visit <= visit /\ (x.visit = visit => x.prompt \in starring)
        /\ \A x, y \in others :
              x.visit = visit /\ y.visit = visit /\ x.prompt = y.prompt => x = y
    BY <1>1, <1>3, <1>5, <2>2, StarsOvertaken
  <2>4. \A x \in others : x.visit = visit /\ s.visit = visit => x.prompt # p
    <3> SUFFICES ASSUME NEW x \in others, x.visit = visit, s.visit = visit PROVE x.prompt # p
      OBVIOUS
    <3>1. PICK old \in stars \ {s} : x.prompt = old.prompt /\ x.visit = old.visit
      BY DEF Overtaken, Typed, StarType
    <3> QED
      BY <3>1 DEF OneStarEach
  <2>5. s.visit <= visit /\ (s.visit = visit => p \in starring)
    BY DEF OneStarEach
  <2> HIDE DEF others
  <2>6. Typed'
    BY <1>1, <1>2, <1>3, <1>5, <2>1, <2>3 DEF Typed, LibraryTypeOK
  <2>7. StarsAreTrue'
    BY <1>5, <2>3 DEF StarsAreTrue
  <2>8. OneStarEach'
    BY <1>2, <1>5, <2>3, <2>4, <2>5 DEF OneStarEach
  <2>9. ShownIsStored'
    <3>1. ASSUME NEW q \in DOMAIN listed \ (stale' \cup starring) PROVE listed[q] = stored'[q]
      <4>1. q \in Kept /\ q # p
        BY <1>5, <2>5 DEF Typed, LibraryTypeOK
      <4> QED
        BY <1>3, <1>5, <4>1 DEF ShownIsStored
    <3>2. ASSUME NEW q \in DOMAIN listed \ stale'
          PROVE  /\ listed[q].name = stored'[q].name /\ listed[q].tags = stored'[q].tags
                 /\ listed[q].text = stored'[q].text
      <4>1. q \in Kept
        BY DEF Typed, LibraryTypeOK
      <4> QED
        BY <1>3, <1>5, <4>1 DEF ShownIsStored
    <3> QED
      BY <1>2, <3>1, <3>2 DEF ShownIsStored
  <2> QED
    BY <1>2, <2>1, <2>6, <2>7, <2>8, <2>9 DEF FormIsTouched
<1>6. CASE /\ Write /\ fetches' = Overtaken(fetches, p)
           /\ stars' = others \cup {[s EXCEPT !.answer = stored'[p], !.missed = {}]}
           /\ stale' = IF s.visit = visit THEN stale ELSE stale \cup {p}
  <2> DEFINE new == [s EXCEPT !.answer = stored'[p], !.missed = {}]
  <2>1. stored'[p] \in Rows
    BY <1>1, <1>3, <1>6
  <2>2. /\ new \in StarType /\ new.prompt = p /\ new.visit = s.visit /\ new.answer = stored'[p]
    BY <1>1, <2>1 DEF StarType
  <2> HIDE DEF new, others, p, Write
  <2> QED
    BY <1>5, <1>6, <2>1, <2>2 DEF new
<1>7. CASE /\ Write /\ fetches' = Overtaken(fetches, p)
           /\ stars' = others \cup {[s EXCEPT !.answer = Errored, !.missed = {p}]}
           /\ stale' = stale \cup {p}
  <2> DEFINE new == [s EXCEPT !.answer = Errored, !.missed = {p}]
  <2>1. /\ new \in StarType /\ new.prompt = p /\ new.visit = s.visit /\ new.missed = {p}
    BY <1>1 DEF StarType
  <2> HIDE DEF new, others, p, Write
  <2> QED
    BY <1>5, <1>7, <2>1 DEF new
<1> QED
  BY <1>4, <1>6, <1>7 DEF ServeStar, Answers


LEMMA GotStarKeeps == ASSUME PagesInv, NEW s \in stars, GotStar(s) PROVE PagesInv'
<1> USE DEF PagesInv
<1> DEFINE p == s.prompt
<1>1. /\ s \in StarType /\ p \in Kept /\ s.was \in BOOLEAN /\ s.missed \subseteq Kept
      /\ stored[p] \in Rows /\ (s.answer = Errored \/ s.answer \in Rows)
      /\ (s.answer = Errored => s.answer \notin Rows)
  BY PagesAssumption DEF Typed, LibraryTypeOK, StarType, GotStar
<1>2. /\ stars' = stars \ {s}
      /\ UNCHANGED <<stored, opened, visit, base, form, saving, touched, fetches, saves>>
  BY DEF GotStar, editor
<1>3. StarsAreTrue' /\ FormIsTouched' /\ FetchesAreTrue'
  BY <1>2 DEF StarsAreTrue, FormIsTouched, FetchesAreTrue
<1>4. CASE s.visit # visit
  <2>1. UNCHANGED <<listed, starring, stale>>
    BY <1>4 DEF GotStar
  <2>2. Typed' /\ ShownIsStored'
    BY <1>2, <2>1 DEF Typed, LibraryTypeOK, ShownIsStored
  <2>3. OneStarEach'
    BY <1>2, <2>1 DEF OneStarEach
  <2> QED
    BY <1>3, <2>2, <2>3
<1>5. ASSUME s.visit = visit, starring' = starring \ {p}, NEW new \in Rows,
             listed' = [listed EXCEPT ![p] = new],
             stale' \subseteq Kept, s.missed \subseteq stale', stale \ {p} \subseteq stale',
             p \in DOMAIN listed /\ p \notin stale' => new = stored[p]
      PROVE  PagesInv'
  <2>1. DOMAIN listed' = DOMAIN listed /\ \A q \in DOMAIN listed \ {p} : listed'[q] = listed[q]
    BY <1>5
  <2>2. p \in DOMAIN listed => listed'[p] = new
    BY <1>5
  <2>3. Typed'
    BY <1>2, <1>5, <2>1, <2>2 DEF Typed, LibraryTypeOK
  <2>4. OneStarEach'
    BY <1>2, <1>5 DEF OneStarEach
  <2>5. ShownIsStored'
    BY <1>2, <1>5, <2>1, <2>2 DEF ShownIsStored
  <2> QED
    BY <1>3, <2>3, <2>4, <2>5
<1>6. CASE s.visit = visit /\ s.answer = Errored
  <2>1. /\ starring' = starring \ {p} /\ stale' = stale \cup s.missed
        /\ listed' = [listed EXCEPT ![p].favorite = s.was]
    BY <1>6 DEF GotStar
  <2>2. CASE p \notin DOMAIN listed
    <3>1. listed' = [listed EXCEPT ![p] = stored[p]]
      BY <2>1, <2>2
    <3> QED
      BY <1>1, <1>5, <1>6, <2>1, <2>2, <3>1 DEF Typed, LibraryTypeOK
  <2>3. CASE p \in DOMAIN listed
    <3> DEFINE new == [listed[p] EXCEPT !.favorite = s.was]
    <3>1. listed[p] \in Rows
      BY <2>3 DEF Typed, LibraryTypeOK
    <3>2. /\ new \in Rows /\ new.favorite = s.was
          /\ new.name = listed[p].name /\ new.tags = listed[p].tags
          /\ new.text = listed[p].text
      BY <1>1, <3>1, FavoriteOfRow
    <3>3. listed' = [listed EXCEPT ![p] = new]
      BY <2>1
    <3> HIDE DEF new
    <3>4. ASSUME p \notin stale \cup s.missed PROVE new = stored[p]
      <4>1. stored[p].favorite = s.was
        BY <1>1, <1>6, <3>4 DEF StarsAreTrue
      <4>2. /\ listed[p].name = stored[p].name /\ listed[p].tags = stored[p].tags
            /\ listed[p].text = stored[p].text
        BY <2>3, <3>4 DEF ShownIsStored
      <4> QED
        BY <1>1, <3>2, <4>1, <4>2, EqualRows
    <3> QED
      BY <1>1, <1>5, <1>6, <2>1, <3>2, <3>3, <3>4 DEF Typed, LibraryTypeOK
  <2> QED
    BY <2>2, <2>3
<1>7. CASE s.visit = visit /\ s.answer \in Rows
  <2>1. /\ starring' = starring \ {p} /\ stale' = (stale \ {p}) \cup s.missed
        /\ listed' = [listed EXCEPT ![p] = s.answer]
    BY <1>1, <1>7 DEF GotStar
  <2>2. p \notin s.missed => s.answer = stored[p]
    BY <1>7 DEF StarsAreTrue
  <2> QED
    BY <1>1, <1>5, <1>7, <2>1, <2>2 DEF Typed, LibraryTypeOK
<1> QED
  BY <1>1, <1>4, <1>6, <1>7

LEMMA ChangeKeeps ==
  ASSUME PagesInv, NEW f \in Fields, NEW value \in Entered(f), Change(f, value)
  PROVE  PagesInv'
<1> USE DEF PagesInv
<1>1. /\ base # NoRow /\ form' = [form EXCEPT ![f] = value] /\ touched' = touched \cup {f}
      /\ UNCHANGED <<stored, opened, visit, listed, reading, failedToRead, starring, base, saving,
                     fetches, stars, saves, stale>>
  BY DEF Change, Editing, shelf, under
<1>2. form \in Rows
  BY <1>1 DEF FormIsTouched, Typed, LibraryTypeOK
<1> DEFINE new == [form EXCEPT ![f] = value]
<1>7. new \in Rows /\ \A g \in Fields \ {f} : new[g] = form[g]
  BY <1>2, EnteredIs, FieldOfRow
<1>8. form' = new
  BY <1>1
<1> HIDE DEF new
<1>3. form' \in Rows /\ \A g \in Fields \ {f} : form'[g] = form[g]
  BY <1>7, <1>8
<1>4. form' # NoRow
  BY <1>3, PagesAssumption
<1>5. Typed'
  BY <1>1, <1>3 DEF Typed, LibraryTypeOK
<1>9. FormOf(base)' = FormOf(base)
  BY <1>1 DEF FormOf
<1>6. FormIsTouched'
  BY <1>1, <1>3, <1>4, <1>9 DEF FormIsTouched
<1> QED
  BY <1>1, <1>5, <1>6 DEF ShownIsStored, FetchesAreTrue, StarsAreTrue, OneStarEach

LEMMA BeginKeeps ==
  ASSUME PagesInv, NEW save \in SaveType, Begin(save),
         \A f \in save.fields : f \in save.touched \/ Resplit(save, f)
  PROVE  PagesInv'
<1> USE DEF PagesInv
<1>1. /\ saves' = saves \cup {save}
      /\ UNCHANGED <<stored, opened, visit, listed, reading, failedToRead, starring, base, form,
                     touched, fetches, stars, stale>>
  BY DEF Begin, shelf
<1>2. Typed'
  BY <1>1 DEF Typed, LibraryTypeOK
<1> QED
  BY <1>1, <1>2 DEF FormIsTouched, ShownIsStored, FetchesAreTrue, StarsAreTrue, OneStarEach

LEMMA SubmitKeeps == ASSUME PagesInv, Submit PROVE PagesInv'
<1>1. opened \in Kept /\ base \in Rows /\ base # NoRow /\ form \in Rows
  BY DEF Submit, Editing, PagesInv, FormIsTouched, Typed, LibraryTypeOK
<1>2. PICK save : save = Save(Changes, form, touched)
  OBVIOUS
<1>3. /\ save.fields = Changes /\ save.row = form /\ save.touched = touched /\ save.was = base
      /\ save \in SaveType
  BY <1>1, <1>2 DEF Save, SaveType, Changes, PagesInv, Typed, LibraryTypeOK
<1>4. ASSUME NEW f \in save.fields, f \notin save.touched
      PROVE  Resplit(save, f)
  <2>1. f \in Fields /\ form[f] # base[f] /\ form[f] = FormOf(base)[f]
    BY <1>1, <1>3, <1>4 DEF Changes, PagesInv, FormIsTouched
  <2>2. f = "tags" /\ form[f] = Retyped[base[f]]
    BY <1>1, <2>1, FormIs
  <2> QED
    BY <1>3, <2>1, <2>2 DEF Resplit
<1> QED
  BY <1>2, <1>3, <1>4, BeginKeeps DEF Submit

LEMMA RevertKeeps == ASSUME PagesInv, NEW text \in Texts, Revert(text) PROVE PagesInv'
<1> DEFINE row == [form EXCEPT !.text = text]
           save == Save({"text"}, row, {"text"})
<1>1. opened \in Kept /\ base \in Rows /\ base # NoRow /\ form \in Rows
  BY DEF Revert, Editing, PagesInv, FormIsTouched, Typed, LibraryTypeOK
<1>2. row \in Rows
  BY <1>1 DEF Rows
<1> HIDE DEF row
<1>3. save \in SaveType /\ save.fields \subseteq save.touched
  BY <1>1, <1>2 DEF Save, SaveType, Fields, PagesInv, Typed, LibraryTypeOK
<1> HIDE DEF save
<1> QED
  BY <1>3, BeginKeeps DEF Revert, save, row


(* What a call of a save stores, if it stores anything. *)
LEMMA SaveWrites ==
  ASSUME PagesInv, NEW s \in saves, ServeSave(s)
  PROVE  /\ s \in SaveType
         /\ \E answer \in {"ok", Errored} : saves' = Answers(saves, s, answer)
         /\ UNCHANGED <<opened, visit, listed, reading, failedToRead, starring, base, form,
                        saving, touched>>
         /\ \/ UNCHANGED <<stored, stale, fetches, stars>>
            \/ /\ Behind(s.prompt) /\ stored' \in [Kept -> Rows]
               /\ \A q \in Kept \ {s.prompt} : stored'[q] = stored[q]
               /\ \A f \in Fields : stored'[s.prompt][f] =
                    IF f \in Written(s) THEN s.row[f] ELSE stored[s.prompt][f]
<1>1. s \in SaveType /\ s.prompt \in Kept /\ s.row \in Rows
  BY DEF PagesInv, Typed, SaveType
<1>2. stored \in [Kept -> Rows]
  BY DEF PagesInv, Typed, LibraryTypeOK
<1> DEFINE p == s.prompt
           new == [f \in Fields |-> IF f \in Written(s) THEN s.row[f] ELSE stored[p][f]]
<1>3. /\ new \in Rows
      /\ \A f \in Fields : new[f] = IF f \in Written(s) THEN s.row[f] ELSE stored[p][f]
  <2> DEFINE other == stored[p]
             Merge(row, fields) == [f \in Fields |-> IF f \in fields THEN row[f] ELSE other[f]]
  <2>1. s.row \in Rows /\ other \in Rows
    BY <1>1, <1>2
  <2> HIDE DEF p, other
  <2>2. \A row \in Rows : \A fields : Merge(row, fields) \in Rows
          /\ \A f \in Fields : Merge(row, fields)[f] = IF f \in fields THEN row[f] ELSE other[f]
    BY <2>1, MergedRow
  <2>3. new = Merge(s.row, Written(s))
    BY DEF other
  <2> HIDE DEF Merge, new
  <2> QED
    BY <2>1, <2>2, <2>3 DEF other
<1>4. \E answer \in {"ok", Errored} : saves' = Answers(saves, s, answer)
  BY DEF ServeSave
<1>5. UNCHANGED <<opened, visit, listed, reading, failedToRead, starring, base, form,
                  saving, touched>>
  BY DEF ServeSave, shelf, editor
<1>6. \/ UNCHANGED <<stored, stale, fetches, stars>>
      \/ stored' = [stored EXCEPT ![p] = new] /\ Behind(p)
  BY DEF ServeSave
<1> HIDE DEF new
<1>7. stored' = [stored EXCEPT ![p] = new] =>
        /\ stored' \in [Kept -> Rows] /\ stored'[p] = new
        /\ \A q \in Kept \ {p} : stored'[q] = stored[q]
  BY <1>1, <1>2, <1>3
<1> QED
  BY <1>1, <1>3, <1>4, <1>5, <1>6, <1>7

LEMMA ServeSaveKeeps == ASSUME PagesInv, NEW s \in saves, ServeSave(s) PROVE PagesInv'
<1> USE DEF PagesInv
<1>1. /\ s \in SaveType
      /\ \E answer \in {"ok", Errored} : saves' = Answers(saves, s, answer)
      /\ UNCHANGED <<opened, visit, listed, reading, failedToRead, starring, base, form,
                     saving, touched>>
  BY SaveWrites
<1>2. PICK new \in SaveType : /\ saves' = (saves \ {s}) \cup {new}
                              /\ new.fields = s.fields /\ new.touched = s.touched
                              /\ new.row = s.row /\ new.was = s.was
  <2>1. PICK answer \in {"ok", Errored} : saves' = Answers(saves, s, answer)
    BY <1>1
  <2>2. [s EXCEPT !.answer = answer] \in SaveType
    BY <1>1 DEF SaveType
  <2>3. /\ [s EXCEPT !.answer = answer].fields = s.fields
        /\ [s EXCEPT !.answer = answer].touched = s.touched
        /\ [s EXCEPT !.answer = answer].row = s.row
        /\ [s EXCEPT !.answer = answer].was = s.was
    BY <1>1 DEF SaveType
  <2> QED
    BY <2>1, <2>2, <2>3 DEF Answers
<1>6. FormOf(base)' = FormOf(base) /\ \A f \in new.fields : f \in new.touched \/ Resplit(new, f)
  BY <1>1, <1>2 DEF FormIsTouched, FormOf, Resplit
<1>3. saves' \subseteq SaveType /\ FormIsTouched'
  BY <1>1, <1>2, <1>6 DEF FormIsTouched, Typed
<1>4. /\ stored' \in [Kept -> Rows] /\ stale' \subseteq Kept
      /\ fetches' \subseteq FetchType /\ stars' \subseteq StarType
      /\ ShownIsStored' /\ FetchesAreTrue' /\ StarsAreTrue' /\ OneStarEach'
  <2>1. CASE UNCHANGED <<stored, stale, fetches, stars>>
    BY <1>1, <2>1 DEF Typed, LibraryTypeOK, ShownIsStored, FetchesAreTrue, StarsAreTrue, OneStarEach
  <2>2. CASE /\ Behind(s.prompt) /\ stored' \in [Kept -> Rows]
             /\ \A q \in Kept \ {s.prompt} : stored'[q] = stored[q]
    <3>1. s.prompt \in Kept
      BY <1>1 DEF SaveType
    <3> QED
      BY <1>1, <2>2, <3>1, WrittenBehind
  <2> QED
    BY <2>1, <2>2, SaveWrites
<1>5. Typed'
  BY <1>1, <1>3, <1>4 DEF Typed, LibraryTypeOK
<1> QED
  BY <1>3, <1>4, <1>5

LEMMA SaveTextKeeps == ASSUME PagesInv, NEW s \in saves, SaveText(s) PROVE PagesInv'
<1> USE DEF PagesInv
<1> DEFINE new == [s EXCEPT !.answer = Pending, !.fields = @ \ Written(s)]
<1>1. saves' = (saves \ {s}) \cup {new}
  BY DEF SaveText
<1>2. UNCHANGED <<stored, opened, visit, listed, reading, failedToRead, starring, base, form,
                  saving, touched, fetches, stars, stale>>
  BY DEF SaveText, shelf, editor
<1>3. s \in SaveType /\ \A f \in s.fields : f \in s.touched \/ Resplit(s, f)
  BY DEF Typed, FormIsTouched
<1>6. /\ new \in SaveType /\ new.fields \subseteq s.fields /\ new.touched = s.touched
      /\ new.row = s.row /\ new.was = s.was
  BY <1>3 DEF SaveType
<1>4. new \in SaveType /\ \A f \in new.fields : f \in new.touched \/ Resplit(new, f)
  BY <1>3, <1>6 DEF Resplit
<1> HIDE DEF new
<1>5. Typed'
  BY <1>1, <1>2, <1>4 DEF Typed, LibraryTypeOK
<1> QED
  BY <1>1, <1>2, <1>4, <1>5
     DEF FormIsTouched, ShownIsStored, FetchesAreTrue, StarsAreTrue, OneStarEach

LEMMA NotSavedKeeps == ASSUME PagesInv, NEW s \in saves, NotSaved(s) PROVE PagesInv'
<1>1. /\ saves' = saves \ {s}
      /\ UNCHANGED <<stored, opened, visit, listed, reading, failedToRead, starring, base, form,
                     touched, fetches, stars, stale>>
  BY DEF NotSaved, shelf
<1> QED
  BY <1>1 DEF PagesInv, Typed, LibraryTypeOK, FormIsTouched, ShownIsStored, FetchesAreTrue,
     StarsAreTrue, OneStarEach

LEMMA WriteElsewhereKeeps ==
  ASSUME PagesInv, NEW p \in Kept, NEW f \in Fields, NEW value \in Values(f),
         WriteElsewhere(p, f, value)
  PROVE  PagesInv'
<1> USE DEF PagesInv
<1>1. /\ stored' = [stored EXCEPT ![p][f] = value] /\ Behind(p)
      /\ UNCHANGED <<opened, visit, listed, reading, failedToRead, starring, base, form,
                     saving, touched, saves>>
  BY DEF WriteElsewhere, shelf, editor
<1>2. stored \in [Kept -> Rows]
  BY DEF Typed, LibraryTypeOK
<1> DEFINE new == [stored[p] EXCEPT ![f] = value]
<1>3. new \in Rows
  BY <1>2, FieldOfRow
<1>4. stored' = [stored EXCEPT ![p] = new]
  BY <1>1
<1> HIDE DEF new
<1>5. stored' \in [Kept -> Rows] /\ \A q \in Kept \ {p} : stored'[q] = stored[q]
  BY <1>2, <1>3, <1>4
<1>6. /\ stale' \subseteq Kept /\ fetches' \subseteq FetchType /\ stars' \subseteq StarType
      /\ ShownIsStored' /\ FetchesAreTrue' /\ StarsAreTrue' /\ OneStarEach'
  BY <1>1, <1>5, WrittenBehind
<1>7. Typed' /\ FormIsTouched'
  BY <1>1, <1>5, <1>6 DEF Typed, LibraryTypeOK, FormIsTouched
<1> QED
  BY <1>6, <1>7

LEMMA StepKeeps == PagesInv /\ [LibraryNext]_libraryVars => PagesInv'
<1> SUFFICES ASSUME PagesInv, [LibraryNext]_libraryVars PROVE PagesInv'
  OBVIOUS
<1>1. CASE UNCHANGED libraryVars
  BY <1>1 DEF libraryVars, shelf, editor, under, PagesInv, Typed, LibraryTypeOK, FormIsTouched,
     ShownIsStored, FetchesAreTrue, StarsAreTrue, OneStarEach
<1>2. CASE OpenLibrary \/ Retry \/ Submit
  BY <1>2, OpenLibraryKeeps, RetryKeeps, SubmitKeeps
<1>3. CASE \E p \in Kept : Edit(p) \/ ToggleFavorite(p)
  BY <1>3, EditKeeps, ToggleFavoriteKeeps
<1>4. CASE \E f \in fetches : ServeFetch(f) \/ GotFetch(f)
  BY <1>4, ServeFetchKeeps, GotFetchKeeps
<1>5. CASE \E s \in stars : ServeStar(s) \/ GotStar(s)
  BY <1>5, ServeStarKeeps, GotStarKeeps
<1>6. CASE \E s \in saves : ServeSave(s) \/ SaveText(s) \/ Saved(s) \/ NotSaved(s)
  BY <1>6, ServeSaveKeeps, SaveTextKeeps, SavedKeeps, NotSavedKeeps
<1>7. CASE \E f \in Fields : \E value \in Entered(f) : Change(f, value)
  BY <1>7, ChangeKeeps
<1>8. CASE \E text \in Texts : Revert(text)
  BY <1>8, RevertKeeps
<1>9. CASE \E p \in Kept, f \in Fields : \E value \in Values(f) : WriteElsewhere(p, f, value)
  BY <1>9, WriteElsewhereKeeps
<1> QED
  BY <1>1, <1>2, <1>3, <1>4, <1>5, <1>6, <1>7, <1>8, <1>9 DEF LibraryNext

LEMMA PagesStay == LibrarySpec => []PagesInv
<1> QED
  BY InitialPages, StepKeeps, PTL DEF LibrarySpec

-----------------------------------------------------------------------------
(* The library shows what is stored, whatever the order of the answers to   *)
(* loads and to changes of favorites, failures and writes of others         *)
(* (LibraryPage.tsx).                                                       *)
THEOREM LibraryAlwaysAgrees == LibrarySpec => []LibraryAgrees
<1>1. PagesInv => LibraryAgrees
  BY DEF PagesInv, Typed, ShownIsStored, LibraryAgrees
<1> QED
  BY <1>1, PagesStay, PTL

(* A save changes only fields that its user changed in the form, and to     *)
(* what the form showed (EditPromptPage.tsx), but for labels that hold a    *)
(* comma: those are split by any save that finds them so (parseTags).       *)
THEOREM SavesChangeOnlyTouched == LibrarySpec => SavesOnlyTouched
<1> DEFINE OnlyTouched ==
      \A s \in saves \ saves' : \A p \in Kept, f \in Fields :
        stored'[p][f] # stored[p][f] =>
          /\ p = s.prompt /\ stored'[p][f] = s.row[f]
          /\ f \in s.touched \/ Resplit(s, f)
<1>1. PagesInv /\ [LibraryNext]_libraryVars => [OnlyTouched]_libraryVars
  <2> SUFFICES ASSUME PagesInv, LibraryNext PROVE OnlyTouched
    BY SMTT(60)
  <2>1. stored' = stored \/ saves' = saves \/ \E s \in saves : ServeSave(s)
    BY DEF LibraryNext, OpenLibrary, Retry, Submit, Edit, ToggleFavorite, ServeFetch, GotFetch,
       ServeStar, GotStar, SaveText, Saved, NotSaved, Change, Revert, WriteElsewhere, Begin, under
  <2>2. CASE \E s \in saves : ServeSave(s)
    <3>1. PICK s \in saves : ServeSave(s)
      BY <2>2
    <3>2. saves \ saves' \subseteq {s}
      BY <3>1, SaveWrites DEF Answers
    <3>3. /\ Written(s) \subseteq s.fields
          /\ \A f \in s.fields : f \in s.touched \/ Resplit(s, f)
      BY DEF PagesInv, FormIsTouched, Written, Metadata
    <3>4. \A p \in Kept, f \in Fields : stored'[p][f] # stored[p][f] =>
            p = s.prompt /\ f \in Written(s) /\ stored'[p][f] = s.row[f]
      BY <3>1, SaveWrites
    <3> QED
      BY <3>2, <3>3, <3>4
  <2> QED
    BY <2>1, <2>2
<1> QED
  BY <1>1, PagesStay, PTL DEF LibrarySpec, SavesOnlyTouched

-----------------------------------------------------------------------------
(***************************************************************************)
(* The page of advanced tools                                              *)
(***************************************************************************)

Lists == UNION {[ps -> SUBSET PageTags] : ps \in SUBSET PagePrompts}
NoAnswer == {Waiting, Failed}

LoadRecords == [token : Nat, answer : Lists \cup NoAnswer, since : SUBSET PagePrompts]
SearchRecords ==
  [request : Nat, filter : Filters, list : Lists, answer : Lists \cup NoAnswer]
JobRecords ==
  [op : {"tag", "delete", "import", "export"}, tag : PageTags \cup {NoFilter},
   todo : Seq(PagePrompts), done : SUBSET PagePrompts, list : Lists, mount : Nat,
   answer : {"ok"} \cup NoAnswer]

(* What is awaited is typed, and of the present or of an earlier effect or *)
(* mount, ...                                                              *)
Awaited ==
  /\ loads \subseteq LoadRecords /\ searches \subseteq SearchRecords /\ jobs \subseteq JobRecords
  /\ timer \in Seq(SearchRecords) /\ Len(timer) <= 1
  /\ token \in Nat /\ request \in Nat /\ mount \in Nat
  /\ \A l \in loads : l.token <= token
  /\ \A s \in searches \cup ToSet(timer) : s.request <= request
  /\ \A j \in jobs : j.mount <= mount

(* ... a prompt is given a tag as it was listed, an export changes none.   *)
JobsSound ==
  \A j \in jobs : /\ j.op = "tag" => j.tag \in PageTags /\ ToSet(j.todo) \subseteq DOMAIN j.list
                  /\ j.op = "export" => j.done = {}

PageTyped ==
  /\ PageTypeOK
  /\ prompts \in Lists /\ shown \in Lists
  /\ Awaited
  /\ JobsSound

(* A list shows the rows of a store as they are, but for those that others *)
(* changed since, and for those that a job of this mount has changed: it   *)
(* will load them again when it ends.                                      *)
Owed(p) == \E j \in jobs : j.mount = mount /\ p \in j.done
Excused(p, since) == p \in since \/ Owed(p)

Settled == ~loading /\ ~failed /\ "load" \notin due

ListTrue(list, since) ==
  \E ps \in Stores :
    /\ DOMAIN list \subseteq ps
    /\ \A p \in ps : ListsRow(list, ps, p) \/ Excused(p, since)

LoadsTrue ==
  "load" \notin due =>
    \A l \in loads : l.token = token /\ l.answer \notin NoAnswer => ListTrue(l.answer, l.since)

PromptsTrue == Settled => ListTrue(prompts, unseen)

(* What the present filter selects of the memory of a browser.             *)
Wanted(p) == IF Passes(filter, rows[p]) THEN rows[p] ELSE Absent

Found(list) ==
  /\ DOMAIN list \subseteq OfMemory
  /\ \A p \in OfMemory : RowOf(list, p) = Wanted(p) \/ Excused(p, unseen)

(* A search that counts is one for the present filter, over the present    *)
(* list.                                                                   *)
Counts(s) == s.request = request

SearchTrue(s) ==
  /\ s.filter = filter /\ filter # NoFilter
  /\ "search" \notin due => s.list = prompts
  /\ s.answer = Failed => ~inBrowser
  /\ s.answer \notin NoAnswer => inBrowser
  /\ Settled /\ "search" \notin due /\ s.answer \notin NoAnswer => Found(s.answer)

SearchesTrue == \A s \in searches \cup ToSet(timer) : Counts(s) => SearchTrue(s)

ShownTrue ==
  Settled /\ ~searching /\ "search" \notin due =>
    /\ filter = NoFilter => shown = prompts
    /\ filter # NoFilter /\ ~inBrowser => shown = OwnFilter(filter, prompts)
    /\ filter # NoFilter /\ inBrowser => Found(shown)

Ticked == due = {} => ToSet(selected) \subseteq DOMAIN shown

Truths == LoadsTrue /\ PromptsTrue /\ SearchesTrue /\ ShownTrue

Steady == PageTyped /\ Truths /\ Ticked

-----------------------------------------------------------------------------
(* Selections *)

(* Different places that are kept have different ranks, and there is one of *)
(* each rank.                                                              *)
LEMMA RanksAreIndices ==
  ASSUME NEW n \in Nat, NEW kept \in SUBSET (1..n)
  PROVE  /\ Cardinality(kept) \in Nat
         /\ \A i \in kept : Cardinality({j \in kept : j <= i}) \in 1..Cardinality(kept)
         /\ \A k \in 1..Cardinality(kept) :
              \E i \in kept : Cardinality({j \in kept : j <= i}) = k
         /\ \A i, j \in kept : Cardinality({x \in kept : x <= i}) = Cardinality({x \in kept : x <= j})
                                => i = j
<1> DEFINE upTo(i) == {j \in kept : j <= i}
           rank(i) == Cardinality(upTo(i))
           ranks == 1..Cardinality(kept)
<1>1. IsFiniteSet(kept) /\ Cardinality(kept) \in Nat
  <2>1. IsFiniteSet(1..n)
    BY FS_Interval
  <2>2. QED
    BY <2>1, FS_Subset, FS_CardinalityType
<1>2. ASSUME NEW i \in kept
      PROVE  IsFiniteSet(upTo(i)) /\ rank(i) \in ranks
  <2>1. IsFiniteSet(upTo(i)) /\ rank(i) <= Cardinality(kept)
    BY <1>1, FS_Subset
  <2>2. rank(i) \in Nat /\ rank(i) # 0
    <3>1. i \in upTo(i)
      OBVIOUS
    <3>2. QED
      BY <2>1, <3>1, FS_CardinalityType, FS_EmptySet
  <2>3. QED
    BY <1>1, <2>1, <2>2
<1>3. ASSUME NEW i \in kept, NEW j \in kept, i < j
      PROVE  rank(i) # rank(j)
  <2>1. i \in Nat /\ j \in Nat /\ \A x \in kept : x \in Nat
    OBVIOUS
  <2>2. upTo(i) \in SUBSET upTo(j)
    <3>1. \A x \in kept : x <= i => x <= j
      BY <1>3, <2>1
    <3>2. QED
      BY <3>1
  <2>3. j \in upTo(j) /\ j \notin upTo(i)
    BY <1>3, <2>1
  <2>4. QED
    BY <1>2, <2>2, <2>3, FS_Subset
<1>4. \A i, j \in kept : rank(i) = rank(j) => i = j
  BY <1>3
<1> DEFINE f == [i \in kept |-> rank(i)]
<1>5. f \in Injection(kept, ranks)
  BY <1>2, <1>4 DEF Injection, IsInjective
<1>6. IsFiniteSet(ranks) /\ Cardinality(ranks) = Cardinality(kept)
  BY <1>1, FS_Interval
<1>7. f \in Surjection(kept, ranks)
  BY <1>1, <1>5, <1>6, FS_Injection
<1>8. \A k \in ranks : \E i \in kept : rank(i) = k
  BY <1>7 DEF Surjection
<1>9. QED
  BY <1>1, <1>2, <1>4, <1>8

LEMMA AmongIs ==
  ASSUME NEW S, NEW s \in Seq(S), NEW ps
  PROVE  /\ Among(s, ps) \in Seq(S)
         /\ ToSet(Among(s, ps)) = ToSet(s) \cap ps
<1> DEFINE kept == {i \in DOMAIN s : s[i] \in ps}
           rank(i) == Cardinality({j \in kept : j <= i})
           Nth(k) == CHOOSE i \in kept : rank(i) = k
           n == Cardinality(kept)
           w == [k \in 1..n |-> s[Nth(k)]]
<1>1. DOMAIN s = 1..Len(s) /\ Len(s) \in Nat
  OBVIOUS
<1>2. kept \in SUBSET (1..Len(s))
  BY <1>1
<1>3. /\ n \in Nat
      /\ \A i \in kept : rank(i) \in 1..n
      /\ \A k \in 1..n : \E i \in kept : rank(i) = k
      /\ \A i, j \in kept : rank(i) = rank(j) => i = j
  <2> HIDE DEF kept
  <2>1. QED
    BY <1>1, <1>2, RanksAreIndices
<1>4. Among(s, ps) = w
  BY DEF Among
<1> HIDE DEF n
<1>5. \A k \in 1..n : Nth(k) \in kept /\ rank(Nth(k)) = k
  <2> HIDE DEF rank, kept
  <2>1. QED
    BY <1>3
<1>6. \A i \in kept : Nth(rank(i)) = i
  <2> HIDE DEF rank, kept, Nth
  <2>1. QED
    BY <1>3, <1>5
<1> HIDE DEF rank, Nth
<1>7. \A i \in kept : i \in 1..Len(s) /\ s[i] \in S /\ s[i] \in ToSet(s) /\ s[i] \in ps
  BY <1>1 DEF ToSet
<1>8. \A p \in ToSet(s) : p \in ps => \E i \in kept : s[i] = p
  BY DEF ToSet
<1> HIDE DEF kept
<1>9. w \in Seq(S)
  <2>1. \A k \in 1..n : s[Nth(k)] \in S
    BY <1>5, <1>7
  <2>2. QED
    BY <1>3, <2>1
<1>10. DOMAIN w = 1..n /\ \A k \in 1..n : w[k] = s[Nth(k)]
  OBVIOUS
<1> HIDE DEF w
<1>11. ASSUME NEW p \in ToSet(w)
       PROVE  p \in ToSet(s) /\ p \in ps
  BY <1>5, <1>7, <1>10 DEF ToSet
<1>12. ASSUME NEW p \in ToSet(s), p \in ps
       PROVE  p \in ToSet(w)
  <2>1. PICK i \in kept : s[i] = p
    BY <1>8, <1>12
  <2>2. rank(i) \in 1..n /\ w[rank(i)] = p
    BY <1>3, <1>6, <1>10, <2>1
  <2>3. QED
    BY <1>10, <2>2 DEF ToSet
<1>13. QED
  BY <1>4, <1>9, <1>11, <1>12

-----------------------------------------------------------------------------
(* Lists of prompts *)

LEMMA NothingIsList == Nothing \in Lists /\ DOMAIN Nothing = {}
<1>1. DOMAIN Nothing = {} /\ Nothing \in [{} -> SUBSET PageTags]
  BY DEF Nothing
<1>2. QED
  BY <1>1 DEF Lists

LEMMA ListTyped ==
  ASSUME NEW list \in Lists
  PROVE  /\ DOMAIN list \subseteq PagePrompts
         /\ \A p \in DOMAIN list : list[p] \in SUBSET PageTags /\ list[p] # Absent
BY PageSentinels DEF Lists

LEMMA StoredIs ==
  ASSUME PageTyped, NEW ps \in SUBSET PagePrompts
  PROVE  /\ Stored(ps) \in Lists /\ DOMAIN Stored(ps) \subseteq ps
         /\ \A p \in ps : RowOf(Stored(ps), p) = rows[p]
<1> DEFINE qs == {q \in ps : rows[q] # Absent}
<1>1. rows \in [PagePrompts -> (SUBSET PageTags) \cup {Absent}]
  BY DEF PageTyped, PageTypeOK
<1>2. Stored(ps) \in [qs -> SUBSET PageTags] /\ qs \in SUBSET PagePrompts
  BY <1>1 DEF Stored
<1>3. Stored(ps) \in Lists
  BY <1>2 DEF Lists
<1>4. DOMAIN Stored(ps) = qs /\ \A p \in qs : Stored(ps)[p] = rows[p]
  BY DEF Stored
<1>5. QED
  BY <1>3, <1>4 DEF RowOf

LEMMA StoresAre ==
  /\ OnServer \in SUBSET PagePrompts /\ OfMemory \in SUBSET PagePrompts
  /\ Stores \subseteq SUBSET PagePrompts
BY PageAtFirst DEF Stores, OnServer

(* A page is a list, of rows that are stored, and all of them unless it is *)
(* full.                                                                   *)
LEMMA PagesAre ==
  ASSUME PageTyped, NEW list \in Pages(Stored(OnServer))
  PROVE  /\ list \in Lists /\ DOMAIN list \subseteq OnServer
         /\ \A p \in OnServer : ListsRow(list, OnServer, p)
<1> DEFINE all == Stored(OnServer)
<1>1. /\ all \in Lists /\ DOMAIN all \subseteq OnServer
      /\ \A p \in OnServer : RowOf(all, p) = rows[p]
  BY StoredIs, StoresAre
<1>2. DOMAIN all \subseteq PagePrompts /\ \A p \in DOMAIN all : all[p] \in SUBSET PageTags
  BY <1>1, ListTyped
<1> HIDE DEF all
<1>3. CASE list = all
  BY <1>1, <1>3 DEF ListsRow
<1>4. CASE list # all
  <2>1. PICK ps \in SUBSET DOMAIN all : /\ list = [p \in ps |-> all[p]]
                                       /\ inBrowser /\ Cardinality(ps) = ListCap
    BY <1>4 DEF Pages, all
  <2>2. DOMAIN list = ps /\ \A p \in ps : list[p] = all[p]
    BY <2>1
  <2>3. list \in [ps -> SUBSET PageTags] /\ ps \in SUBSET PagePrompts
    BY <1>2, <2>1
  <2>4. list \in Lists
    BY <2>3 DEF Lists
  <2>5. Capped(list, OnServer)
    BY <2>1, <2>2 DEF Capped
  <2>6. ASSUME NEW p \in OnServer
        PROVE  ListsRow(list, OnServer, p)
    BY <1>1, <2>2, <2>5 DEF ListsRow, RowOf
  <2>7. QED
    BY <1>1, <2>2, <2>4, <2>6
<1>5. QED
  BY <1>3, <1>4

LEMMA MatchingIs ==
  ASSUME NEW f, NEW list \in Lists
  PROVE  /\ Matching(f, list) \in Lists /\ DOMAIN Matching(f, list) \subseteq DOMAIN list
         /\ \A p \in PagePrompts :
              RowOf(Matching(f, list), p) =
                IF Passes(f, RowOf(list, p)) THEN RowOf(list, p) ELSE Absent
<1> DEFINE ps == {q \in DOMAIN list : Passes(f, list[q])}
           m == [p \in ps |-> list[p]]
<1>1. DOMAIN list \subseteq PagePrompts /\ \A p \in DOMAIN list : list[p] \in SUBSET PageTags
  BY ListTyped
<1>2. Matching(f, list) = m
  BY DEF Matching
<1>3. m \in [ps -> SUBSET PageTags] /\ ps \in SUBSET PagePrompts
  BY <1>1
<1>4. m \in Lists
  BY <1>3 DEF Lists
<1>5. DOMAIN m = ps /\ \A p \in ps : m[p] = list[p]
  OBVIOUS
<1>6. ~Passes(f, Absent)
  BY DEF Passes
<1>7. \A p \in ps : p \in DOMAIN list /\ Passes(f, list[p])
  OBVIOUS
<1>8. \A p \in DOMAIN list \ ps : ~Passes(f, list[p])
  OBVIOUS
<1> HIDE DEF m, ps
<1>9. QED
  BY <1>2, <1>4, <1>5, <1>6, <1>7, <1>8 DEF RowOf

LEMMA OwnFilterTyped ==
  ASSUME NEW f, NEW list \in Lists
  PROVE  OwnFilter(f, list) \in Lists
BY NothingIsList, MatchingIs DEF OwnFilter

-----------------------------------------------------------------------------
(* What is in flight stays typed *)

LEMMA ListServed ==
  ASSUME PageTyped, NEW l \in loads, ServeList(l)
  PROVE  \E answer \in Lists \cup NoAnswer, n \in LoadRecords :
           /\ loads' = (loads \ {l}) \cup {n}
           /\ n.token = l.token /\ n.answer = answer
           /\ answer \notin NoAnswer => ListTrue(answer, n.since)
<1>1. l \in LoadRecords
  BY DEF PageTyped, Awaited
<1>2. PICK answer \in Pages(Stored(OnServer)) \cup {IF inBrowser THEN Stored(OfMemory) ELSE Failed} :
        loads' = (loads \ {l}) \cup {[l EXCEPT !.answer = answer, !.since = {}]}
  BY Zenon DEF ServeList
<1>3. answer \in Lists \cup NoAnswer
  <2>1. Stored(OfMemory) \in Lists
    BY StoredIs, StoresAre
  <2>2. QED
    BY <1>2, <2>1, PagesAre DEF NoAnswer
<1>4. answer \notin NoAnswer => \A since : ListTrue(answer, since)
  <2>1. CASE answer \in Pages(Stored(OnServer))
    BY <2>1, PagesAre DEF ListTrue, Stores
  <2>2. CASE inBrowser /\ answer = Stored(OfMemory)
    <3>1. /\ DOMAIN answer \subseteq OfMemory
          /\ \A p \in OfMemory : ListsRow(answer, OfMemory, p)
      BY <2>2, StoredIs, StoresAre DEF ListsRow
    <3>2. OfMemory \in Stores
      BY <2>2 DEF Stores
    <3>3. QED
      BY <3>1, <3>2 DEF ListTrue
  <2>3. QED
    BY <1>2, <2>1, <2>2 DEF NoAnswer
<1> DEFINE n == [l EXCEPT !.answer = answer, !.since = {}]
<1>5. n \in LoadRecords /\ n.token = l.token /\ n.answer = answer
  BY <1>1, <1>3 DEF LoadRecords
<1>6. loads' = (loads \ {l}) \cup {n}
  BY <1>2
<1> HIDE DEF n
<1>7. QED
  BY <1>3, <1>4, <1>5, <1>6

LEMMA SearchEffectTyped ==
  ASSUME PageTyped, NEW f \in Filters, SearchEffect(f)
  PROVE  /\ request' = request + 1 /\ request' \in Nat
         /\ shown' \in Lists
         /\ timer' \in Seq(SearchRecords) /\ Len(timer') <= 1
         /\ \A s \in ToSet(timer') :
              s = [request |-> request', filter |-> f, list |-> prompts, answer |-> Waiting]
         /\ f = NoFilter => ToSet(timer') = {}
<1>1. request \in Nat /\ prompts \in Lists /\ shown \in Lists
  BY DEF PageTyped, Awaited
<1>2. CASE f = NoFilter
  <2>1. request' = request + 1 /\ timer' = << >> /\ shown' = prompts
    BY <1>2 DEF SearchEffect
  <2>2. ToSet(timer') = {}
    BY <2>1 DEF ToSet
  <2>3. QED
    BY <1>1, <2>1, <2>2
<1>3. CASE f # NoFilter
  <2> DEFINE s0 == [request |-> request', filter |-> f, list |-> prompts, answer |-> Waiting]
  <2>1. request' = request + 1 /\ timer' = <<s0>> /\ shown' = shown
    BY <1>3 DEF SearchEffect
  <2>2. s0 \in SearchRecords
    BY <1>1, <2>1 DEF SearchRecords, NoAnswer
  <2> HIDE DEF s0
  <2>3. ToSet(timer') = {s0}
    BY <2>1 DEF ToSet
  <2>4. QED
    BY <1>1, <1>3, <2>1, <2>2, <2>3 DEF s0
<1>4. QED
  BY <1>2, <1>3

LEMMA UnseenTyped ==
  ASSUME PageTyped, NEW ps \in SUBSET PagePrompts, Unseen(ps)
  PROVE  /\ loads' \subseteq LoadRecords
         /\ unseen' = unseen \cup ps /\ unseen' \in SUBSET PagePrompts
         /\ \A n \in loads' : \E l \in loads :
              n.token = l.token /\ n.answer = l.answer /\ n.since = l.since \cup ps
<1>1. loads \subseteq LoadRecords /\ unseen \subseteq PagePrompts
  BY DEF PageTyped, PageTypeOK, Awaited
<1>2. loads' = {[l EXCEPT !.since = l.since \cup ps] : l \in loads}
  BY DEF Unseen
<1>3. ASSUME NEW l \in LoadRecords
      PROVE  /\ [l EXCEPT !.since = l.since \cup ps] \in LoadRecords
             /\ [l EXCEPT !.since = l.since \cup ps].token = l.token
             /\ [l EXCEPT !.since = l.since \cup ps].answer = l.answer
             /\ [l EXCEPT !.since = l.since \cup ps].since = l.since \cup ps
  BY DEF LoadRecords
<1>4. unseen' = unseen \cup ps
  BY DEF Unseen
<1>5. QED
  BY ZenonT(60), <1>1, <1>2, <1>3, <1>4

-----------------------------------------------------------------------------
(* Every step keeps the types *)

LEMMA ServeListTyped ==
  ASSUME PageTyped, NEW l \in loads, ServeList(l), inBrowser' = inBrowser
  PROVE  PageTyped'
<1>1. PICK n \in LoadRecords : loads' = (loads \ {l}) \cup {n} /\ n.token = l.token
  BY ListServed
<1>2. UNCHANGED <<rows, mount, lists, filter, token, request, timer, due, searches, jobs, unseen>>
  BY DEF ServeList
<1>3. Awaited'
  BY <1>1, <1>2 DEF PageTyped, Awaited
<1>4. PageTypeOK' /\ JobsSound' /\ (prompts \in Lists /\ shown \in Lists)'
  BY <1>2 DEF PageTyped, PageTypeOK, JobsSound, lists
<1>5. QED
  BY <1>3, <1>4 DEF PageTyped

LEMMA GotListTyped ==
  ASSUME PageTyped, NEW l \in loads, GotList(l), inBrowser' = inBrowser
  PROVE  PageTyped'
<1>1. l \in LoadRecords /\ l.answer # Waiting
  BY DEF PageTyped, Awaited, GotList
<1>2. loads' = loads \ {l}
  BY DEF GotList
<1>3. UNCHANGED <<rows, mount, filter, token, request, timer, searches, jobs>>
  BY DEF GotList
<1>4. Awaited' /\ JobsSound'
  BY <1>2, <1>3 DEF PageTyped, Awaited, JobsSound
<1>5. CASE UNCHANGED <<lists, due, unseen>>
  BY <1>3, <1>4, <1>5 DEF PageTyped, PageTypeOK, lists
<1>6. CASE ~UNCHANGED <<lists, due, unseen>>
  <2>1. /\ prompts' = l.answer /\ shown' = l.answer /\ selected' = << >>
        /\ due' = due \cup {"search", "prune"} /\ unseen' = l.since /\ l.answer # Failed
    BY <1>6 DEF GotList
  <2>2. l.answer \in Lists /\ l.since \subseteq PagePrompts
    BY <1>1, <2>1 DEF LoadRecords, NoAnswer
  <2>3. DOMAIN l.answer \subseteq PagePrompts
    BY <2>2, ListTyped
  <2>4. QED
    BY <1>3, <1>4, <2>1, <2>2, <2>3 DEF PageTyped, PageTypeOK
<1>7. QED
  BY <1>5, <1>6

LEMMA TypeFilterTyped ==
  ASSUME PageTyped, NEW f \in Filters, TypeFilter(f), inBrowser' = inBrowser
  PROVE  PageTyped'
<1>1. SearchEffect(f) /\ filter' = f /\ due' = {"prune"}
  BY DEF TypeFilter
<1>2. UNCHANGED <<rows, mount, prompts, selected, token, loads, searches, jobs, unseen>>
  BY DEF TypeFilter, calls
<1>3. /\ request' = request + 1 /\ request' \in Nat /\ shown' \in Lists
      /\ timer' \in Seq(SearchRecords) /\ Len(timer') <= 1
      /\ \A s \in ToSet(timer') : s.request = request'
  BY <1>1, SearchEffectTyped
<1>4. Awaited'
  BY <1>2, <1>3 DEF PageTyped, Awaited, SearchRecords
<1>5. DOMAIN shown' \subseteq PagePrompts
  BY <1>3, ListTyped
<1>6. QED
  BY <1>1, <1>2, <1>3, <1>4, <1>5 DEF PageTyped, PageTypeOK, JobsSound

LEMMA TimerFiresTyped ==
  ASSUME PageTyped, TimerFires, inBrowser' = inBrowser
  PROVE  PageTyped' /\ searches' \cup ToSet(timer') = searches \cup ToSet(timer)
<1>1. timer # << >> /\ searches' = searches \cup {timer[1]} /\ timer' = << >>
  BY DEF TimerFires
<1>2. timer \in Seq(SearchRecords) /\ Len(timer) <= 1
  BY DEF PageTyped, Awaited
<1>3. Len(timer) = 1 /\ timer[1] \in SearchRecords
  <2>1. Len(timer) \in Nat /\ Len(timer) # 0
    BY <1>1, <1>2, EmptySeq
  <2>2. \A n \in Nat : n # 0 /\ n <= 1 => n = 1
    OBVIOUS
  <2>3. Len(timer) = 1
    BY <1>2, <2>1, <2>2, Zenon
  <2>4. QED
    BY <1>2, <2>3, ElementOfSeq
<1>4. ToSet(timer) = {timer[1]} /\ ToSet(timer') = {}
  BY <1>1, <1>2, <1>3 DEF ToSet
<1>5. UNCHANGED <<rows, mount, lists, filter, token, request, due, loads, jobs, unseen>>
  BY DEF TimerFires
<1>6. Awaited'
  BY <1>1, <1>3, <1>4, <1>5 DEF PageTyped, Awaited
<1>7. QED
  BY <1>1, <1>4, <1>5, <1>6 DEF PageTyped, PageTypeOK, JobsSound, lists

LEMMA ServeSearchTyped ==
  ASSUME PageTyped, NEW s \in searches, ServeSearch(s), inBrowser' = inBrowser
  PROVE  PageTyped'
<1>1. s \in SearchRecords
  BY DEF PageTyped, Awaited
<1>2. Matching(s.filter, Stored(OfMemory)) \in Lists
  BY StoredIs, StoresAre, MatchingIs
<1>3. PICK answer \in {Matching(s.filter, Stored(OfMemory)), Failed} :
        searches' = (searches \ {s}) \cup {[s EXCEPT !.answer = answer]}
  BY DEF ServeSearch
<1>4. /\ [s EXCEPT !.answer = answer] \in SearchRecords
      /\ [s EXCEPT !.answer = answer].request = s.request
  BY <1>1, <1>2, <1>3 DEF SearchRecords, NoAnswer
<1>5. UNCHANGED <<rows, mount, lists, filter, token, request, timer, due, loads, jobs, unseen>>
  BY DEF ServeSearch
<1>6. Awaited'
  BY <1>3, <1>4, <1>5 DEF PageTyped, Awaited
<1>7. QED
  BY <1>5, <1>6 DEF PageTyped, PageTypeOK, JobsSound, lists

LEMMA FallbackTyped ==
  ASSUME NEW s \in SearchRecords
  PROVE  Fallback(s) \in Lists
<1>1. s.list \in Lists
  BY DEF SearchRecords
<1>2. QED
  BY <1>1, OwnFilterTyped DEF Fallback

LEMMA GotSearchTyped ==
  ASSUME PageTyped, NEW s \in searches, GotSearch(s), inBrowser' = inBrowser
  PROVE  PageTyped'
<1>1. s \in SearchRecords /\ s.answer # Waiting
  BY DEF PageTyped, Awaited, GotSearch
<1>2. shown' \in {shown, Fallback(s)} \/ (s.answer # Failed /\ shown' = s.answer)
  BY DEF GotSearch
<1>3. shown' \in Lists
  BY <1>1, <1>2, FallbackTyped DEF PageTyped, SearchRecords, NoAnswer
<1>4. DOMAIN shown' \subseteq PagePrompts
  BY <1>3, ListTyped
<1>5. searches' = searches \ {s} /\ due' \in {due, due \cup {"prune"}}
  BY DEF GotSearch
<1>6. UNCHANGED <<rows, mount, prompts, selected, filter, token, request, timer, loads, jobs, unseen>>
  BY DEF GotSearch
<1>7. Awaited'
  BY <1>5, <1>6 DEF PageTyped, Awaited
<1>8. QED
  BY <1>3, <1>4, <1>5, <1>6, <1>7 DEF PageTyped, PageTypeOK, JobsSound

LEMMA EffectsTyped ==
  ASSUME PageTyped, Effects, inBrowser' = inBrowser
  PROVE  PageTyped'
<1>1. /\ due' = {} /\ selected' = Among(selected, DOMAIN shown')
      /\ UNCHANGED <<rows, mount, prompts, filter, searches, jobs, unseen>>
  BY DEF Effects
<1>2. \/ token' = token + 1 /\ loads' = loads \cup {Load(token + 1)}
      \/ UNCHANGED <<token, loads>>
  BY DEF Effects
<1>3. /\ token' \in Nat /\ loads' \subseteq LoadRecords
      /\ \A l \in loads' : l.token <= token'
  BY <1>2 DEF PageTyped, Awaited, Load, LoadRecords, NoAnswer
<1>4. /\ request' \in Nat /\ request <= request' /\ shown' \in Lists
      /\ timer' \in Seq(SearchRecords) /\ Len(timer') <= 1
      /\ \A s \in ToSet(timer') : s.request <= request'
  <2>1. CASE SearchEffect(filter)
    <3>1. filter \in Filters /\ request \in Nat
      BY DEF PageTyped, PageTypeOK, Awaited
    <3>2. QED
      BY <2>1, <3>1, SearchEffectTyped
  <2>2. CASE UNCHANGED <<request, shown, searching, timer>>
    BY <2>2 DEF PageTyped, Awaited
  <2>3. QED
    BY <2>1, <2>2 DEF Effects
<1>5. Awaited'
  <2>1. \A s \in searches : s.request <= request'
    BY <1>4 DEF PageTyped, Awaited, SearchRecords
  <2>2. QED
    BY <1>1, <1>3, <1>4, <2>1 DEF PageTyped, Awaited
<1>6. selected' \in Seq(PagePrompts)
  BY <1>1, AmongIs DEF PageTyped, PageTypeOK
<1>7. DOMAIN shown' \subseteq PagePrompts
  BY <1>4, ListTyped
<1>8. PageTypeOK' /\ JobsSound' /\ (prompts \in Lists)'
  BY <1>1, <1>4, <1>6, <1>7 DEF PageTyped, PageTypeOK, JobsSound
<1>9. QED
  BY <1>4, <1>5, <1>8 DEF PageTyped

LEMMA RemountTyped ==
  ASSUME PageTyped, Remount, inBrowser' = inBrowser
  PROVE  PageTyped'
<1>1. /\ prompts' = Nothing /\ shown' = Nothing /\ selected' = << >> /\ filter' = NoFilter
      /\ timer' = << >> /\ due' = {}
      /\ token' = token + 1 /\ request' = request + 1 /\ mount' = mount + 1
      /\ loads' = loads \cup {Load(token + 1)}
      /\ UNCHANGED <<rows, searches, jobs, unseen>>
  BY DEF Remount
<1>2. ToSet(timer') = {} /\ timer' \in Seq(SearchRecords) /\ Len(timer') = 0
  BY <1>1 DEF ToSet
<1>3. Load(token + 1) \in LoadRecords /\ Load(token + 1).token = token + 1
  BY DEF PageTyped, Awaited, Load, LoadRecords, NoAnswer
<1>4. /\ token' \in Nat /\ request' \in Nat /\ mount' \in Nat
      /\ \A l \in loads' : l.token <= token'
      /\ \A s \in searches : s.request <= request'
      /\ \A j \in jobs : j.mount <= mount'
  BY <1>1, <1>3 DEF PageTyped, Awaited, SearchRecords, JobRecords, LoadRecords
<1>5. Awaited'
  BY <1>1, <1>2, <1>3, <1>4 DEF PageTyped, Awaited
<1>6. PageTypeOK' /\ JobsSound' /\ (prompts \in Lists /\ shown \in Lists)'
  BY <1>1, <1>2, NothingIsList DEF PageTyped, PageTypeOK, JobsSound, Filters
<1>7. QED
  BY <1>5, <1>6 DEF PageTyped

(* All prompts of the list, once each. *)
LEMMA SetToSeqTyped ==
  ASSUME NEW ps \in SUBSET PagePrompts
  PROVE  SetToSeq(ps) \in Seq(PagePrompts) /\ ToSet(SetToSeq(ps)) \subseteq ps
<1>1. IsFiniteSet(ps) /\ Cardinality(ps) \in Nat
  BY PageAtFirst, FS_Subset, FS_CardinalityType
<1>2. IsFiniteSet(1..Cardinality(ps)) /\ Cardinality(1..Cardinality(ps)) = Cardinality(ps)
  BY <1>1, FS_Interval
<1>3. ExistsBijection(1..Cardinality(ps), ps)
  BY <1>1, <1>2, FS_SameCardinalityBij
<1>4. PICK f \in [1..Cardinality(ps) -> ps] : IsInjective(f)
  BY <1>3 DEF ExistsBijection, Bijection, Injection
<1>5. SetToSeq(ps) \in [1..Cardinality(ps) -> ps]
  BY <1>4 DEF SetToSeq
<1>6. QED
  BY <1>1, <1>5 DEF ToSet

LEMMA SelectTyped ==
  ASSUME PageTyped, NEW s \in Seq(PagePrompts), Select(s), inBrowser' = inBrowser
  PROVE  PageTyped'
<1>1. /\ selected' = s
      /\ UNCHANGED <<rows, mount, prompts, shown, filter, token, request, timer, due, loads,
                     searches, jobs, unseen>>
  BY DEF Select, calls
<1>2. Awaited'
  BY <1>1 DEF PageTyped, Awaited
<1>3. QED
  BY <1>1, <1>2 DEF PageTyped, PageTypeOK, JobsSound

(* What is ticked is shown. *)
LEMMA SelectionIs ==
  ASSUME PageTyped, Ticked,
         SelectAllVisible \/ \E p \in PagePrompts : ToggleSelected(p)
  PROVE  \E s \in Seq(PagePrompts) : Select(s) /\ ToSet(s) \subseteq DOMAIN shown
<1>1. /\ selected \in Seq(PagePrompts) /\ DOMAIN shown \subseteq PagePrompts
      /\ ToSet(selected) \subseteq DOMAIN shown
  BY DEF PageTyped, PageTypeOK, Ticked, SelectAllVisible, ToggleSelected, Usable
<1>2. << >> \in Seq(PagePrompts) /\ ToSet(<< >>) = {}
  BY DEF ToSet
<1>3. CASE SelectAllVisible
  <2>1. Select(<< >>) \/ Select(SetToSeq(DOMAIN shown))
    BY <1>3 DEF SelectAllVisible
  <2>2. QED
    BY <1>1, <1>2, <2>1, SetToSeqTyped
<1>4. CASE \E p \in PagePrompts : ToggleSelected(p)
  <2>1. PICK p \in PagePrompts : ToggleSelected(p)
    BY <1>4
  <2>2. p \in DOMAIN shown
    BY <2>1 DEF ToggleSelected
  <2>3. CASE p \in ToSet(selected)
    <3>1. Select(Among(selected, PagePrompts \ {p}))
      BY <2>1, <2>3 DEF ToggleSelected
    <3>2. QED
      BY <1>1, <3>1, AmongIs
  <2>4. CASE p \notin ToSet(selected)
    <3>1. Select(Append(selected, p))
      BY <2>1, <2>4 DEF ToggleSelected
    <3>2. Append(selected, p) \in Seq(PagePrompts) /\ ToSet(Append(selected, p)) = ToSet(selected) \cup {p}
      <4>1. /\ Append(selected, p) \in Seq(PagePrompts) /\ Len(selected) \in Nat
            /\ Len(Append(selected, p)) = Len(selected) + 1
            /\ \A i \in 1..Len(selected) : Append(selected, p)[i] = selected[i]
            /\ Append(selected, p)[Len(selected) + 1] = p
            /\ DOMAIN Append(selected, p) = 1..(Len(selected) + 1)
            /\ DOMAIN selected = 1..Len(selected)
        BY <1>1, AppendProperties
      <4>2. QED
        BY <4>1 DEF ToSet
    <3>3. QED
      BY <1>1, <2>2, <3>1, <3>2
  <2>5. QED
    BY <2>3, <2>4
<1>5. QED
  BY <1>3, <1>4

LEMMA StartJobTyped ==
  ASSUME PageTyped, NEW j \in JobRecords, StartJob(j), j.mount = mount,
         j.op = "tag" => j.tag \in PageTags /\ ToSet(j.todo) \subseteq DOMAIN j.list,
         j.done = {}, inBrowser' = inBrowser
  PROVE  PageTyped'
<1>1. /\ jobs' = jobs \cup {j}
      /\ UNCHANGED <<rows, mount, lists, filter, token, request, timer, due, loads, searches, unseen>>
  BY DEF StartJob
<1>2. Awaited'
  BY <1>1 DEF PageTyped, Awaited, JobRecords
<1>3. JobsSound'
  BY <1>1 DEF PageTyped, JobsSound
<1>4. QED
  BY <1>1, <1>2, <1>3 DEF PageTyped, PageTypeOK, lists

(* The jobs that the page begins. *)
LEMMA JobsBegun ==
  ASSUME PageTyped, Ticked,
         BulkDelete \/ (\E tag \in PageTags : BulkTag(tag)) \/ (\E op \in {"import", "export"} : Bundle(op))
  PROVE  \E j \in JobRecords :
           /\ StartJob(j) /\ j.mount = mount /\ j.done = {}
           /\ j.op = "tag" => j.tag \in PageTags /\ ToSet(j.todo) \subseteq DOMAIN j.list
<1>1. mount \in Nat /\ prompts \in Lists /\ selected \in Seq(PagePrompts)
  BY DEF PageTyped, PageTypeOK, Awaited
<1>2. ASSUME NEW op \in {"tag", "delete", "import", "export"},
             NEW tag \in PageTags \cup {NoFilter}, NEW todo \in Seq(PagePrompts)
      PROVE  /\ BulkJob(op, tag, todo) \in JobRecords
             /\ BulkJob(op, tag, todo).op = op /\ BulkJob(op, tag, todo).tag = tag
             /\ BulkJob(op, tag, todo).todo = todo /\ BulkJob(op, tag, todo).list = prompts
             /\ BulkJob(op, tag, todo).mount = mount /\ BulkJob(op, tag, todo).done = {}
  BY SMTT(60), <1>1, <1>2 DEF BulkJob, JobRecords, NoAnswer
<1>3. CASE BulkDelete
  <2> DEFINE j == BulkJob("delete", NoFilter, selected)
  <2>1. StartJob(j)
    BY <1>3 DEF BulkDelete
  <2>2. j \in JobRecords /\ j.mount = mount /\ j.done = {} /\ j.op = "delete"
    <3>1. \A todo \in Seq(PagePrompts) :
            LET job == BulkJob("delete", NoFilter, todo)
            IN job \in JobRecords /\ job.mount = mount /\ job.done = {} /\ job.op = "delete"
      BY SMTT(60), <1>2
    <3>2. QED
      BY <1>1, <3>1
  <2> HIDE DEF j
  <2>3. j.op # "tag"
    BY <2>2
  <2>4. QED
    BY <2>1, <2>2, <2>3
<1>4. CASE \E tag \in PageTags : BulkTag(tag)
  <2>1. PICK tag \in PageTags : BulkTag(tag)
    BY <1>4
  <2>2. StartJob(BulkJob("tag", tag, Among(selected, DOMAIN prompts)))
    BY <2>1 DEF BulkTag
  <2>3. /\ Among(selected, DOMAIN prompts) \in Seq(PagePrompts)
        /\ ToSet(Among(selected, DOMAIN prompts)) \subseteq DOMAIN prompts
    BY <1>1, AmongIs
  <2>4. QED
    BY <1>2, <2>2, <2>3
<1>5. CASE \E op \in {"import", "export"} : Bundle(op)
  <2>1. << >> \in Seq(PagePrompts)
    OBVIOUS
  <2>2. PICK none \in Seq(PagePrompts) : none = << >>
    BY <2>1, Zenon
  <2>3. \/ StartJob(BulkJob("import", NoFilter, none))
        \/ StartJob(BulkJob("export", NoFilter, none))
    BY <1>5, <2>2 DEF Bundle
  <2>4. \E op \in {"import", "export"}, j \in JobRecords :
          StartJob(j) /\ j.mount = mount /\ j.done = {} /\ j.op = op
    BY <1>2, <2>3
  <2>5. PICK j \in JobRecords : StartJob(j) /\ j.mount = mount /\ j.done = {} /\ j.op \in {"import", "export"}
    BY <2>4
  <2>6. j.op # "tag"
    BY <2>5
  <2>7. QED
    BY <2>5, <2>6
<1>6. QED
  BY <1>3, <1>4, <1>5

LEMMA OutcomesTyped ==
  ASSUME PageTyped, NEW j \in jobs, Awaits(j), NEW r \in Outcomes(j)
  PROVE  /\ r \in [PagePrompts -> (SUBSET PageTags) \cup {Absent}]
         /\ j.op = "export" => r = rows
<1>1. rows \in [PagePrompts -> (SUBSET PageTags) \cup {Absent}]
  BY DEF PageTyped, PageTypeOK
<1>2. j \in JobRecords
  BY DEF PageTyped, Awaited
<1>3. j.op \in {"tag", "delete", "import", "export"}
  BY <1>2 DEF JobRecords
<1>4. CASE j.op = "import"
  <2>1. r = rows \/ \E p \in PagePrompts : r = [rows EXCEPT ![p] = {}]
    BY <1>4, StoresAre DEF Outcomes
  <2>2. QED
    BY <1>1, <1>4, <2>1
<1>5. CASE j.op = "export"
  BY <1>1, <1>5 DEF Outcomes
<1>6. CASE j.op \in {"tag", "delete"}
  <2> DEFINE p == j.todo[1]
  <2>1. j.todo \in Seq(PagePrompts) /\ j.todo # << >>
    BY <1>2, <1>6 DEF Awaits, JobRecords
  <2>2. p \in PagePrompts /\ p \in ToSet(j.todo)
    <3>1. Len(j.todo) \in Nat \ {0}
      BY <2>1, EmptySeq
    <3>2. 1 \in 1..Len(j.todo) /\ DOMAIN j.todo = 1..Len(j.todo)
      BY <2>1, <3>1
    <3>3. QED
      BY <2>1, <3>2, ElementOfSeq DEF ToSet
  <2>3. r = [rows EXCEPT ![p] = IF j.op = "tag" THEN j.list[p] \cup {j.tag} ELSE Absent]
    BY <1>6 DEF Outcomes
  <2>4. j.op = "tag" => j.list[p] \cup {j.tag} \in SUBSET PageTags
    <3>1. ASSUME j.op = "tag" PROVE j.tag \in PageTags /\ p \in DOMAIN j.list
      BY <3>1, <2>2 DEF PageTyped, JobsSound
    <3>2. j.list \in Lists
      BY <1>2 DEF JobRecords
    <3>3. QED
      BY <3>1, <3>2, ListTyped
  <2> HIDE DEF p
  <2>5. QED
    BY <1>1, <1>6, <2>2, <2>3, <2>4
<1>7. QED
  BY <1>3, <1>4, <1>5, <1>6

(* A job is replaced by what it has become, or ends. *)
LEMMA JobGoesOn ==
  ASSUME PageTyped, NEW j \in jobs, NEW n \in JobRecords,
         n.mount = j.mount, n.op = j.op, n.tag = j.tag, n.list = j.list,
         ToSet(n.todo) \subseteq ToSet(j.todo), n.op = "export" => n.done = {},
         jobs' = (jobs \ {j}) \cup {n}, UNCHANGED mount
  PROVE  /\ jobs' \subseteq JobRecords /\ (\A k \in jobs' : k.mount <= mount')
         /\ JobsSound'
<1>1. jobs' \subseteq JobRecords /\ \A k \in jobs' : k.mount <= mount'
  BY DEF PageTyped, Awaited
<1>2. JobsSound'
  BY DEF PageTyped, JobsSound
<1>3. QED
  BY <1>1, <1>2

LEMMA ServeJobIs ==
  ASSUME PageTyped, NEW j \in jobs, ServeJob(j), inBrowser' = inBrowser
  PROVE  /\ PageTyped'
         /\ \E ps \in SUBSET PagePrompts, n \in JobRecords :
              /\ unseen' = unseen \cup ps
              /\ \A m \in loads' : \E l \in loads :
                   m.token = l.token /\ m.answer = l.answer /\ l.since \cup ps \subseteq m.since
              /\ jobs' = (jobs \ {j}) \cup {n} /\ n.mount = j.mount
              /\ j.done \subseteq n.done
              /\ \A p \in PagePrompts : rows'[p] # rows[p] => p \in n.done
              /\ j.mount # mount => \A p \in PagePrompts : rows'[p] # rows[p] => p \in ps
<1>1. j \in JobRecords /\ rows \in [PagePrompts -> (SUBSET PageTags) \cup {Absent}]
  BY DEF PageTyped, PageTypeOK, Awaited
<1>2. UNCHANGED <<mount, lists, filter, token, request, timer, due, searches>>
  BY DEF ServeJob
<1>3. Changed \in SUBSET PagePrompts /\ \A p \in PagePrompts : rows'[p] # rows[p] => p \in Changed
  BY DEF Changed
<1>4. CASE /\ rows' \in Outcomes(j)
           /\ jobs' = (jobs \ {j}) \cup {[j EXCEPT !.answer = "ok", !.done = @ \cup Changed]}
           /\ Unseen(IF j.mount = mount THEN {} ELSE Changed)
  <2> DEFINE n == [j EXCEPT !.answer = "ok", !.done = j.done \cup Changed]
             ps == IF j.mount = mount THEN {} ELSE Changed
  <2>1. rows' \in [PagePrompts -> (SUBSET PageTags) \cup {Absent}] /\ (j.op = "export" => rows' = rows)
    BY <1>4, OutcomesTyped DEF ServeJob
  <2>2. /\ n \in JobRecords /\ n.mount = j.mount /\ n.op = j.op /\ n.tag = j.tag
        /\ n.list = j.list /\ n.todo = j.todo /\ n.done = j.done \cup Changed
    BY <1>1, <1>3 DEF JobRecords
  <2>3. jobs' = (jobs \ {j}) \cup {n}
    BY <1>4
  <2>4. n.op = "export" => n.done = {}
    <3>1. j.op = "export" => j.done = {} /\ Changed = {}
      BY <2>1 DEF PageTyped, JobsSound, Changed
    <3>2. QED
      BY <2>2, <3>1
  <2> HIDE DEF n
  <2>5. /\ jobs' \subseteq JobRecords /\ (\A k \in jobs' : k.mount <= mount')
        /\ JobsSound'
    BY <1>2, <2>2, <2>3, <2>4, JobGoesOn
  <2>6. ps \in SUBSET PagePrompts /\ Unseen(ps)
    BY <1>3, <1>4
  <2>7. j.mount # mount => ps = Changed
    OBVIOUS
  <2> HIDE DEF ps
  <2>8. /\ loads' \subseteq LoadRecords /\ unseen' = unseen \cup ps /\ unseen' \in SUBSET PagePrompts
        /\ \A m \in loads' : \E l \in loads :
             m.token = l.token /\ m.answer = l.answer /\ m.since = l.since \cup ps
    BY <2>6, UnseenTyped
  <2>9. Awaited'
    <3>1. \A m \in loads' : m.token <= token
      BY <2>8 DEF PageTyped, Awaited
    <3>2. QED
      BY <1>2, <2>5, <2>8, <3>1 DEF PageTyped, Awaited
  <2>10. PageTyped'
    BY <1>2, <2>1, <2>5, <2>8, <2>9 DEF PageTyped, PageTypeOK, lists
  <2>11. QED
    BY <1>3, <2>2, <2>3, <2>6, <2>7, <2>8, <2>10
<1>5. CASE /\ jobs' = (jobs \ {j}) \cup {[j EXCEPT !.answer = Failed]}
           /\ UNCHANGED <<rows, loads, unseen>>
  <2> DEFINE n == [j EXCEPT !.answer = Failed]
  <2>1. /\ n \in JobRecords /\ n.mount = j.mount /\ n.op = j.op /\ n.tag = j.tag
        /\ n.list = j.list /\ n.todo = j.todo /\ n.done = j.done
    BY <1>1 DEF JobRecords, NoAnswer
  <2>2. jobs' = (jobs \ {j}) \cup {n} /\ (n.op = "export" => n.done = {})
    BY <1>5, <2>1 DEF PageTyped, JobsSound
  <2> HIDE DEF n
  <2>3. /\ jobs' \subseteq JobRecords /\ (\A k \in jobs' : k.mount <= mount')
        /\ JobsSound'
    BY <1>2, <2>1, <2>2, JobGoesOn
  <2>4. PageTyped'
    BY <1>2, <1>5, <2>3 DEF PageTyped, PageTypeOK, Awaited, lists
  <2>5. /\ unseen' = unseen \cup {}
        /\ \A m \in loads' : \E l \in loads :
             m.token = l.token /\ m.answer = l.answer /\ l.since \cup {} \subseteq m.since
    BY <1>5
  <2>6. /\ {} \in SUBSET PagePrompts /\ j.done \subseteq n.done
        /\ \A p \in PagePrompts : rows'[p] # rows[p] => p \in n.done
        /\ j.mount # mount => \A p \in PagePrompts : rows'[p] # rows[p] => p \in {}
    BY <1>5, <2>1
  <2>7. \E ps \in SUBSET PagePrompts, m \in JobRecords :
          /\ unseen' = unseen \cup ps
          /\ \A k \in loads' : \E l \in loads :
               k.token = l.token /\ k.answer = l.answer /\ l.since \cup ps \subseteq k.since
          /\ jobs' = (jobs \ {j}) \cup {m} /\ m.mount = j.mount
          /\ j.done \subseteq m.done
          /\ \A p \in PagePrompts : rows'[p] # rows[p] => p \in m.done
          /\ j.mount # mount => \A p \in PagePrompts : rows'[p] # rows[p] => p \in ps
    <3> n \in JobRecords
      BY <2>1
    <3> WITNESS {} \in SUBSET PagePrompts, n \in JobRecords
    <3>1. QED
      BY <2>1, <2>2, <2>5, <2>6
  <2>8. QED
    BY <2>4, <2>7
<1>6. QED
  BY <1>4, <1>5 DEF ServeJob

LEMMA NextPromptTyped ==
  ASSUME PageTyped, NEW j \in jobs, NextPrompt(j), inBrowser' = inBrowser
  PROVE  /\ PageTyped'
         /\ \E n \in JobRecords :
              jobs' = (jobs \ {j}) \cup {n} /\ n.mount = j.mount /\ n.done = j.done
<1> DEFINE n == [j EXCEPT !.answer = Waiting, !.todo = Tail(j.todo)]
<1>1. j \in JobRecords /\ jobs' = (jobs \ {j}) \cup {n}
  BY DEF PageTyped, Awaited, NextPrompt
<1>2. UNCHANGED <<rows, mount, lists, filter, token, request, timer, due, loads, searches, unseen>>
  BY DEF NextPrompt
<1>3. Tail(j.todo) \in Seq(PagePrompts) /\ ToSet(Tail(j.todo)) \subseteq ToSet(j.todo)
  <2>1. j.todo \in Seq(PagePrompts) /\ Len(j.todo) > 1
    BY <1>1 DEF JobRecords, NextPrompt
  <2>2. /\ Tail(j.todo) \in Seq(PagePrompts) /\ Len(Tail(j.todo)) = Len(j.todo) - 1
        /\ \A i \in 1..Len(Tail(j.todo)) : Tail(j.todo)[i] = j.todo[i + 1]
    BY <2>1
  <2>3. /\ DOMAIN Tail(j.todo) = 1..Len(Tail(j.todo)) /\ DOMAIN j.todo = 1..Len(j.todo)
        /\ Len(j.todo) \in Nat
    BY <2>1, <2>2
  <2>4. \A i \in DOMAIN Tail(j.todo) : i + 1 \in DOMAIN j.todo
    BY <2>2, <2>3
  <2>5. QED
    BY <2>2, <2>3, <2>4 DEF ToSet
<1>4. /\ n \in JobRecords /\ n.mount = j.mount /\ n.op = j.op /\ n.tag = j.tag
      /\ n.list = j.list /\ n.todo = Tail(j.todo) /\ n.done = j.done
  BY <1>1, <1>3 DEF JobRecords, NoAnswer
<1> HIDE DEF n
<1>5. n.op = "export" => n.done = {}
  BY <1>4 DEF PageTyped, JobsSound
<1>6. /\ jobs' \subseteq JobRecords /\ (\A k \in jobs' : k.mount <= mount')
      /\ JobsSound'
  BY <1>1, <1>2, <1>3, <1>4, <1>5, JobGoesOn
<1>7. PageTyped'
  BY <1>2, <1>6 DEF PageTyped, PageTypeOK, Awaited, lists
<1>8. QED
  BY <1>1, <1>4, <1>7

LEMMA SucceedTyped ==
  ASSUME PageTyped, NEW j \in jobs, Succeed(j), inBrowser' = inBrowser
  PROVE  PageTyped'
<1>1. /\ jobs' = jobs \ {j} /\ selected' \in {selected, << >>} /\ due' \in {due, due \cup {"load"}}
      /\ UNCHANGED <<rows, mount, prompts, shown, filter, token, request, timer, loads, searches, unseen>>
  BY DEF Succeed
<1>2. selected' \in Seq(PagePrompts)
  BY <1>1, EmptySeq DEF PageTyped, PageTypeOK
<1>3. Awaited' /\ JobsSound'
  BY <1>1 DEF PageTyped, Awaited, JobsSound
<1>4. QED
  BY <1>1, <1>2, <1>3 DEF PageTyped, PageTypeOK

LEMMA FailIs ==
  ASSUME PageTyped, NEW j \in jobs, Fail(j), inBrowser' = inBrowser
  PROVE  /\ PageTyped'
         /\ \E ps \in SUBSET PagePrompts :
              /\ unseen' = unseen \cup ps
              /\ \A m \in loads' : \E l \in loads :
                   m.token = l.token /\ m.answer = l.answer /\ l.since \cup ps \subseteq m.since
              /\ j.mount = mount => ps = j.done
<1> DEFINE ps == IF j.mount = mount THEN j.done ELSE {}
<1>1. jobs' = jobs \ {j} /\ Unseen(ps)
  BY DEF Fail
<1>2. UNCHANGED <<rows, mount, lists, filter, token, request, timer, due, searches>>
  BY DEF Fail
<1>3. ps \in SUBSET PagePrompts /\ (j.mount = mount => ps = j.done)
  BY DEF PageTyped, Awaited, JobRecords
<1> HIDE DEF ps
<1>4. /\ loads' \subseteq LoadRecords /\ unseen' = unseen \cup ps /\ unseen' \in SUBSET PagePrompts
      /\ \A m \in loads' : \E l \in loads :
           m.token = l.token /\ m.answer = l.answer /\ m.since = l.since \cup ps
  BY <1>1, <1>3, UnseenTyped
<1>5. Awaited' /\ JobsSound'
  <2>1. \A m \in loads' : m.token <= token
    BY <1>4 DEF PageTyped, Awaited
  <2>2. QED
    BY <1>1, <1>2, <1>4, <2>1 DEF PageTyped, Awaited, JobsSound
<1>6. PageTyped'
  BY <1>2, <1>4, <1>5 DEF PageTyped, PageTypeOK, lists
<1>7. QED
  BY <1>3, <1>4, <1>6

LEMMA SomebodyElseIs ==
  ASSUME PageTyped, NEW p \in PagePrompts, NEW row \in (SUBSET PageTags) \cup {Absent},
         SomebodyElse(p, row), inBrowser' = inBrowser
  PROVE  /\ PageTyped'
         /\ unseen' = unseen \cup {p}
         /\ \A m \in loads' : \E l \in loads :
              m.token = l.token /\ m.answer = l.answer /\ l.since \cup {p} \subseteq m.since
         /\ \A q \in PagePrompts : rows'[q] # rows[q] => q = p
<1>1. rows' = [rows EXCEPT ![p] = row] /\ Unseen({p})
  BY DEF SomebodyElse
<1>2. UNCHANGED <<mount, lists, filter, token, request, timer, due, searches, jobs>>
  BY DEF SomebodyElse
<1>3. rows \in [PagePrompts -> (SUBSET PageTags) \cup {Absent}]
  BY DEF PageTyped, PageTypeOK
<1>4. /\ loads' \subseteq LoadRecords /\ unseen' = unseen \cup {p} /\ unseen' \in SUBSET PagePrompts
      /\ \A m \in loads' : \E l \in loads :
           m.token = l.token /\ m.answer = l.answer /\ m.since = l.since \cup {p}
  BY <1>1, UnseenTyped
<1>5. Awaited' /\ JobsSound'
  <2>1. \A m \in loads' : m.token <= token
    BY <1>4 DEF PageTyped, Awaited
  <2>2. QED
    BY <1>2, <1>4, <2>1 DEF PageTyped, Awaited, JobsSound
<1>6. PageTyped'
  BY <1>1, <1>2, <1>3, <1>4, <1>5 DEF PageTyped, PageTypeOK, lists
<1>7. QED
  BY <1>1, <1>3, <1>4, <1>6

-----------------------------------------------------------------------------
(* Every step keeps what the lists show *)

(* When rows change, or jobs go on: what is no longer as it was stored is  *)
(* excused, or the list will be loaded again.                              *)
LEMMA RowsChange ==
  ASSUME Truths, PageTyped,
         NEW ps \in SUBSET PagePrompts,
         unseen' = unseen \cup ps,
         \A m \in loads' : \E l \in loads :
           m.token = l.token /\ m.answer = l.answer /\ l.since \cup ps \subseteq m.since,
         "load" \notin due' =>
           \A p \in PagePrompts : rows'[p] # rows[p] \/ Owed(p) => p \in ps \/ Owed(p)',
         due' \in {due, due \cup {"load"}},
         UNCHANGED <<inBrowser, mount, prompts, shown, filter, loading, failed, searching, token, request,
                     timer, searches>>
  PROVE  Truths'
<1>1. "load" \in due => "load" \in due'
  OBVIOUS
<1>2. "search" \in due' <=> "search" \in due
  OBVIOUS
<1>3. Settled' => Settled /\ "load" \notin due'
  BY <1>1 DEF Settled
<1>4. ASSUME "load" \notin due', NEW p \in PagePrompts
      PROVE  /\ Excused(p, unseen) => Excused(p, unseen)'
             /\ rows'[p] # rows[p] => Excused(p, unseen)'
  BY <1>4 DEF Excused
(* A list that was true stays so, of those that are excused since then.    *)
<1>5. ASSUME "load" \notin due', NEW list, NEW before, NEW now, before \cup ps \subseteq now,
             ListTrue(list, before)
      PROVE  ListTrue(list, now)'
  <2>1. PICK qs \in Stores : /\ DOMAIN list \subseteq qs
                             /\ \A p \in qs : ListsRow(list, qs, p) \/ Excused(p, before)
    BY <1>5 DEF ListTrue
  <2>2. qs \in Stores' /\ qs \in SUBSET PagePrompts
    BY <2>1, StoresAre DEF Stores
  <2>3. ASSUME NEW p \in qs
        PROVE  ListsRow(list, qs, p)' \/ p \in now \/ Owed(p)'
    <3>1. rows'[p] # rows[p] \/ Owed(p) => p \in ps \/ Owed(p)'
      BY <1>5, <2>2, <2>3
    <3>2. ListsRow(list, qs, p) \/ p \in before \/ Owed(p)
      BY <2>1, <2>3 DEF Excused
    <3>3. rows'[p] = rows[p] => (ListsRow(list, qs, p)' <=> ListsRow(list, qs, p))
      BY DEF ListsRow, RowOf, Capped
    <3>4. QED
      BY <1>5, <3>1, <3>2, <3>3
  <2>4. QED
    BY <2>1, <2>2, <2>3 DEF ListTrue, Excused
<1>6. LoadsTrue'
  <2>1. SUFFICES ASSUME "load" \notin due', NEW m \in loads', m.token = token', m.answer \notin NoAnswer
                 PROVE  ListTrue(m.answer, m.since)'
    BY DEF LoadsTrue, NoAnswer
  <2>2. PICK l \in loads : /\ m.token = l.token /\ m.answer = l.answer
                           /\ l.since \cup ps \subseteq m.since
    OBVIOUS
  <2>3. ListTrue(l.answer, l.since)
    BY <1>1, <2>1, <2>2 DEF Truths, LoadsTrue
  <2>4. QED
    BY <1>5, <2>1, <2>2, <2>3
<1>7. PromptsTrue'
  <2>1. SUFFICES ASSUME Settled' PROVE ListTrue(prompts, unseen)'
    BY DEF PromptsTrue
  <2>2. ListTrue(prompts, unseen)
    BY <1>3, <2>1 DEF Truths, PromptsTrue
  <2>3. unseen \cup ps \subseteq unseen'
    OBVIOUS
  <2>4. QED
    BY <1>3, <1>5, <2>1, <2>2, <2>3
<1>8. ASSUME Settled', NEW list, Found(list)
      PROVE  Found(list)'
  <2>1. \A p \in PagePrompts : Wanted(p)' = Wanted(p) \/ rows'[p] # rows[p]
    BY DEF Wanted, Passes
  <2>2. ASSUME NEW p \in OfMemory
        PROVE  RowOf(list, p) = Wanted(p)' \/ Excused(p, unseen)'
    BY <1>3, <1>4, <1>8, <2>1, <2>2, StoresAre DEF Found
  <2>3. QED
    BY <1>8, <2>2 DEF Found, RowOf
<1>9. SearchesTrue'
  <2>1. SUFFICES ASSUME NEW s \in searches \cup ToSet(timer), Counts(s)
                 PROVE  SearchTrue(s)'
    BY DEF SearchesTrue, Counts, ToSet
  <2>2. SearchTrue(s)
    BY <2>1 DEF Truths, SearchesTrue
  <2>3. QED
    BY <1>2, <1>3, <1>8, <2>2 DEF SearchTrue, NoAnswer
<1>10. ShownTrue'
  BY <1>2, <1>3, <1>8 DEF Truths, ShownTrue, OwnFilter, Matching, Passes
<1>11. QED
  BY <1>6, <1>7, <1>9, <1>10 DEF Truths

LEMMA ServeListTrue ==
  ASSUME Steady, NEW l \in loads, ServeList(l), inBrowser' = inBrowser
  PROVE  Truths' /\ Ticked'
<1>1. PICK n \in LoadRecords : /\ loads' = (loads \ {l}) \cup {n} /\ n.token = l.token
                               /\ n.answer \notin NoAnswer => ListTrue(n.answer, n.since)
  BY ListServed DEF Steady
<1>2. UNCHANGED <<rows, mount, prompts, shown, selected, filter, loading, failed, searching, token,
                  request, timer, due, searches, jobs, unseen>>
  BY DEF ServeList, lists, flags
<1>3. \A list, since : ListTrue(list, since)' <=> ListTrue(list, since)
  BY <1>2 DEF ListTrue, Stores, ListsRow, Capped, RowOf, Excused, Owed
<1>4. LoadsTrue'
  <2>1. SUFFICES ASSUME "load" \notin due, NEW m \in loads', m.token = token, m.answer \notin NoAnswer
                 PROVE  ListTrue(m.answer, m.since)
    BY <1>2, <1>3 DEF LoadsTrue, NoAnswer
  <2>2. CASE m = n
    BY <1>1, <2>1, <2>2
  <2>3. CASE m \in loads
    BY <2>1, <2>3 DEF Steady, Truths, LoadsTrue
  <2>4. QED
    BY <1>1, <2>2, <2>3
<1>5. PromptsTrue' /\ SearchesTrue' /\ ShownTrue' /\ Ticked'
  BY <1>2, <1>3 DEF Steady, Truths, PromptsTrue, SearchesTrue, ShownTrue, Ticked, Settled, RowOf, Excused,
              Owed, Counts, SearchTrue, Found, Wanted, Passes, OwnFilter, Matching
<1>6. QED
  BY <1>4, <1>5 DEF Truths

LEMMA GotListTrue ==
  ASSUME Steady, NEW l \in loads, GotList(l), inBrowser' = inBrowser
  PROVE  Truths' /\ Ticked'
<1>1. l \in LoadRecords /\ l.answer # Waiting /\ loads' \subseteq loads
  BY DEF Steady, PageTyped, Awaited, GotList
<1>2. UNCHANGED <<rows, mount, filter, searching, token, request, timer, searches, jobs>>
  BY DEF GotList
<1>3. CASE l.token # token
  <2>1. UNCHANGED <<prompts, shown, selected, loading, failed, due, unseen>>
    BY <1>3 DEF GotList, lists
  <2>2. QED
    BY <1>1, <1>2, <2>1 DEF Steady, Truths, LoadsTrue, PromptsTrue, SearchesTrue, ShownTrue, Ticked,
         Settled, ListTrue, Stores, ListsRow, Capped, RowOf, Excused, Owed, Counts, SearchTrue, Found, Wanted, Passes, OwnFilter, Matching, NoAnswer
<1>4. CASE l.token = token /\ l.answer = Failed
  <2>1. failed' = TRUE /\ UNCHANGED <<prompts, shown, selected, due, unseen>>
    BY <1>4 DEF GotList, lists
  <2>2. ~Settled'
    BY <2>1 DEF Settled
  <2>3. LoadsTrue' /\ Ticked'
    BY <1>1, <1>2, <2>1 DEF Steady, Truths, LoadsTrue, Ticked, ListTrue, Stores, ListsRow, Capped, RowOf, Excused, Owed, NoAnswer
  <2>4. SearchesTrue'
    BY <1>2, <2>1, <2>2 DEF Steady, Truths, SearchesTrue, Counts, SearchTrue
  <2>5. QED
    BY <2>2, <2>3, <2>4 DEF Truths, PromptsTrue, ShownTrue
<1>5. CASE l.token = token /\ l.answer # Failed
  <2>1. /\ prompts' = l.answer /\ shown' = l.answer /\ due' = due \cup {"search", "prune"}
        /\ unseen' = l.since
    BY <1>5 DEF GotList
  <2>2. "load" \in due' <=> "load" \in due
    BY <2>1
  <2>3. l.answer \notin NoAnswer
    BY <1>1, <1>5 DEF NoAnswer
  <2>4. LoadsTrue'
    BY <1>1, <1>2, <2>2 DEF Steady, Truths, LoadsTrue, ListTrue, Stores, ListsRow, Capped, RowOf, Excused, Owed, NoAnswer
  <2>5. PromptsTrue'
    <3>1. Settled' => "load" \notin due
      BY <2>2 DEF Settled
    <3>2. "load" \notin due => ListTrue(l.answer, l.since)
      BY <1>5, <2>3 DEF Steady, Truths, LoadsTrue
    <3>3. QED
      BY <1>2, <2>1, <3>1, <3>2 DEF PromptsTrue, ListTrue, Stores, ListsRow, Capped, RowOf, Excused, Owed
  <2>6. "search" \in due' /\ due' # {}
    BY <2>1
  <2>7. SearchesTrue' /\ ShownTrue' /\ Ticked'
    BY <1>2, <2>6 DEF Steady, Truths, SearchesTrue, ShownTrue, Ticked, Counts, SearchTrue
  <2>8. QED
    BY <2>4, <2>5, <2>7 DEF Truths
<1>6. QED
  BY <1>3, <1>4, <1>5

(* What a search effect leaves behind is true of the list it began from.   *)
LEMMA SearchEffectTrue ==
  ASSUME Steady, SearchEffect(filter'), filter' \in Filters,
         UNCHANGED <<inBrowser, rows, mount, prompts, searches, jobs, unseen>>,
         "search" \notin due', Settled' => Settled
  PROVE  SearchesTrue' /\ ShownTrue'
<1>1. /\ request' = request + 1 /\ request' \in Nat
      /\ \A s \in ToSet(timer') :
           s = [request |-> request', filter |-> filter', list |-> prompts, answer |-> Waiting]
      /\ filter' = NoFilter => ToSet(timer') = {}
  BY SearchEffectTyped DEF Steady
<1>2. \A s \in searches : s.request # request'
  <2>1. request \in Nat /\ \A s \in searches : s.request \in Nat /\ s.request <= request
    BY DEF Steady, PageTyped, Awaited, SearchRecords
  <2>2. QED
    BY <1>1, <2>1
<1>3. SearchesTrue'
  <2>1. SUFFICES ASSUME NEW s \in (searches \cup ToSet(timer))', s.request = request'
                 PROVE  SearchTrue(s)'
    BY DEF SearchesTrue, Counts
  <2>2. s \in ToSet(timer')
    BY <1>2, <2>1 DEF ToSet
  <2>3. /\ s.filter = filter' /\ s.list = prompts /\ s.answer = Waiting
        /\ filter' # NoFilter
    BY <1>1, <2>2
  <2>4. QED
    BY <2>3, PageSentinels DEF SearchTrue, NoAnswer
<1>4. ShownTrue'
  <2>1. CASE filter' # NoFilter
    <3>1. searching'
      BY <2>1 DEF SearchEffect
    <3>2. QED
      BY <3>1 DEF ShownTrue
  <2>2. CASE filter' = NoFilter
    <3>1. shown' = prompts /\ prompts' = prompts
      BY <2>2 DEF SearchEffect
    <3>2. QED
      BY <2>2, <3>1 DEF ShownTrue
  <2>3. QED
    BY <2>1, <2>2
<1>5. QED
  BY <1>3, <1>4

LEMMA TypeFilterTrue ==
  ASSUME Steady, NEW f \in Filters, TypeFilter(f), inBrowser' = inBrowser
  PROVE  Truths' /\ Ticked'
<1>1. /\ filter' = f /\ SearchEffect(f) /\ due = {} /\ due' = {"prune"}
      /\ UNCHANGED <<rows, mount, prompts, selected, loading, failed, token, loads, searches, jobs, unseen>>
  BY DEF TypeFilter, Usable, calls
<1>2. "load" \notin due /\ "load" \notin due' /\ "search" \notin due' /\ due' # {}
  BY <1>1
<1>3. Settled' => Settled
  BY <1>1, <1>2 DEF Settled
<1>4. SearchesTrue' /\ ShownTrue'
  BY <1>1, <1>2, <1>3, SearchEffectTrue
<1>5. LoadsTrue' /\ PromptsTrue' /\ Ticked'
  BY <1>1, <1>2, <1>3 DEF Steady, Truths, LoadsTrue, PromptsTrue, Ticked, ListTrue, Stores, ListsRow, Capped, RowOf, Excused, Owed, NoAnswer
<1>6. QED
  BY <1>4, <1>5 DEF Truths

LEMMA EffectsTrue ==
  ASSUME Steady, Effects, inBrowser' = inBrowser
  PROVE  Truths' /\ Ticked'
<1>1. /\ due' = {} /\ selected' = Among(selected, DOMAIN shown')
      /\ UNCHANGED <<rows, mount, prompts, filter, failed, searches, jobs, unseen>>
  BY DEF Effects
<1>2. "load" \notin due' /\ "search" \notin due'
  BY <1>1
<1>3. Ticked'
  BY <1>1, AmongIs DEF Steady, PageTyped, PageTypeOK, Ticked
<1>4. CASE "load" \in due
  <2>1. token' = token + 1 /\ loading' = TRUE /\ loads' = loads \cup {Load(token + 1)}
    BY <1>4 DEF Effects
  <2>2. ~Settled'
    BY <2>1 DEF Settled
  <2>3. \A l \in loads' : l.token = token' => l.answer = Waiting
    BY <2>1 DEF Steady, PageTyped, Awaited, LoadRecords, Load
  <2>4. LoadsTrue'
    BY <2>3 DEF LoadsTrue, NoAnswer
  <2>5. SearchesTrue' /\ ShownTrue'
    <3>1. CASE "search" \in due
      <4>1. SearchEffect(filter') /\ filter' \in Filters
        BY <1>1, <3>1 DEF Effects, Steady, PageTyped, PageTypeOK
      <4>2. QED
        BY <1>1, <1>2, <2>2, <4>1, SearchEffectTrue
    <3>2. CASE "search" \notin due
      <4>1. UNCHANGED <<request, shown, searching, timer>>
        BY <3>2 DEF Effects
      <4>2. QED
        BY <1>1, <2>2, <3>2, <4>1 DEF Steady, Truths, SearchesTrue, ShownTrue, Counts, SearchTrue
    <3>3. QED
      BY <3>1, <3>2
  <2>6. QED
    BY <1>3, <2>2, <2>4, <2>5 DEF Truths, PromptsTrue
<1>5. CASE "load" \notin due
  <2>1. UNCHANGED <<token, loading, loads>>
    BY <1>5 DEF Effects
  <2>2. Settled' <=> Settled
    BY <1>1, <1>2, <1>5, <2>1 DEF Settled
  <2>3. LoadsTrue' /\ PromptsTrue'
    BY <1>1, <1>5, <2>1, <2>2 DEF Steady, Truths, LoadsTrue, PromptsTrue, ListTrue, Stores, ListsRow, Capped, RowOf, Excused, Owed, NoAnswer
  <2>4. SearchesTrue' /\ ShownTrue'
    <3>1. CASE "search" \in due
      <4>1. SearchEffect(filter') /\ filter' \in Filters
        BY <1>1, <3>1 DEF Effects, Steady, PageTyped, PageTypeOK
      <4>2. QED
        BY <1>1, <1>2, <2>2, <4>1, SearchEffectTrue
    <3>2. CASE "search" \notin due
      <4>1. UNCHANGED <<request, shown, searching, timer>>
        BY <3>2 DEF Effects
      <4>2. QED
        BY <1>1, <2>2, <3>2, <4>1 DEF Steady, Truths, SearchesTrue, ShownTrue, RowOf, Excused, Owed,
             Counts, SearchTrue, Found, Wanted, Passes, OwnFilter, Matching, NoAnswer
    <3>3. QED
      BY <3>1, <3>2
  <2>5. QED
    BY <1>3, <2>3, <2>4 DEF Truths
<1>6. QED
  BY <1>4, <1>5

LEMMA TimerFiresTrue ==
  ASSUME Steady, TimerFires, inBrowser' = inBrowser
  PROVE  Truths' /\ Ticked'
<1>1. searches' \cup ToSet(timer') = searches \cup ToSet(timer)
  BY TimerFiresTyped DEF Steady
<1>2. UNCHANGED <<rows, mount, prompts, shown, selected, filter, loading, failed, searching, token,
                  request, due, loads, jobs, unseen>>
  BY DEF TimerFires, lists, flags
<1>3. SearchesTrue'
  <2>1. SUFFICES ASSUME NEW s \in searches \cup ToSet(timer), Counts(s)
                 PROVE  SearchTrue(s)'
    BY <1>1, <1>2 DEF SearchesTrue, Counts, ToSet
  <2>2. SearchTrue(s)
    BY <2>1 DEF Steady, Truths, SearchesTrue
  <2>3. QED
    BY <1>2, <2>2 DEF SearchTrue, Settled, Found, Wanted, Passes, OwnFilter, Matching, RowOf, Excused, Owed, NoAnswer
<1>4. LoadsTrue' /\ PromptsTrue' /\ ShownTrue' /\ Ticked'
  BY <1>2 DEF Steady, Truths, LoadsTrue, PromptsTrue, ShownTrue, Ticked, Settled, ListTrue, Stores, ListsRow, Capped, RowOf, Excused,
              Owed, Found, Wanted, Passes, OwnFilter, Matching, NoAnswer
<1>5. QED
  BY <1>3, <1>4 DEF Truths

(* What a browser finds in its memory is what the filter selects there. *)
LEMMA FoundInMemory ==
  ASSUME Steady
  PROVE  Found(Matching(filter, Stored(OfMemory)))
<1>1. /\ Stored(OfMemory) \in Lists /\ DOMAIN Stored(OfMemory) \subseteq OfMemory
      /\ \A p \in OfMemory : RowOf(Stored(OfMemory), p) = rows[p]
  BY StoredIs, StoresAre DEF Steady
<1>2. /\ DOMAIN Matching(filter, Stored(OfMemory)) \subseteq DOMAIN Stored(OfMemory)
      /\ \A p \in PagePrompts :
           RowOf(Matching(filter, Stored(OfMemory)), p) =
             IF Passes(filter, RowOf(Stored(OfMemory), p)) THEN RowOf(Stored(OfMemory), p) ELSE Absent
  BY <1>1, MatchingIs
<1>3. QED
  BY <1>1, <1>2, StoresAre DEF Found, Wanted

LEMMA ServeSearchTrue ==
  ASSUME Steady, NEW s \in searches, ServeSearch(s), inBrowser' = inBrowser
  PROVE  Truths' /\ Ticked'
<1>1. s \in SearchRecords
  BY DEF Steady, PageTyped, Awaited
<1>2. PICK answer : /\ answer = IF inBrowser THEN Matching(s.filter, Stored(OfMemory)) ELSE Failed
                    /\ searches' = (searches \ {s}) \cup {[s EXCEPT !.answer = answer]}
  BY DEF ServeSearch
<1>3. PICK n : /\ searches' = (searches \ {s}) \cup {n}
               /\ n.request = s.request /\ n.filter = s.filter /\ n.list = s.list
               /\ n.answer = answer
  <2>1. LET n == [s EXCEPT !.answer = answer]
        IN  n.request = s.request /\ n.filter = s.filter /\ n.list = s.list /\ n.answer = answer
    BY <1>1 DEF SearchRecords
  <2>2. QED
    BY <1>2, <2>1
<1>4. /\ inBrowser => n.answer = Matching(s.filter, Stored(OfMemory)) /\ n.answer \in Lists
      /\ ~inBrowser => n.answer = Failed
  BY <1>2, <1>3, StoredIs, StoresAre, MatchingIs DEF Steady
<1>5. UNCHANGED <<rows, mount, prompts, shown, selected, filter, loading, failed, searching, token,
                  request, timer, due, loads, jobs, unseen>>
  BY DEF ServeSearch, lists, flags
<1>6. SearchesTrue'
  <2>1. ASSUME NEW t, SearchTrue(t)
        PROVE  SearchTrue(t)'
    BY <1>5, <2>1 DEF SearchTrue, Settled, Found, Wanted, Passes, RowOf, Excused, Owed, NoAnswer
  <2>2. ASSUME NEW t \in searches \cup ToSet(timer), Counts(t)
        PROVE  SearchTrue(t)'
    BY <2>1, <2>2 DEF Steady, Truths, SearchesTrue
  <2>3. ASSUME Counts(n)
        PROVE  SearchTrue(n)'
    <3>1. SearchTrue(s)
      BY <1>3, <2>3 DEF Steady, Truths, SearchesTrue, Counts
    <3>2. inBrowser => Found(n.answer) /\ n.answer # Failed
      <4>1. s.filter = filter
        BY <3>1 DEF SearchTrue
      <4>2. inBrowser => Found(n.answer)
        BY <1>4, <4>1, FoundInMemory
      <4>3. n.answer \in Lists => n.answer # Failed
        BY PageSentinels DEF Lists
      <4>4. QED
        BY <1>4, <4>2, <4>3
    <3>3. ~inBrowser => n.answer \in NoAnswer
      BY <1>4 DEF NoAnswer
    <3>4. SearchTrue(n)
      <4>1. n.filter = filter /\ filter # NoFilter /\ ("search" \notin due => n.list = prompts)
        BY <1>3, <3>1 DEF SearchTrue
      <4>2. QED
        BY <3>2, <3>3, <4>1, Zenon DEF SearchTrue
    <3>5. QED
      BY <2>1, <3>4
  <2>4. QED
    BY <1>3, <1>5, <2>2, <2>3 DEF SearchesTrue, Counts, ToSet
<1>7. LoadsTrue' /\ PromptsTrue' /\ ShownTrue' /\ Ticked'
  BY <1>5 DEF Steady, Truths, LoadsTrue, PromptsTrue, ShownTrue, Ticked, Settled, ListTrue, Stores, ListsRow, Capped, RowOf, Excused,
              Owed, Found, Wanted, Passes, OwnFilter, Matching, NoAnswer
<1>8. QED
  BY <1>6, <1>7 DEF Truths

LEMMA GotSearchTrue ==
  ASSUME Steady, NEW s \in searches, GotSearch(s), inBrowser' = inBrowser
  PROVE  Truths' /\ Ticked'
<1>1. s \in SearchRecords /\ s.answer # Waiting /\ searches' \subseteq searches
  BY DEF Steady, PageTyped, Awaited, GotSearch
<1>2. UNCHANGED <<rows, mount, prompts, selected, filter, loading, failed, token, request, timer,
                  loads, jobs, unseen>>
  BY DEF GotSearch
<1>3. /\ due' \in {due, due \cup {"prune"}}
      /\ ("load" \in due' <=> "load" \in due) /\ ("search" \in due' <=> "search" \in due)
  BY DEF GotSearch
<1>4. Settled' <=> Settled
  BY <1>2, <1>3 DEF Settled
<1>5. LoadsTrue' /\ PromptsTrue'
  BY <1>2, <1>3, <1>4 DEF Steady, Truths, LoadsTrue, PromptsTrue, ListTrue, Stores, ListsRow, Capped, RowOf, Excused, Owed, NoAnswer
<1>6. SearchesTrue'
  <2>1. SUFFICES ASSUME NEW t \in searches \cup ToSet(timer), Counts(t)
                 PROVE  SearchTrue(t)'
    BY <1>1, <1>2 DEF SearchesTrue, Counts, ToSet
  <2>2. SearchTrue(t)
    BY <2>1 DEF Steady, Truths, SearchesTrue
  <2>3. QED
    BY <1>2, <1>3, <1>4, <2>2 DEF SearchTrue, Found, Wanted, Passes, OwnFilter, Matching, RowOf, Excused, Owed, NoAnswer
<1>7. ShownTrue' /\ Ticked'
  <2>1. CASE s.request # request
    <3>1. UNCHANGED <<shown, searching, due>>
      BY <2>1 DEF GotSearch
    <3>2. QED
      BY <1>2, <1>4, <3>1 DEF Steady, Truths, ShownTrue, Ticked, Found, Wanted, Passes, OwnFilter, Matching, RowOf, Excused, Owed
  <2>2. CASE s.request = request
    <3>1. /\ shown' = IF s.answer = Failed THEN Fallback(s) ELSE s.answer
          /\ due' = due \cup {"prune"}
      BY <2>2 DEF GotSearch
    <3>2. SearchTrue(s)
      BY <2>2 DEF Steady, Truths, SearchesTrue, Counts
    <3>3. ASSUME Settled, "search" \notin due
          PROVE  IF inBrowser THEN Found(shown') ELSE shown' = OwnFilter(filter, prompts)
      <4>1. CASE s.answer = Failed
        BY <3>1, <3>2, <3>3, <4>1 DEF SearchTrue, Fallback
      <4>2. CASE s.answer # Failed
        BY <1>1, <3>1, <3>2, <3>3, <4>2 DEF SearchTrue, NoAnswer
      <4>3. QED
        BY <4>1, <4>2
    <3>4. \A list : Found(list)' <=> Found(list)
      BY <1>2 DEF Found, Wanted, Passes, RowOf, Excused, Owed
    <3>5. ShownTrue'
      BY <1>2, <1>3, <1>4, <3>2, <3>3, <3>4 DEF ShownTrue, SearchTrue, OwnFilter, Matching, Passes
    <3>6. due' # {}
      BY <3>1
    <3>7. QED
      BY <3>5, <3>6 DEF Ticked
  <2>3. QED
    BY <2>1, <2>2
<1>8. QED
  BY <1>5, <1>6, <1>7 DEF Truths

LEMMA RemountTrue ==
  ASSUME Steady, Remount, inBrowser' = inBrowser
  PROVE  Truths' /\ Ticked'
<1>1. /\ selected' = << >> /\ loading' = TRUE /\ timer' = << >>
      /\ token' = token + 1 /\ request' = request + 1
      /\ loads' = loads \cup {Load(token + 1)} /\ searches' = searches
  BY DEF Remount
<1>2. \A l \in loads' : l.token = token' => l.answer = Waiting
  BY <1>1 DEF Steady, PageTyped, Awaited, LoadRecords, Load
<1>3. LoadsTrue'
  BY <1>2 DEF LoadsTrue, NoAnswer
<1>4. ~Settled'
  BY <1>1 DEF Settled
<1>5. ToSet(timer') = {} /\ ToSet(selected') = {}
  BY <1>1 DEF ToSet
<1>6. \A s \in searches : s.request # request'
  BY <1>1 DEF Steady, PageTyped, Awaited, SearchRecords
<1>7. SearchesTrue'
  BY <1>1, <1>5, <1>6 DEF SearchesTrue, Counts, ToSet
<1>8. QED
  BY <1>3, <1>4, <1>5, <1>7 DEF Truths, PromptsTrue, ShownTrue, Ticked

LEMMA SelectTrue ==
  ASSUME Steady, NEW s \in Seq(PagePrompts), Select(s), ToSet(s) \subseteq DOMAIN shown, inBrowser' = inBrowser
  PROVE  Truths' /\ Ticked'
<1>1. /\ selected' = s
      /\ UNCHANGED <<rows, mount, prompts, shown, filter, loading, failed, searching, token,
                     request, timer, due, loads, searches, jobs, unseen>>
  BY DEF Select, calls, flags
<1>2. Truths'
  <2>1. \A list, since : ListTrue(list, since)' <=> ListTrue(list, since)
    BY <1>1 DEF ListTrue, Stores, ListsRow, Capped, RowOf, Excused, Owed
  <2>2. QED
    BY <1>1, <2>1 DEF Steady, Truths, LoadsTrue, PromptsTrue, SearchesTrue, ShownTrue, Settled, RowOf,
              Excused, Owed, Counts, SearchTrue, Found, Wanted, Passes, OwnFilter, Matching, NoAnswer
<1>3. Ticked'
  BY <1>1 DEF Ticked
<1>4. QED
  BY <1>2, <1>3

LEMMA StartJobTrue ==
  ASSUME Steady, NEW j \in JobRecords, StartJob(j), j.done = {}, inBrowser' = inBrowser
  PROVE  Truths' /\ Ticked'
<1>1. /\ jobs' = jobs \cup {j} /\ due = {}
      /\ UNCHANGED <<rows, mount, prompts, shown, selected, filter, loading, failed, searching, token,
                     request, timer, due, loads, searches, unseen>>
  BY DEF StartJob, Usable, lists
<1>2. \A p : Owed(p)' <=> Owed(p)
  BY <1>1 DEF Owed
<1>3. Truths'
  BY <1>1, <1>2 DEF Steady, Truths, LoadsTrue, PromptsTrue, SearchesTrue, ShownTrue, Settled, ListTrue, Stores, ListsRow, Capped, RowOf,
              Excused, Counts, SearchTrue, Found, Wanted, Passes, OwnFilter, Matching, NoAnswer
<1>4. Ticked'
  BY <1>1 DEF Steady, Ticked
<1>5. QED
  BY <1>3, <1>4

LEMMA ServeJobTrue ==
  ASSUME Steady, NEW j \in jobs, ServeJob(j), inBrowser' = inBrowser
  PROVE  Truths' /\ Ticked'
<1>1. UNCHANGED <<mount, prompts, shown, selected, filter, loading, failed, searching, token,
                  request, timer, due, searches>>
  BY DEF ServeJob, lists, flags
<1>2. PICK ps \in SUBSET PagePrompts, n \in JobRecords :
        /\ unseen' = unseen \cup ps
        /\ \A m \in loads' : \E l \in loads :
             m.token = l.token /\ m.answer = l.answer /\ l.since \cup ps \subseteq m.since
        /\ jobs' = (jobs \ {j}) \cup {n} /\ n.mount = j.mount
        /\ j.done \subseteq n.done
        /\ \A p \in PagePrompts : rows'[p] # rows[p] => p \in n.done
        /\ j.mount # mount => \A p \in PagePrompts : rows'[p] # rows[p] => p \in ps
  BY ServeJobIs DEF Steady
<1>3. \A p \in PagePrompts : rows'[p] # rows[p] \/ Owed(p) => p \in ps \/ Owed(p)'
  <2>1. ASSUME NEW p \in PagePrompts, Owed(p)
        PROVE  Owed(p)'
    BY <1>1, <1>2, <2>1 DEF Owed
  <2>2. ASSUME NEW p \in PagePrompts, rows'[p] # rows[p]
        PROVE  p \in ps \/ Owed(p)'
    BY <1>1, <1>2, <2>2 DEF Owed
  <2>3. QED
    BY <2>1, <2>2
<1>4. Truths'
  BY <1>1, <1>2, <1>3, RowsChange DEF Steady
<1>5. QED
  BY <1>1, <1>4 DEF Steady, Ticked

LEMMA NextPromptTrue ==
  ASSUME Steady, NEW j \in jobs, NextPrompt(j), inBrowser' = inBrowser
  PROVE  Truths' /\ Ticked'
<1>1. UNCHANGED <<rows, mount, prompts, shown, selected, filter, loading, failed, searching, token,
                  request, timer, due, loads, searches, unseen>>
  BY DEF NextPrompt, lists, flags
<1>2. PICK n \in JobRecords :
        jobs' = (jobs \ {j}) \cup {n} /\ n.mount = j.mount /\ n.done = j.done
  BY NextPromptTyped DEF Steady
<1>3. \A p : Owed(p)' <=> Owed(p)
  BY <1>1, <1>2 DEF Owed
<1>4. Truths'
  BY <1>1, <1>3 DEF Steady, Truths, LoadsTrue, PromptsTrue, SearchesTrue, ShownTrue, Settled, ListTrue, Stores, ListsRow, Capped, RowOf,
              Excused, Counts, SearchTrue, Found, Wanted, Passes, OwnFilter, Matching, NoAnswer
<1>5. QED
  BY <1>1, <1>4 DEF Steady, Ticked

LEMMA SucceedTrue ==
  ASSUME Steady, NEW j \in jobs, Succeed(j), inBrowser' = inBrowser
  PROVE  Truths' /\ Ticked'
<1>1. /\ jobs' = jobs \ {j} /\ selected' \in {selected, << >>} /\ due' \in {due, due \cup {"load"}}
      /\ UNCHANGED <<rows, mount, prompts, shown, filter, loading, failed, searching, token,
                     request, timer, loads, searches, unseen>>
  BY DEF Succeed
<1>2. ASSUME "load" \notin due', NEW p, Owed(p)
      PROVE  Owed(p)'
  <2>1. j.mount # mount \/ j.op = "export"
    BY <1>2 DEF Succeed
  <2>2. j.mount # mount \/ j.done = {}
    BY <2>1 DEF Steady, PageTyped, JobsSound
  <2>3. QED
    BY <1>1, <1>2, <2>2 DEF Owed
<1>3. /\ {} \in SUBSET PagePrompts /\ unseen' = unseen \cup {}
      /\ \A m \in loads' : \E l \in loads :
           m.token = l.token /\ m.answer = l.answer /\ l.since \cup {} \subseteq m.since
  BY <1>1
<1>4. "load" \notin due' =>
        \A p \in PagePrompts : rows'[p] # rows[p] \/ Owed(p) => p \in {} \/ Owed(p)'
  BY <1>1, <1>2
<1>5. Truths'
  BY <1>1, <1>3, <1>4, RowsChange DEF Steady
<1>6. Ticked'
  <2>1. ToSet(<< >>) = {}
    BY DEF ToSet
  <2>2. due' = {} => due = {}
    BY <1>1
  <2>3. CASE selected' = << >>
    BY <2>1, <2>3 DEF Ticked
  <2>4. CASE selected' = selected
    BY <1>1, <2>2, <2>4 DEF Steady, Ticked
  <2>5. QED
    BY <1>1, <2>3, <2>4
<1>7. QED
  BY <1>5, <1>6

LEMMA FailTrue ==
  ASSUME Steady, NEW j \in jobs, Fail(j), inBrowser' = inBrowser
  PROVE  Truths' /\ Ticked'
<1>1. /\ jobs' = jobs \ {j}
      /\ UNCHANGED <<rows, mount, prompts, shown, selected, filter, loading, failed, searching, token,
                     request, timer, due, searches>>
  BY DEF Fail, lists
<1>2. PICK ps \in SUBSET PagePrompts :
        /\ unseen' = unseen \cup ps
        /\ \A m \in loads' : \E l \in loads :
             m.token = l.token /\ m.answer = l.answer /\ l.since \cup ps \subseteq m.since
        /\ j.mount = mount => ps = j.done
  BY FailIs DEF Steady
<1>3. \A p \in PagePrompts : rows'[p] # rows[p] \/ Owed(p) => p \in ps \/ Owed(p)'
  BY <1>1, <1>2 DEF Owed
<1>4. Truths'
  BY <1>1, <1>2, <1>3, RowsChange DEF Steady
<1>5. QED
  BY <1>1, <1>4 DEF Steady, Ticked

LEMMA SomebodyElseTrue ==
  ASSUME Steady, NEW p \in PagePrompts, NEW row \in (SUBSET PageTags) \cup {Absent},
         SomebodyElse(p, row), inBrowser' = inBrowser
  PROVE  Truths' /\ Ticked'
<1>1. UNCHANGED <<mount, prompts, shown, selected, filter, loading, failed, searching, token,
                  request, timer, due, searches, jobs>>
  BY DEF SomebodyElse, lists, flags
<1>2. /\ unseen' = unseen \cup {p}
      /\ \A m \in loads' : \E l \in loads :
           m.token = l.token /\ m.answer = l.answer /\ l.since \cup {p} \subseteq m.since
      /\ \A q \in PagePrompts : rows'[q] # rows[q] => q = p
  BY SomebodyElseIs DEF Steady
<1>3. \A q \in PagePrompts : rows'[q] # rows[q] \/ Owed(q) => q \in {p} \/ Owed(q)'
  BY <1>1, <1>2 DEF Owed
<1>4. Truths'
  <2> DEFINE ps == {p}
  <2>1. ps \in SUBSET PagePrompts
    OBVIOUS
  <2>2. "load" \notin due' =>
          \A q \in PagePrompts : rows'[q] # rows[q] \/ Owed(q) => q \in ps \/ Owed(q)'
    BY <1>3
  <2>3. /\ unseen' = unseen \cup ps
        /\ \A m \in loads' : \E l \in loads :
             m.token = l.token /\ m.answer = l.answer /\ l.since \cup ps \subseteq m.since
    BY <1>2
  <2>4. due' \in {due, due \cup {"load"}}
    BY <1>1
  <2> HIDE DEF ps
  <2>5. QED
    BY <1>1, <2>1, <2>2, <2>3, <2>4, RowsChange DEF Steady
<1>5. QED
  BY <1>1, <1>4 DEF Steady, Ticked

-----------------------------------------------------------------------------
(* The theorem *)

LEMMA PageBegins ==
  ASSUME PageInit
  PROVE  Steady
<1>1. /\ mount = 1 /\ prompts = Nothing /\ shown = Nothing /\ selected = << >>
      /\ filter = NoFilter /\ loading = TRUE /\ token = 1 /\ request = 1 /\ timer = << >>
      /\ due = {} /\ loads = {Load(1)} /\ searches = {} /\ jobs = {} /\ unseen = {}
  BY DEF PageInit
<1>2. /\ ToSet(timer) = {} /\ ToSet(selected) = {} /\ timer \in Seq(SearchRecords)
      /\ selected \in Seq(PagePrompts) /\ Len(timer) = 0
  BY <1>1, EmptySeq DEF ToSet
<1>3. Load(1) \in LoadRecords /\ Load(1).token = 1 /\ Load(1).answer = Waiting
  BY DEF Load, LoadRecords, NoAnswer
<1>4. Awaited /\ JobsSound
  BY <1>1, <1>2, <1>3 DEF Awaited, JobsSound
<1>5. PageTypeOK
  <2>1. inBrowser \in BOOLEAN /\ rows \in [PagePrompts -> (SUBSET PageTags) \cup {Absent}]
    BY PageAtFirst DEF PageInit
  <2>2. QED
    BY <1>1, <1>2, <2>1, NothingIsList DEF PageTypeOK, Filters
<1>6. PageTyped
  BY <1>1, <1>4, <1>5, NothingIsList DEF PageTyped
<1>7. LoadsTrue
  BY <1>1, <1>3 DEF LoadsTrue, NoAnswer
<1>8. PromptsTrue /\ ShownTrue /\ SearchesTrue /\ Ticked
  BY <1>1, <1>2 DEF PromptsTrue, ShownTrue, SearchesTrue, Ticked, Settled
<1>9. QED
  BY <1>6, <1>7, <1>8 DEF Steady, Truths

LEMMA PageGoesOn ==
  ASSUME Steady, [PageNext]_pageVars
  PROVE  Steady'
<1>0. inBrowser' = inBrowser
  BY DEF PageNext, pageVars
<1>1. ASSUME NEW l \in loads, ServeList(l) \/ GotList(l)
      PROVE  Steady'
  <2>1. PageTyped'
    BY <1>0, <1>1, ServeListTyped, GotListTyped DEF Steady
  <2>2. Truths' /\ Ticked'
    BY <1>0, <1>1, ServeListTrue, GotListTrue
  <2>3. QED
    BY <2>1, <2>2 DEF Steady
<1>2. ASSUME NEW s \in searches, ServeSearch(s) \/ GotSearch(s)
      PROVE  Steady'
  <2>1. PageTyped'
    BY <1>0, <1>2, ServeSearchTyped, GotSearchTyped DEF Steady
  <2>2. Truths' /\ Ticked'
    BY <1>0, <1>2, ServeSearchTrue, GotSearchTrue
  <2>3. QED
    BY <2>1, <2>2 DEF Steady
<1>3. ASSUME NEW j \in jobs, ServeJob(j) \/ NextPrompt(j) \/ Succeed(j) \/ Fail(j)
      PROVE  Steady'
  <2>1. PageTyped'
    BY <1>0, <1>3, ServeJobIs, NextPromptTyped, SucceedTyped, FailIs DEF Steady
  <2>2. Truths' /\ Ticked'
    BY <1>0, <1>3, ServeJobTrue, NextPromptTrue, SucceedTrue, FailTrue
  <2>3. QED
    BY <2>1, <2>2 DEF Steady
<1>4. ASSUME NEW f \in Filters, TypeFilter(f)
      PROVE  Steady'
  BY <1>0, <1>4, TypeFilterTyped, TypeFilterTrue DEF Steady
<1>5. ASSUME SelectAllVisible \/ \E p \in PagePrompts : ToggleSelected(p)
      PROVE  Steady'
  <2>1. PICK s \in Seq(PagePrompts) : Select(s) /\ ToSet(s) \subseteq DOMAIN shown
    BY <1>0, <1>5, SelectionIs DEF Steady
  <2>2. QED
    BY <1>0, <2>1, SelectTyped, SelectTrue DEF Steady
<1>6. ASSUME BulkDelete \/ (\E tag \in PageTags : BulkTag(tag)) \/ (\E op \in {"import", "export"} : Bundle(op))
      PROVE  Steady'
  <2>1. PICK j \in JobRecords :
          /\ StartJob(j) /\ j.mount = mount /\ j.done = {}
          /\ j.op = "tag" => j.tag \in PageTags /\ ToSet(j.todo) \subseteq DOMAIN j.list
    BY <1>6, JobsBegun DEF Steady
  <2>2. QED
    BY <1>0, <2>1, StartJobTyped, StartJobTrue DEF Steady
<1>7. ASSUME Remount
      PROVE  Steady'
  BY <1>0, <1>7, RemountTyped, RemountTrue DEF Steady
<1>8. ASSUME Effects
      PROVE  Steady'
  BY <1>0, <1>8, EffectsTyped, EffectsTrue DEF Steady
<1>9. ASSUME TimerFires
      PROVE  Steady'
  BY <1>0, <1>9, TimerFiresTyped, TimerFiresTrue DEF Steady
<1>10. ASSUME NEW p \in PagePrompts, NEW row \in (SUBSET PageTags) \cup {Absent}, SomebodyElse(p, row)
       PROVE  Steady'
  BY <1>0, <1>10, SomebodyElseIs, SomebodyElseTrue DEF Steady
<1>11. ASSUME UNCHANGED pageVars
       PROVE  Steady'
  <2>1. UNCHANGED <<rows, mount, prompts, shown, selected, filter, loading, failed, searching, token,
                    request, timer, due, loads, searches, jobs, unseen>>
    BY <1>11 DEF pageVars, lists, flags, calls
  <2>2. PageTyped'
    BY <1>0, <2>1 DEF Steady, PageTyped, PageTypeOK, Awaited, JobsSound
  <2>3. Truths' /\ Ticked'
    BY <1>0, <2>1 DEF Steady, Truths, LoadsTrue, PromptsTrue, SearchesTrue, ShownTrue, Ticked, Settled, ListTrue, Stores, ListsRow, Capped, RowOf,
              Excused, Owed, Counts, SearchTrue, Found, Wanted, Passes, OwnFilter, Matching, NoAnswer
  <2>4. QED
    BY <2>2, <2>3 DEF Steady
<1>12. CASE Answer
  BY <1>1, <1>2, <1>3, <1>12, Zenon DEF Answer
<1>13. CASE Event
  BY <1>4, <1>5, <1>6, <1>7, <1>13, Zenon DEF Event
<1>14. QED
  BY <1>8, <1>9, <1>10, <1>11, <1>12, <1>13, Zenon DEF PageNext

LEMMA SteadyIsCurrent ==
  ASSUME Steady
  PROVE  ListIsCurrent
<1>1. PageTypeOK
  BY DEF Steady, PageTyped
<1>2. ASSUME AtRest
      PROVE  /\ ToSet(selected) \subseteq DOMAIN shown
             /\ filter = NoFilter => shown = prompts
             /\ filter # NoFilter /\ ~inBrowser => shown = OwnFilter(filter, prompts)
  BY <1>2 DEF AtRest, Settled, Steady, Truths, ShownTrue, Ticked
<1>3. ASSUME AtRest, \A j \in jobs : j.mount # mount
      PROVE  /\ \E ps \in Stores :
                  /\ DOMAIN prompts \subseteq ps
                  /\ \A p \in ps \ unseen : ListsRow(prompts, ps, p)
             /\ filter # NoFilter /\ inBrowser =>
                  /\ DOMAIN shown \subseteq OfMemory
                  /\ \A p \in OfMemory \ unseen : RowOf(shown, p) = Wanted(p)
  <2>1. \A p : Excused(p, unseen) => p \in unseen
    BY <1>3 DEF Excused, Owed
  <2>2. ListTrue(prompts, unseen)
    BY <1>3 DEF AtRest, Settled, Steady, Truths, PromptsTrue
  <2>3. filter # NoFilter /\ inBrowser => Found(shown)
    BY <1>3 DEF AtRest, Settled, Steady, Truths, ShownTrue
  <2>4. \E ps \in Stores : /\ DOMAIN prompts \subseteq ps
                           /\ \A p \in ps \ unseen : ListsRow(prompts, ps, p)
    BY <2>1, <2>2 DEF ListTrue
  <2>5. QED
    BY <2>1, <2>3, <2>4 DEF Found
<1>4. QED
  BY <1>1, <1>2, <1>3 DEF ListIsCurrent, Wanted

(* Whatever is typed, ticked, begun and left while answers are on their    *)
(* way, and whoever else writes: a page at rest shows what it has listed,  *)
(* or what the present filter selects, natively of that and in a browser of *)
(* its memory; what it has listed is the native vault, or a page of the    *)
(* server or all that is in memory, as it is stored, but for what others   *)
(* wrote since, or a job that stopped half-way; and only what is shown is  *)
(* ticked.                                                                 *)
THEOREM ListAlwaysCurrent == PageSpec => []ListIsCurrent
<1>1. PageInit => Steady
  BY PageBegins
<1>2. Steady /\ [PageNext]_pageVars => Steady'
  BY PageGoesOn
<1>3. Steady => ListIsCurrent
  BY SteadyIsCurrent
<1>4. QED
  BY <1>1, <1>2, <1>3, PTL DEF PageSpec

-----------------------------------------------------------------------------
(*****************************************************************************)
(* Synchronisation with git                                                *)
(*****************************************************************************)

Trees == UNION {[S -> Contents] : S \in SUBSET Slugs}

Exporting == [at : {"clear", "write", "send"}, listed : Trees, todo : SUBSET Slugs]
Importing == [at : {"import"}, todo : SUBSET Slugs, touched : SUBSET Prompts]
Applying == [at : {"apply"}, todo : SUBSET Slugs, touched : SUBSET Prompts,
             content : Contents, found : BOOLEAN]

(* The invariants of one vault, whose parts are given one by one, so that  *)
(* a step is compared with the state before it: `w' are the versions that  *)
(* users wrote, `n' the commits of the remote.                             *)

Mine(w, s, c) == c \in Contents /\ <<c.id, c.body>> \in w /\ SlugOf[c.id] = s

TreeOK(w, tree) ==
  /\ DOMAIN tree \subseteq Slugs /\ tree \in [DOMAIN tree -> Contents]
  /\ \A s \in DOMAIN tree : Mine(w, s, tree[s])

(* A merge with conflicts leaves them in the working tree.                 *)
WorkOK(w, tree) ==
  /\ DOMAIN tree \subseteq Slugs /\ tree \in [DOMAIN tree -> Contents \cup {Conflict}]
  /\ \A s \in DOMAIN tree : Mine(w, s, tree[s]) \/ tree[s] = Conflict

LibraryOK(w, lib) ==
  /\ DOMAIN lib \subseteq Prompts /\ lib \in [DOMAIN lib -> Row]
  /\ \A p \in DOMAIN lib : lib[p].bodies # << >>
  /\ \A p \in DOMAIN lib : \A b \in ToSet(lib[p].bodies) : <<p, b>> \in w
  /\ \A p, q \in DOMAIN lib : SlugOf[p] = SlugOf[q] => p = q

(* A push: the directory holds what was written so far of one export, and  *)
(* HEAD is that export when it is sent.                                    *)
ExportOK(w, fs, hd, cmd) ==
  /\ cmd \in Exporting
  /\ TreeOK(w, cmd.listed)
  /\ cmd.at = "clear" => cmd.todo = DOMAIN cmd.listed
  /\ cmd.at = "write" => /\ cmd.todo \subseteq DOMAIN cmd.listed
                         /\ DOMAIN fs = DOMAIN cmd.listed \ cmd.todo
                         /\ \A s \in DOMAIN fs : fs[s] = cmd.listed[s]
  /\ cmd.at = "send" => hd = cmd.listed

(* A pull: what is not to be read any more is in the library.              *)
InLibrary(lib, edited, c) ==
  \/ c.id \in edited
  \/ c.id \in DOMAIN lib /\ ~lib[c.id].trashed /\ Last(lib[c.id].bodies) = c.body

ImportOK(lib, fs, mg, cmd) ==
  /\ cmd \in Importing
  /\ mg = 0
  /\ \A s \in DOMAIN fs : s \in cmd.todo \/ InLibrary(lib, cmd.touched, fs[s])
  /\ cmd.todo \subseteq DOMAIN fs

ApplyOK(lib, fs, mg, cmd) ==
  /\ cmd \in Applying
  /\ mg = 0
  /\ \E s \in DOMAIN fs : fs[s] = cmd.content
  /\ \A s \in DOMAIN fs :
       s \in cmd.todo \/ fs[s] = cmd.content \/ InLibrary(lib, cmd.touched, fs[s])
  /\ cmd.todo \subseteq DOMAIN fs

CommandOK(w, lib, fs, hd, mg, cmd) ==
  \/ cmd = Idle
  \/ ExportOK(w, fs, hd, cmd)
  \/ ImportOK(lib, fs, mg, cmd)
  \/ ApplyOK(lib, fs, mg, cmd)

VaultOK(w, n, lib, fs, hd, kn, mg, cmd) ==
  /\ LibraryOK(w, lib)
  /\ TreeOK(w, hd)
  /\ WorkOK(w, fs)
  /\ mg = 0 => TreeOK(w, fs)
  /\ kn \in 1..n /\ mg \in 0..n
  /\ CommandOK(w, lib, fs, hd, mg, cmd)

Vault(v) == VaultOK(written, Len(remote), library[v], files[v], head[v], known[v],
                    merging[v], command[v])

OfVaults(f) == f = [v \in Vaults |-> f[v]]

Parts ==
  /\ OfVaults(library) /\ OfVaults(files) /\ OfVaults(head) /\ OfVaults(known)
  /\ OfVaults(ahead) /\ OfVaults(merging) /\ OfVaults(command)

RemoteOK ==
  /\ remote \in Seq(Trees)
  /\ \A i \in 1..Len(remote) : TreeOK(written, remote[i])
  /\ written \subseteq Prompts \X Bodies

IInv == Parts /\ RemoteOK /\ \A v \in Vaults : Vault(v)

-----------------------------------------------------------------------------
(* Vaults do not disturb each other *)

LEMMA SetIs ==
  ASSUME NEW f, OfVaults(f), NEW v \in Vaults, NEW e
  PROVE  /\ OfVaults(Set(f, v, e))
         /\ Set(f, v, e)[v] = e
         /\ \A u \in Vaults \ {v} : Set(f, v, e)[u] = f[u]
BY DEF OfVaults, Set

LEMMA MineGrows ==
  ASSUME NEW w, NEW w2, w \subseteq w2, NEW s, NEW c, Mine(w, s, c)
  PROVE  Mine(w2, s, c)
BY DEF Mine

LEMMA TreeGrows ==
  ASSUME NEW w, NEW w2, w \subseteq w2, NEW tree, TreeOK(w, tree)
  PROVE  TreeOK(w2, tree)
BY MineGrows DEF TreeOK

LEMMA VaultGrows ==
  ASSUME NEW w, NEW w2, w \subseteq w2, NEW n \in Nat, NEW n2 \in Nat, n <= n2,
         NEW lib, NEW fs, NEW hd, NEW kn, NEW mg, NEW cmd,
         VaultOK(w, n, lib, fs, hd, kn, mg, cmd)
  PROVE  VaultOK(w2, n2, lib, fs, hd, kn, mg, cmd)
<1>1. LibraryOK(w2, lib)
  BY DEF VaultOK, LibraryOK
<1>2. TreeOK(w2, hd) /\ (mg = 0 => TreeOK(w2, fs))
  BY TreeGrows DEF VaultOK
<1>3. WorkOK(w2, fs)
  BY MineGrows DEF VaultOK, WorkOK
<1>4. kn \in 1..n2 /\ mg \in 0..n2
  BY DEF VaultOK
<1>5. CommandOK(w2, lib, fs, hd, mg, cmd)
  <2>1. ExportOK(w, fs, hd, cmd) => ExportOK(w2, fs, hd, cmd)
    BY TreeGrows DEF ExportOK
  <2> QED
    BY <2>1 DEF VaultOK, CommandOK
<1> QED
  BY <1>1, <1>2, <1>3, <1>4, <1>5 DEF VaultOK

(* A step of one vault needs to be looked at in this vault only.           *)
LEMMA OneVault ==
  ASSUME IInv, NEW v \in Vaults, Parts', RemoteOK',
         written \subseteq written', Len(remote) <= Len(remote'),
         \A u \in Vaults \ {v} :
           /\ library'[u] = library[u] /\ files'[u] = files[u] /\ head'[u] = head[u]
           /\ known'[u] = known[u] /\ merging'[u] = merging[u] /\ command'[u] = command[u],
         Vault(v)'
  PROVE  IInv'
<1>1. Len(remote) \in Nat /\ Len(remote') \in Nat
  BY DEF IInv, RemoteOK
<1>2. ASSUME NEW u \in Vaults \ {v}
      PROVE  Vault(u)'
  <2>1. VaultOK(written, Len(remote), library[u], files[u], head[u], known[u],
                merging[u], command[u])
    BY DEF IInv, Vault
  <2>2. VaultOK(written', Len(remote'), library[u], files[u], head[u], known[u],
                merging[u], command[u])
    BY <1>1, <2>1, VaultGrows
  <2> QED
    BY <2>2 DEF Vault
<1> QED
  BY <1>2 DEF IInv

(* In particular one that leaves the remote and the ghost alone.           *)
LEMMA OneVaultQuiet ==
  ASSUME IInv, NEW v \in Vaults, Parts', UNCHANGED <<remote, written>>,
         \A u \in Vaults \ {v} :
           /\ library'[u] = library[u] /\ files'[u] = files[u] /\ head'[u] = head[u]
           /\ known'[u] = known[u] /\ merging'[u] = merging[u] /\ command'[u] = command[u],
         Vault(v)'
  PROVE  IInv'
<1>1. RemoteOK'
  BY DEF IInv, RemoteOK
<1>2. Len(remote) <= Len(remote') /\ written \subseteq written'
  BY DEF IInv, RemoteOK
<1> QED
  BY <1>1, <1>2, OneVault

-----------------------------------------------------------------------------
(* Changes of the library *)

RowChanged(lib, lib2, p) ==
  /\ DOMAIN lib2 = DOMAIN lib \cup {p}
  /\ lib2 = [q \in DOMAIN lib2 |-> lib2[q]]
  /\ \A q \in DOMAIN lib \ {p} : lib2[q] = lib[q]

LEMMA RowKeepsLibrary ==
  ASSUME NEW w, NEW w2, w \subseteq w2, NEW lib, NEW lib2, NEW p \in Prompts,
         LibraryOK(w, lib), RowChanged(lib, lib2, p),
         lib2[p] \in Row, lib2[p].bodies # << >>,
         \A b \in ToSet(lib2[p].bodies) : <<p, b>> \in w2,
         p \in DOMAIN lib \/ \A q \in DOMAIN lib : SlugOf[q] # SlugOf[p]
  PROVE  LibraryOK(w2, lib2)
<1>1. DOMAIN lib2 \subseteq Prompts /\ lib2 \in [DOMAIN lib2 -> Row]
  BY DEF LibraryOK, RowChanged
<1>2. \A q \in DOMAIN lib2 : lib2[q].bodies # << >>
  BY DEF LibraryOK, RowChanged
<1>3. ASSUME NEW q \in DOMAIN lib2, NEW b \in ToSet(lib2[q].bodies)
      PROVE  <<q, b>> \in w2
  BY <1>3 DEF LibraryOK, RowChanged
<1>4. \A q, r \in DOMAIN lib2 : SlugOf[q] = SlugOf[r] => q = r
  BY DEF LibraryOK, RowChanged
<1> QED
  BY <1>1, <1>2, <1>3, <1>4 DEF LibraryOK

WithBody(row, body) == [row EXCEPT !.bodies = Append(@, body)]

LEMMA Appended ==
  ASSUME NEW row \in Row, NEW body \in Bodies
  PROVE  /\ WithBody(row, body) \in Row /\ WithBody(row, body).bodies # << >>
         /\ WithBody(row, body).trashed = row.trashed
         /\ Last(WithBody(row, body).bodies) = body
         /\ ToSet(WithBody(row, body).bodies) \subseteq ToSet(row.bodies) \cup {body}
<1> DEFINE row2 == WithBody(row, body)
<1>1. row.bodies \in Seq(Bodies) /\ row.trashed \in BOOLEAN
  BY DEF Row
<1>2. /\ row2.bodies = Append(row.bodies, body)
      /\ row2.trashed = row.trashed
      /\ row2 \in Row
  BY SMTT(60), <1>1 DEF Row, WithBody
<1> HIDE DEF row2
<1>3. Len(row2.bodies) = Len(row.bodies) + 1 /\ Len(row.bodies) \in Nat
  BY <1>1, <1>2
<1>4. Last(row2.bodies) = body /\ row2.bodies # << >>
  BY <1>1, <1>2, <1>3 DEF Last
<1>5. \A i \in 1..Len(row2.bodies) :
        row2.bodies[i] = IF i = Len(row2.bodies) THEN body ELSE row.bodies[i]
  BY <1>1, <1>2, <1>3
<1>6. DOMAIN row2.bodies = 1..Len(row2.bodies) /\ DOMAIN row.bodies = 1..Len(row.bodies)
  BY <1>1, <1>2
<1>7. ToSet(row2.bodies) \subseteq ToSet(row.bodies) \cup {body}
  BY <1>3, <1>5, <1>6 DEF ToSet
<1> QED
  BY <1>2, <1>4, <1>7 DEF row2

LEMMA FirstBody ==
  ASSUME NEW body \in Bodies, NEW row, row = [trashed |-> FALSE, bodies |-> <<body>>]
  PROVE  /\ row \in Row /\ row.bodies # << >>
         /\ ~row.trashed
         /\ Last(row.bodies) = body
         /\ ToSet(row.bodies) = {body}
<1>1. row.bodies = <<body>> /\ row.trashed = FALSE
  OBVIOUS
<1>2. <<body>> \in Seq(Bodies) /\ Len(<<body>>) = 1 /\ <<body>>[1] = body
      /\ DOMAIN <<body>> = {1}
  OBVIOUS
<1> QED
  BY <1>1, <1>2 DEF Row, Last, ToSet

(* addVersion and createPrompt, of users and of the import.                *)
LEMMA AddedBody ==
  ASSUME OfVaults(library), NEW v \in Vaults, NEW w, NEW w2, w \subseteq w2,
         LibraryOK(w, library[v]), NEW p \in DOMAIN library[v],
         NEW body \in Bodies, <<p, body>> \in w2, AddBody(v, p, body)
  PROVE  /\ OfVaults(library')
         /\ \A u \in Vaults \ {v} : library'[u] = library[u]
         /\ RowChanged(library[v], library'[v], p)
         /\ LibraryOK(w2, library'[v])
         /\ library'[v][p].trashed = library[v][p].trashed
         /\ Last(library'[v][p].bodies) = body
<1> DEFINE row2 == WithBody(library[v][p], body)
           lib2 == [library[v] EXCEPT ![p] = row2]
<1>1. library' = [library EXCEPT ![v] = lib2]
  BY DEF AddBody, WithBody
<1>2. OfVaults(library') /\ \A u \in Vaults \ {v} : library'[u] = library[u]
  BY <1>1 DEF OfVaults
<1>3. library'[v] = lib2
  BY <1>1 DEF OfVaults
<1>4. library[v] \in [DOMAIN library[v] -> Row] /\ library[v][p] \in Row /\ p \in Prompts
  BY DEF LibraryOK
<1>5. RowChanged(library[v], lib2, p) /\ lib2[p] = row2
  BY <1>4 DEF RowChanged
<1>6. /\ row2 \in Row /\ row2.bodies # << >>
      /\ row2.trashed = library[v][p].trashed
      /\ Last(row2.bodies) = body
      /\ ToSet(row2.bodies) \subseteq ToSet(library[v][p].bodies) \cup {body}
  BY <1>4, Appended
<1> HIDE DEF row2, lib2
<1>7. \A b \in ToSet(lib2[p].bodies) : <<p, b>> \in w2
  BY <1>5, <1>6 DEF LibraryOK
<1>8. LibraryOK(w2, lib2)
  BY <1>4, <1>5, <1>6, <1>7, RowKeepsLibrary
<1> QED
  BY <1>2, <1>3, <1>5, <1>6, <1>8

LEMMA CreatedRow ==
  ASSUME OfVaults(library), NEW v \in Vaults, NEW w, NEW w2, w \subseteq w2,
         LibraryOK(w, library[v]), NEW p \in Prompts, ~SlugTaken(v, SlugOf[p]),
         NEW body \in Bodies, <<p, body>> \in w2, NewRow(v, p, body)
  PROVE  /\ OfVaults(library')
         /\ \A u \in Vaults \ {v} : library'[u] = library[u]
         /\ RowChanged(library[v], library'[v], p)
         /\ LibraryOK(w2, library'[v])
         /\ p \notin DOMAIN library[v]
         /\ ~library'[v][p].trashed
         /\ Last(library'[v][p].bodies) = body
<1> DEFINE row == [trashed |-> FALSE, bodies |-> <<body>>]
           lib2 == [q \in DOMAIN library[v] \cup {p} |-> IF q = p THEN row ELSE library[v][q]]
<1>1. library' = [library EXCEPT ![v] = lib2]
  BY DEF NewRow, Set
<1>2. OfVaults(library') /\ \A u \in Vaults \ {v} : library'[u] = library[u]
  BY <1>1 DEF OfVaults
<1>3. library'[v] = lib2
  BY <1>1 DEF OfVaults
<1>4. RowChanged(library[v], lib2, p) /\ lib2[p] = row
  BY DEF RowChanged
<1>5. /\ row \in Row /\ row.bodies # << >>
      /\ ~row.trashed
      /\ Last(row.bodies) = body
      /\ ToSet(row.bodies) = {body}
  BY FirstBody
<1>6. \A q \in DOMAIN library[v] : SlugOf[q] # SlugOf[p]
  BY DEF SlugTaken
<1> HIDE DEF row, lib2
<1>7. LibraryOK(w2, lib2)
  BY <1>4, <1>5, <1>6, RowKeepsLibrary
<1> QED
  BY <1>2, <1>3, <1>4, <1>5, <1>6, <1>7


(* What another process does to a row while a pull is running is recorded  *)
(* with the pull.                                                          *)
LEMMA RowTouched ==
  ASSUME NEW lib, NEW lib2, NEW p \in Prompts, RowChanged(lib, lib2, p), NEW edited, NEW c,
         InLibrary(lib, edited, c)
  PROVE  InLibrary(lib2, edited \cup {p}, c)
BY DEF InLibrary, RowChanged

LEMMA ImportTouched ==
  ASSUME NEW lib, NEW lib2, NEW p \in Prompts, RowChanged(lib, lib2, p),
         NEW fs, NEW mg, NEW cmd, ImportOK(lib, fs, mg, cmd)
  PROVE  ImportOK(lib2, fs, mg, [cmd EXCEPT !.touched = @ \cup {p}])
<1> DEFINE cmd2 == [cmd EXCEPT !.touched = @ \cup {p}]
<1>1. cmd2 \in Importing /\ cmd2.todo = cmd.todo /\ cmd2.touched = cmd.touched \cup {p}
  BY DEF ImportOK, Importing
<1> HIDE DEF cmd2
<1>2. \A s \in DOMAIN fs : s \in cmd2.todo \/ InLibrary(lib2, cmd2.touched, fs[s])
  BY <1>1, RowTouched DEF ImportOK
<1>3. ImportOK(lib2, fs, mg, cmd2)
  BY <1>1, <1>2 DEF ImportOK
<1> QED
  BY <1>3 DEF cmd2

LEMMA ApplyTouched ==
  ASSUME NEW lib, NEW lib2, NEW p \in Prompts, RowChanged(lib, lib2, p),
         NEW fs, NEW mg, NEW cmd, ApplyOK(lib, fs, mg, cmd)
  PROVE  ApplyOK(lib2, fs, mg, [cmd EXCEPT !.touched = @ \cup {p}])
<1> DEFINE cmd2 == [cmd EXCEPT !.touched = @ \cup {p}]
<1>1. /\ cmd2 \in Applying /\ cmd2.todo = cmd.todo /\ cmd2.touched = cmd.touched \cup {p}
      /\ cmd2.content = cmd.content
  BY DEF ApplyOK, Applying
<1> HIDE DEF cmd2
<1>2. \A s \in DOMAIN fs :
        s \in cmd2.todo \/ fs[s] = cmd2.content \/ InLibrary(lib2, cmd2.touched, fs[s])
  BY <1>1, RowTouched DEF ApplyOK
<1>3. ApplyOK(lib2, fs, mg, cmd2)
  BY <1>1, <1>2 DEF ApplyOK
<1> QED
  BY <1>3 DEF cmd2

LibraryStep(v, p) ==
  /\ OfVaults(library')
  /\ \A u \in Vaults \ {v} : library'[u] = library[u]
  /\ RowChanged(library[v], library'[v], p)
  /\ LibraryOK(written', library'[v])

LEMMA EditedLibrary ==
  ASSUME IInv, NEW v \in Vaults, NEW p \in Prompts, OtherEdit(v, p)
  PROVE  /\ LibraryStep(v, p)
         /\ written \subseteq written' /\ written' \subseteq Prompts \X Bodies
<1>1. OfVaults(library) /\ LibraryOK(written, library[v]) /\ written \subseteq Prompts \X Bodies
  BY DEF IInv, Parts, RemoteOK, Vault, VaultOK
<1>2. CASE \E body \in Bodies :
             /\ written' = written \cup {<<p, body>>}
             /\ \/ p \notin DOMAIN library[v] /\ ~SlugTaken(v, SlugOf[p]) /\ NewRow(v, p, body)
                \/ p \in Visible(v) /\ AddBody(v, p, body)
  <2>1. PICK body \in Bodies :
             /\ written' = written \cup {<<p, body>>}
             /\ \/ p \notin DOMAIN library[v] /\ ~SlugTaken(v, SlugOf[p]) /\ NewRow(v, p, body)
                \/ p \in Visible(v) /\ AddBody(v, p, body)
    BY <1>2
  <2>2. /\ written \subseteq written' /\ <<p, body>> \in written'
        /\ written' \subseteq Prompts \X Bodies
    BY <1>1, <2>1
  <2>3. CASE ~SlugTaken(v, SlugOf[p]) /\ NewRow(v, p, body)
    BY <1>1, <2>2, <2>3, CreatedRow DEF LibraryStep
  <2>4. CASE p \in Visible(v) /\ AddBody(v, p, body)
    <3>1. p \in DOMAIN library[v]
      BY <2>4 DEF Visible
    <3> QED
      BY <1>1, <2>2, <2>4, <3>1, AddedBody DEF LibraryStep
  <2> QED
    BY <2>1, <2>2, <2>3, <2>4
<1>3. CASE /\ p \in DOMAIN library[v]
           /\ library' = [library EXCEPT ![v][p].trashed = ~@]
           /\ written' = written
  <2> DEFINE row2 == [library[v][p] EXCEPT !.trashed = ~@]
             lib2 == [library[v] EXCEPT ![p] = row2]
  <2>1. library' = [library EXCEPT ![v] = lib2]
    BY <1>3
  <2>2. /\ OfVaults(library') /\ \A u \in Vaults \ {v} : library'[u] = library[u]
        /\ library'[v] = lib2
    BY <1>1, <2>1 DEF OfVaults
  <2>3. /\ library[v] \in [DOMAIN library[v] -> Row] /\ library[v][p] \in Row
        /\ library[v][p].bodies # << >>
    BY <1>1, <1>3 DEF LibraryOK
  <2>4. row2 \in Row /\ row2.bodies = library[v][p].bodies
    BY <2>3 DEF Row
  <2>5. RowChanged(library[v], lib2, p) /\ lib2[p] = row2
    BY <1>3, <2>3 DEF RowChanged
  <2> HIDE DEF row2, lib2
  <2>6. \A b \in ToSet(lib2[p].bodies) : <<p, b>> \in written
    BY <1>1, <1>3, <2>4, <2>5 DEF LibraryOK
  <2>7. LibraryOK(written, lib2)
    BY <1>1, <1>3, <2>3, <2>4, <2>5, <2>6, RowKeepsLibrary
  <2> QED
    BY <1>1, <1>3, <2>2, <2>5, <2>7 DEF LibraryStep
<1> QED
  BY <1>2, <1>3 DEF OtherEdit

LEMMA TouchedCommand ==
  ASSUME IInv, NEW v \in Vaults, NEW p \in Prompts, LibraryStep(v, p), Touch(v, p),
         written \subseteq written'
  PROVE  /\ OfVaults(command')
         /\ \A u \in Vaults \ {v} : command'[u] = command[u]
         /\ CommandOK(written', library'[v], files[v], head[v], merging[v], command'[v])
<1>1. OfVaults(command)
  BY DEF IInv, Parts
<1>2. CommandOK(written, library[v], files[v], head[v], merging[v], command[v])
  BY DEF IInv, Vault, VaultOK
<1>3. RowChanged(library[v], library'[v], p)
  BY DEF LibraryStep
<1>4. CASE ~(At(v, "import") \/ At(v, "apply"))
  <2>1. command' = command
    BY <1>4 DEF Touch
  <2>2. ExportOK(written, files[v], head[v], command[v])
          => ExportOK(written', files[v], head[v], command[v])
    BY TreeGrows DEF ExportOK
  <2>3. command[v] = Idle \/ ExportOK(written, files[v], head[v], command[v])
    BY <1>2, <1>4 DEF CommandOK, At, ImportOK, ApplyOK, Importing, Applying
  <2> QED
    BY <1>1, <2>1, <2>2, <2>3 DEF CommandOK
<1>5. CASE At(v, "import") \/ At(v, "apply")
  <2> DEFINE cmd2 == [command[v] EXCEPT !.touched = @ \cup {p}]
  <2>1. command' = [command EXCEPT ![v] = cmd2]
    BY <1>5 DEF Touch
  <2>2. /\ OfVaults(command') /\ \A u \in Vaults \ {v} : command'[u] = command[u]
        /\ command'[v] = cmd2
    BY <1>1, <2>1 DEF OfVaults
  <2>3. \/ ImportOK(library[v], files[v], merging[v], command[v])
        \/ ApplyOK(library[v], files[v], merging[v], command[v])
    BY <1>2, <1>5 DEF CommandOK, At, Idle, ExportOK, Exporting
  <2>4. \/ ImportOK(library'[v], files[v], merging[v], cmd2)
        \/ ApplyOK(library'[v], files[v], merging[v], cmd2)
    BY <1>3, <2>3, ImportTouched, ApplyTouched
  <2> HIDE DEF cmd2
  <2> QED
    BY <2>2, <2>4 DEF CommandOK
<1> QED
  BY <1>4, <1>5

LEMMA EditStep ==
  ASSUME IInv, NEW v \in Vaults, NEW p \in Prompts, OtherEdit(v, p)
  PROVE  IInv'
<1>1. /\ LibraryStep(v, p)
      /\ written \subseteq written' /\ written' \subseteq Prompts \X Bodies
  BY EditedLibrary
<1>2. /\ OfVaults(command')
      /\ \A u \in Vaults \ {v} : command'[u] = command[u]
      /\ CommandOK(written', library'[v], files[v], head[v], merging[v], command'[v])
  BY <1>1, TouchedCommand DEF OtherEdit
<1>3. UNCHANGED <<files, head, known, ahead, merging, remote>>
  BY DEF OtherEdit, git
<1>4. Parts'
  BY <1>1, <1>2, <1>3 DEF IInv, Parts, LibraryStep, OfVaults
<1>5. RemoteOK'
  BY <1>1, <1>3, TreeGrows DEF IInv, RemoteOK
<1>6. Len(remote) \in Nat
  BY DEF IInv, RemoteOK
<1>7. VaultOK(written', Len(remote), library[v], files[v], head[v], known[v], merging[v], Idle)
  <2>1. VaultOK(written, Len(remote), library[v], files[v], head[v], known[v], merging[v], Idle)
    BY DEF IInv, Vault, VaultOK, CommandOK
  <2> QED
    BY <1>1, <1>6, <2>1, VaultGrows
<1>8. Vault(v)'
  BY <1>1, <1>2, <1>3, <1>7 DEF Vault, VaultOK, LibraryStep
<1>9. \A u \in Vaults \ {v} :
        /\ library'[u] = library[u] /\ files'[u] = files[u] /\ head'[u] = head[u]
        /\ known'[u] = known[u] /\ merging'[u] = merging[u] /\ command'[u] = command[u]
  BY <1>1, <1>2, <1>3 DEF LibraryStep
<1> QED
  BY <1>1, <1>3, <1>4, <1>5, <1>6, <1>8, <1>9, OneVault

-----------------------------------------------------------------------------
(* push *)

LEMMA CommandStep ==
  ASSUME IInv, NEW v \in Vaults, NEW cmd2, Run(v, cmd2),
         UNCHANGED <<library, files, git, remote, written>>,
         CommandOK(written, library[v], files[v], head[v], merging[v], cmd2)
  PROVE  IInv'
<1>1. /\ OfVaults(command') /\ command'[v] = cmd2
      /\ \A u \in Vaults \ {v} : command'[u] = command[u]
  BY DEF IInv, Parts, OfVaults, Run
<1>2. Parts'
  BY <1>1 DEF IInv, Parts, OfVaults, git
<1>3. Vault(v)'
  <2>1. VaultOK(written, Len(remote), library[v], files[v], head[v], known[v], merging[v], cmd2)
    BY DEF IInv, Vault, VaultOK
  <2> QED
    BY <1>1, <2>1 DEF Vault, git
<1> QED
  BY <1>1, <1>2, <1>3, OneVaultQuiet DEF git

LEMMA FilesStep ==
  ASSUME IInv, NEW v \in Vaults, NEW cmd2, Run(v, cmd2), NEW fs2, files' = Set(files, v, fs2),
         UNCHANGED <<library, git, remote, written>>,
         WorkOK(written, fs2), merging[v] = 0 => TreeOK(written, fs2),
         CommandOK(written, library[v], fs2, head[v], merging[v], cmd2)
  PROVE  IInv'
<1>1. /\ OfVaults(command') /\ command'[v] = cmd2
      /\ \A u \in Vaults \ {v} : command'[u] = command[u]
  BY DEF IInv, Parts, OfVaults, Run
<1>2. /\ OfVaults(files') /\ files'[v] = fs2
      /\ \A u \in Vaults \ {v} : files'[u] = files[u]
  BY DEF IInv, Parts, OfVaults, Set
<1>3. Parts'
  BY <1>1, <1>2 DEF IInv, Parts, OfVaults, git
<1>4. Vault(v)'
  <2>1. VaultOK(written, Len(remote), library[v], fs2, head[v], known[v], merging[v], cmd2)
    BY DEF IInv, Vault, VaultOK
  <2> QED
    BY <1>1, <1>2, <2>1 DEF Vault, git
<1> QED
  BY <1>1, <1>2, <1>3, <1>4, OneVaultQuiet DEF git

LEMMA TreeIsWork ==
  ASSUME NEW w, NEW tree, TreeOK(w, tree)
  PROVE  WorkOK(w, tree)
BY DEF TreeOK, WorkOK

LEMMA LastIsIn ==
  ASSUME NEW S, NEW s \in Seq(S), s # << >>
  PROVE  Last(s) \in S /\ Last(s) \in ToSet(s) /\ Len(s) \in Nat
<1>1. Len(s) \in Nat /\ Len(s) \in DOMAIN s /\ s[Len(s)] \in S
  OBVIOUS
<1> QED
  BY <1>1 DEF Last, ToSet

LEMMA ContentIsMine ==
  ASSUME NEW v \in Vaults, NEW w, LibraryOK(w, library[v]), NEW p \in Visible(v)
  PROVE  Mine(w, SlugOf[p], Content(v, p))
<1>1. p \in DOMAIN library[v] /\ p \in Prompts
  BY DEF Visible, LibraryOK
<1>2. library[v][p].bodies \in Seq(Bodies) /\ library[v][p].bodies # << >>
  BY <1>1 DEF LibraryOK, Row
<1>3. Latest(v, p) \in Bodies /\ Latest(v, p) \in ToSet(library[v][p].bodies)
      /\ Len(library[v][p].bodies) \in Nat
  BY <1>2, LastIsIn DEF Latest
<1>4. <<p, Latest(v, p)>> \in w
  BY <1>1, <1>3 DEF LibraryOK
<1> QED
  BY <1>1, <1>3, <1>4 DEF Mine, Content, Contents

(* The ids of an export are active prompts, each under its slug.           *)
LEMMA ExportIsTree ==
  ASSUME NEW v \in Vaults, NEW w, LibraryOK(w, library[v])
  PROVE  Export(v) \in Trees /\ TreeOK(w, Export(v))
<1>1. DOMAIN Export(v) = {SlugOf[p] : p \in Visible(v)}
  BY DEF Export
<1>2. DOMAIN Export(v) \subseteq Slugs
  BY <1>1, SlugsAssumption DEF Visible, LibraryOK, Slugs, Range
<1>3. ASSUME NEW s \in DOMAIN Export(v)
      PROVE  Mine(w, s, Export(v)[s])
  <2> DEFINE p == CHOOSE q \in Visible(v) : SlugOf[q] = s
  <2>1. p \in Visible(v) /\ SlugOf[p] = s
    BY <1>1
  <2>2. Export(v)[s] = Content(v, p)
    BY <1>1 DEF Export
  <2> HIDE DEF p
  <2> QED
    BY <2>1, <2>2, ContentIsMine
<1>4. Export(v) \in [DOMAIN Export(v) -> Contents]
  <2>1. Export(v) = [s \in DOMAIN Export(v) |-> Export(v)[s]]
    BY DEF Export
  <2> QED
    BY <1>3, <2>1 DEF Mine
<1> QED
  BY <1>2, <1>3, <1>4 DEF TreeOK, Trees

LEMMA BeginPushStep ==
  ASSUME IInv, NEW v \in Vaults, BeginPush(v)
  PROVE  IInv'
<1> DEFINE cmd2 == [at |-> "clear", listed |-> Export(v), todo |-> DOMAIN Export(v)]
<1>1. LibraryOK(written, library[v])
  BY DEF IInv, Vault, VaultOK
<1>2. Export(v) \in Trees /\ TreeOK(written, Export(v))
  BY <1>1, ExportIsTree
<1>3. DOMAIN Export(v) \subseteq Slugs
  BY <1>2 DEF TreeOK
<1>4. /\ cmd2.at = "clear" /\ cmd2.listed = Export(v) /\ cmd2.todo = DOMAIN Export(v)
      /\ cmd2 \in Exporting
  BY <1>2, <1>3 DEF Exporting
<1>5. Run(v, cmd2) /\ UNCHANGED <<library, files, git, remote, written>>
  BY DEF BeginPush
<1> HIDE DEF cmd2
<1>6. ExportOK(written, files[v], head[v], cmd2)
  BY <1>2, <1>4 DEF ExportOK
<1> QED
  BY <1>5, <1>6, CommandStep DEF CommandOK

LEMMA Pushing ==
  ASSUME IInv, NEW v \in Vaults, At(v, "clear") \/ At(v, "write") \/ At(v, "send")
  PROVE  ExportOK(written, files[v], head[v], command[v])
<1>1. CommandOK(written, library[v], files[v], head[v], merging[v], command[v])
  BY DEF IInv, Vault, VaultOK
<1> QED
  BY <1>1 DEF CommandOK, At, Idle, ImportOK, ApplyOK, Importing, Applying

LEMMA ClearStep ==
  ASSUME IInv, NEW v \in Vaults, ClearPromptsDir(v)
  PROVE  IInv'
<1> DEFINE cmd2 == [command[v] EXCEPT !.at = "write"]
<1>1. ExportOK(written, files[v], head[v], command[v]) /\ command[v].at = "clear"
  BY Pushing DEF ClearPromptsDir, At
<1>2. /\ cmd2.at = "write" /\ cmd2.listed = command[v].listed /\ cmd2.todo = command[v].todo
      /\ cmd2 \in Exporting
  BY <1>1 DEF ExportOK, Exporting
<1>3. /\ Run(v, cmd2) /\ files' = Set(files, v, Empty)
      /\ UNCHANGED <<library, git, remote, written>>
  BY DEF ClearPromptsDir
<1> HIDE DEF cmd2
<1>4. DOMAIN Empty = {}
  BY DEF Empty
<1>5. TreeOK(written, Empty) /\ WorkOK(written, Empty)
  BY <1>4 DEF TreeOK, WorkOK, Empty
<1>6. ExportOK(written, Empty, head[v], cmd2)
  BY <1>1, <1>2, <1>4 DEF ExportOK
<1> QED
  BY <1>3, <1>5, <1>6, FilesStep DEF CommandOK

LEMMA WriteStep ==
  ASSUME IInv, NEW v \in Vaults, WriteFile(v)
  PROVE  IInv'
<1>1. ExportOK(written, files[v], head[v], command[v]) /\ command[v].at = "write"
  BY Pushing DEF WriteFile, At
<1>2. PICK s \in command[v].todo :
        /\ files' = Set(files, v, [t \in DOMAIN files[v] \cup {s} |->
                                    IF t = s THEN command[v].listed[s] ELSE files[v][t]])
        /\ Run(v, [command[v] EXCEPT !.todo = @ \ {s}])
  BY DEF WriteFile
<1> DEFINE tree == command[v].listed
           fs2 == [t \in DOMAIN files[v] \cup {s} |-> IF t = s THEN tree[s] ELSE files[v][t]]
           cmd2 == [command[v] EXCEPT !.todo = @ \ {s}]
<1>3. /\ cmd2.at = "write" /\ cmd2.listed = tree /\ cmd2.todo = command[v].todo \ {s}
      /\ cmd2 \in Exporting
  BY <1>1 DEF ExportOK, Exporting
<1>4. /\ DOMAIN files[v] = DOMAIN tree \ command[v].todo
      /\ \A t \in DOMAIN files[v] : files[v][t] = tree[t]
      /\ command[v].todo \subseteq DOMAIN tree
      /\ TreeOK(written, tree)
  BY <1>1 DEF ExportOK
<1>5. /\ fs2 = [t \in DOMAIN fs2 |-> fs2[t]]
      /\ DOMAIN fs2 = {s} \cup DOMAIN files[v]
      /\ \A t \in DOMAIN fs2 : fs2[t] = IF t = s THEN tree[s] ELSE files[v][t]
  OBVIOUS
<1>6. /\ Run(v, cmd2) /\ files' = Set(files, v, fs2)
      /\ UNCHANGED <<library, git, remote, written>>
  BY <1>2 DEF WriteFile
<1> HIDE DEF cmd2, fs2, tree
<1>7. DOMAIN fs2 = DOMAIN tree \ cmd2.todo /\ \A t \in DOMAIN fs2 : fs2[t] = tree[t]
  BY <1>3, <1>4, <1>5
<1>8. TreeOK(written, fs2)
  BY <1>4, <1>5, <1>7 DEF TreeOK
<1>9. ExportOK(written, fs2, head[v], cmd2)
  BY <1>3, <1>4, <1>7 DEF ExportOK
<1> QED
  BY <1>6, <1>8, <1>9, FilesStep, TreeIsWork DEF CommandOK

(* The commit is where the directory has become the export: whatever it    *)
(* held before, by a crash or by a merge, is gone.                         *)
LEMMA WrittenIsListed ==
  ASSUME IInv, NEW v \in Vaults, At(v, "write"), command[v].todo = {}
  PROVE  files[v] = command[v].listed
<1>1. ExportOK(written, files[v], head[v], command[v]) /\ command[v].at = "write"
  BY Pushing DEF At
<1>2. /\ DOMAIN files[v] = DOMAIN command[v].listed
      /\ \A t \in DOMAIN files[v] : files[v][t] = command[v].listed[t]
  BY <1>1 DEF ExportOK
<1>3. files[v] = [t \in DOMAIN files[v] |-> files[v][t]]
  BY DEF IInv, Vault, VaultOK, WorkOK
<1>4. command[v].listed = [t \in DOMAIN command[v].listed |-> command[v].listed[t]]
  BY <1>1 DEF ExportOK, TreeOK
<1> QED
  BY <1>2, <1>3, <1>4

LEMMA CommitStep ==
  ASSUME IInv, NEW v \in Vaults, Commit(v)
  PROVE  IInv'
<1> DEFINE cmd2 == [command[v] EXCEPT !.at = "send"]
<1>1. ExportOK(written, files[v], head[v], command[v]) /\ command[v].at = "write"
  BY Pushing DEF Commit, At
<1>2. files[v] = command[v].listed
  BY WrittenIsListed DEF Commit
<1>3. /\ cmd2.at = "send" /\ cmd2.listed = command[v].listed
      /\ cmd2 \in Exporting
  BY <1>1 DEF ExportOK, Exporting
<1>4. Run(v, cmd2)
  BY DEF Commit
<1> HIDE DEF cmd2
<1>5. TreeOK(written, files[v])
  BY <1>1, <1>2 DEF ExportOK
<1>6. CommandOK(written, library[v], files[v], files[v], 0, cmd2)
      /\ CommandOK(written, library[v], files[v], files[v], merging[v], cmd2)
  BY <1>2, <1>3, <1>5 DEF CommandOK, ExportOK
<1>7. CASE files[v] = head[v]
  BY <1>4, <1>6, <1>7, CommandStep DEF Commit
<1>8. CASE files[v] # head[v]
  <2>1. /\ head' = Set(head, v, files[v])
        /\ ahead' = Set(ahead, v, TRUE)
        /\ known' = IF merging[v] > 0 THEN Set(known, v, merging[v]) ELSE known
        /\ merging' = Set(merging, v, 0)
        /\ UNCHANGED <<library, files, remote, written>>
    BY <1>8 DEF Commit
  <2>2. /\ OfVaults(command') /\ command'[v] = cmd2
        /\ \A u \in Vaults \ {v} : command'[u] = command[u]
    BY <1>4 DEF IInv, Parts, OfVaults, Run
  <2>3. /\ OfVaults(head') /\ head'[v] = files[v]
        /\ \A u \in Vaults \ {v} : head'[u] = head[u]
    BY <2>1 DEF IInv, Parts, OfVaults, Set
  <2>4. /\ OfVaults(merging') /\ merging'[v] = 0
        /\ \A u \in Vaults \ {v} : merging'[u] = merging[u]
    BY <2>1 DEF IInv, Parts, OfVaults, Set
  <2>5. /\ OfVaults(known')
        /\ known'[v] = IF merging[v] > 0 THEN merging[v] ELSE known[v]
        /\ \A u \in Vaults \ {v} : known'[u] = known[u]
    BY <2>1 DEF IInv, Parts, OfVaults, Set
  <2>6. OfVaults(ahead')
    BY <2>1 DEF IInv, Parts, OfVaults, Set
  <2>7. Parts'
    BY <2>1, <2>2, <2>3, <2>4, <2>5, <2>6 DEF IInv, Parts, OfVaults
  <2>8. known'[v] \in 1..Len(remote) /\ 0 \in 0..Len(remote)
    BY <2>5 DEF IInv, Vault, VaultOK, RemoteOK
  <2>9. VaultOK(written, Len(remote), library[v], files[v], files[v], known'[v], 0, cmd2)
    BY <1>5, <1>6, <2>8 DEF IInv, Vault, VaultOK
  <2>10. Vault(v)'
    BY <2>1, <2>2, <2>3, <2>4, <2>9 DEF Vault
  <2> QED
    BY <2>1, <2>2, <2>3, <2>4, <2>5, <2>7, <2>10, OneVaultQuiet
<1> QED
  BY <1>7, <1>8

LEMMA SendStep ==
  ASSUME IInv, NEW v \in Vaults, Send(v)
  PROVE  IInv'
<1>1. Run(v, Idle) /\ UNCHANGED <<library, files, written>>
  BY DEF Send
<1>2. CASE ~(known[v] = Len(remote) /\ ahead[v])
  <2>1. UNCHANGED <<library, files, git, remote, written>>
    BY <1>1, <1>2 DEF Send, git
  <2> QED
    BY <1>1, <2>1, CommandStep DEF CommandOK
<1>3. CASE known[v] = Len(remote) /\ ahead[v]
  <2>1. /\ remote' = Append(remote, head[v])
        /\ known' = Set(known, v, Len(remote'))
        /\ ahead' = Set(ahead, v, FALSE)
        /\ UNCHANGED <<head, merging>>
    BY <1>3 DEF Send
  <2>2. TreeOK(written, head[v]) /\ head[v] \in Trees
    BY DEF IInv, Vault, VaultOK, TreeOK, Trees
  <2>3. remote \in Seq(Trees)
    BY DEF IInv, RemoteOK
  <2>4. /\ remote' \in Seq(Trees) /\ Len(remote') = Len(remote) + 1 /\ Len(remote) \in Nat
        /\ \A i \in 1..Len(remote') : remote'[i] = IF i = Len(remote') THEN head[v] ELSE remote[i]
    BY <2>1, <2>2, <2>3
  <2>5. RemoteOK'
    BY <1>1, <2>2, <2>4 DEF IInv, RemoteOK
  <2>6. /\ OfVaults(command') /\ command'[v] = Idle
        /\ \A u \in Vaults \ {v} : command'[u] = command[u]
    BY <1>1 DEF IInv, Parts, OfVaults, Run
  <2>7. /\ OfVaults(known') /\ known'[v] = Len(remote')
        /\ \A u \in Vaults \ {v} : known'[u] = known[u]
    BY <2>1 DEF IInv, Parts, OfVaults, Set
  <2>8. OfVaults(ahead')
    BY <2>1 DEF IInv, Parts, OfVaults, Set
  <2>9. Parts'
    BY <1>1, <2>1, <2>6, <2>7, <2>8 DEF IInv, Parts, OfVaults
  <2>10. VaultOK(written, Len(remote'), library[v], files[v], head[v], Len(remote'), merging[v],
                 Idle)
    <3>1. Len(remote') \in 1..Len(remote')
      BY <2>4
    <3>2. merging[v] \in 0..Len(remote')
      BY <2>4 DEF IInv, Vault, VaultOK
    <3> QED
      BY <3>1, <3>2 DEF IInv, Vault, VaultOK, CommandOK
  <2>11. Vault(v)'
    BY <1>1, <2>1, <2>6, <2>7, <2>10 DEF Vault
  <2>12. Len(remote) <= Len(remote') /\ written \subseteq written'
    BY <1>1, <2>4
  <2>13. \A u \in Vaults \ {v} :
          /\ library'[u] = library[u] /\ files'[u] = files[u] /\ head'[u] = head[u]
          /\ known'[u] = known[u] /\ merging'[u] = merging[u] /\ command'[u] = command[u]
    BY <1>1, <2>1, <2>6, <2>7
  <2> QED
    BY <2>5, <2>9, <2>11, <2>12, <2>13, OneVault
<1> QED
  BY <1>2, <1>3

-----------------------------------------------------------------------------
(* pull *)

(* A tree put together of entries that are right has right entries.        *)
LEMMA EntriesTree ==
  ASSUME NEW w, NEW e, \A s \in Slugs : \A c \in e[s] : Mine(w, s, c) \/ c = Conflict
  PROVE  /\ WorkOK(w, Tree(e))
         /\ (\A s \in DOMAIN Tree(e) : Tree(e)[s] # Conflict) => TreeOK(w, Tree(e))
<1>1. DOMAIN Tree(e) = {t \in Slugs : e[t] # {}} /\ Tree(e) = [s \in DOMAIN Tree(e) |-> Tree(e)[s]]
  BY DEF Tree
<1>2. \A s \in DOMAIN Tree(e) : Mine(w, s, Tree(e)[s]) \/ Tree(e)[s] = Conflict
  <2>1. TAKE s \in DOMAIN Tree(e)
  <2>2. s \in Slugs /\ e[s] # {} /\ Tree(e)[s] = CHOOSE c \in e[s] : TRUE
    BY <1>1 DEF Tree
  <2>3. Tree(e)[s] \in e[s]
    BY <2>2
  <2> QED
    BY <2>2, <2>3
<1>3. WorkOK(w, Tree(e))
  BY <1>1, <1>2 DEF WorkOK, Mine
<1>4. ASSUME \A s \in DOMAIN Tree(e) : Tree(e)[s] # Conflict
      PROVE  TreeOK(w, Tree(e))
  <2>1. \A s \in DOMAIN Tree(e) : Mine(w, s, Tree(e)[s])
    BY <1>2, <1>4
  <2> QED
    BY <1>1, <2>1 DEF TreeOK, Mine
<1> QED
  BY <1>3, <1>4

LEMMA EntryIs ==
  ASSUME NEW w, NEW tree, NEW s
  PROVE  /\ TreeOK(w, tree) => \A c \in Entry(tree, s) : Mine(w, s, c)
         /\ WorkOK(w, tree) => \A c \in Entry(tree, s) : Mine(w, s, c) \/ c = Conflict
BY DEF Entry, TreeOK, WorkOK

LEMMA MergedTree ==
  ASSUME IInv, NEW v \in Vaults
  PROVE  /\ WorkOK(written, Tree(Merged(v)))
         /\ Conflict \notin Range(Tree(Merged(v))) => TreeOK(written, Tree(Merged(v)))
<1>1. /\ TreeOK(written, head[v]) /\ known[v] \in 1..Len(remote)
      /\ remote \in Seq(Trees)
      /\ \A i \in 1..Len(remote) : TreeOK(written, remote[i])
  BY DEF IInv, Vault, VaultOK, RemoteOK
<1>2. TreeOK(written, remote[known[v]])
  BY <1>1
<1>3. TreeOK(written, Tip)
  <2>1. Len(remote) \in 1..Len(remote)
    BY <1>1
  <2> QED
    BY <1>1, <2>1 DEF Tip, Last
<1>4. ASSUME NEW s \in Slugs, NEW c \in Merged(v)[s]
      PROVE  Mine(written, s, c) \/ c = Conflict
  <2>1. /\ \A d \in Entry(head[v], s) : Mine(written, s, d)
        /\ \A d \in Entry(Tip, s) : Mine(written, s, d)
    BY <1>1, <1>3, EntryIs
  <2>2. Merged(v)[s] \in {Entry(head[v], s), Entry(Tip, s), {Conflict}}
    BY DEF Merged
  <2> QED
    BY <1>4, <2>1, <2>2
<1>5. WorkOK(written, Tree(Merged(v)))
      /\ ((\A s \in DOMAIN Tree(Merged(v)) : Tree(Merged(v))[s] # Conflict)
            => TreeOK(written, Tree(Merged(v))))
  BY <1>4, EntriesTree
<1> QED
  BY <1>5 DEF Range

LEMMA UpdatedTree ==
  ASSUME NEW w, NEW v, NEW tree, WorkOK(w, tree), WorkOK(w, files[v])
  PROVE  /\ WorkOK(w, Updated(v, tree))
         /\ TreeOK(w, tree) /\ TreeOK(w, files[v]) => TreeOK(w, Updated(v, tree))
<1> DEFINE e == [s \in Slugs |-> IF Entry(tree, s) # Entry(head[v], s) THEN Entry(tree, s)
                                 ELSE Entry(files[v], s)]
<1>1. Updated(v, tree) = Tree(e)
  BY DEF Updated
<1>2. \A s \in Slugs : e[s] = Entry(tree, s) \/ e[s] = Entry(files[v], s)
  OBVIOUS
<1> HIDE DEF e
<1>3. \A s \in Slugs : \A c \in e[s] : Mine(w, s, c) \/ c = Conflict
  BY <1>2, EntryIs
<1>4. WorkOK(w, Tree(e))
  BY <1>3, EntriesTree
<1>5. ASSUME TreeOK(w, tree), TreeOK(w, files[v])
      PROVE  TreeOK(w, Tree(e))
  <2>1. \A s \in Slugs : \A c \in e[s] : Mine(w, s, c)
    BY <1>2, <1>5, EntryIs
  <2>2. DOMAIN Tree(e) = {t \in Slugs : e[t] # {}} /\ Tree(e) = [s \in DOMAIN Tree(e) |-> Tree(e)[s]]
    BY DEF Tree
  <2>3. \A s \in DOMAIN Tree(e) : Tree(e)[s] \in e[s]
    BY <2>2 DEF Tree
  <2>4. \A s \in DOMAIN Tree(e) : Mine(w, s, Tree(e)[s])
    BY <2>1, <2>2, <2>3
  <2> QED
    BY <2>2, <2>4 DEF TreeOK, Mine
<1> QED
  BY <1>1, <1>4, <1>5

(* An import begins with all files to be read.                             *)
LEMMA ImportBegins ==
  ASSUME NEW w, NEW lib, NEW fs, NEW hd, TreeOK(w, fs) \/ WorkOK(w, fs)
  PROVE  CommandOK(w, lib, fs, hd, 0, [at |-> "import", todo |-> DOMAIN fs, touched |-> {}])
<1> DEFINE cmd == [at |-> "import", todo |-> DOMAIN fs, touched |-> {}]
<1>1. DOMAIN fs \subseteq Slugs
  BY DEF TreeOK, WorkOK
<1>2. cmd \in Importing /\ cmd.todo = DOMAIN fs
  BY <1>1 DEF Importing
<1> HIDE DEF cmd
<1>3. ImportOK(lib, fs, 0, cmd)
  BY <1>2 DEF ImportOK
<1>4. CommandOK(w, lib, fs, hd, 0, cmd)
  BY <1>3 DEF CommandOK
<1> QED
  BY <1>4 DEF cmd

LEMMA PullStep ==
  ASSUME IInv, NEW v \in Vaults, GitPull(v)
  PROVE  IInv'
<1> DEFINE tree == Tree(Merged(v))
<1>1. WorkOK(written, tree) /\ (Conflict \notin Range(tree) => TreeOK(written, tree))
  BY MergedTree
<1>2. /\ WorkOK(written, files[v]) /\ (merging[v] = 0 => TreeOK(written, files[v]))
      /\ Len(remote) \in Nat /\ Len(remote) \in 1..Len(remote) /\ 0 \in 0..Len(remote)
  BY DEF IInv, Vault, VaultOK, RemoteOK
<1>3. /\ WorkOK(written, Updated(v, tree))
      /\ TreeOK(written, tree) /\ TreeOK(written, files[v])
           => TreeOK(written, Updated(v, tree))
  BY <1>1, <1>2, UpdatedTree
<1>4. UNCHANGED <<library, remote, written>>
  BY DEF GitPull
<1> HIDE DEF tree
<1>5. CASE Run(v, Idle) /\ NoGitChange(v)
  BY <1>4, <1>5, CommandStep DEF NoGitChange, CommandOK
<1>6. CASE merging[v] = 0 /\ BeginImport(v, files[v]) /\ NoGitChange(v)
  <2>1. CommandOK(written, library[v], files[v], head[v], merging[v],
                  [at |-> "import", todo |-> DOMAIN files[v], touched |-> {}])
    BY <1>2, <1>6, ImportBegins
  <2> QED
    BY <1>4, <1>6, <2>1, CommandStep DEF NoGitChange, BeginImport
<1>7. CASE /\ files' = Set(files, v, Updated(v, tree))
           /\ merging' = Set(merging, v, Len(remote))
           /\ Run(v, Idle)
           /\ UNCHANGED <<head, known, ahead>>
  <2>1. /\ OfVaults(command') /\ command'[v] = Idle
        /\ \A u \in Vaults \ {v} : command'[u] = command[u]
    BY <1>7 DEF IInv, Parts, OfVaults, Run
  <2>2. /\ OfVaults(files') /\ files'[v] = Updated(v, tree)
        /\ \A u \in Vaults \ {v} : files'[u] = files[u]
    BY <1>7 DEF IInv, Parts, OfVaults, Set
  <2>3. /\ OfVaults(merging') /\ merging'[v] = Len(remote)
        /\ \A u \in Vaults \ {v} : merging'[u] = merging[u]
    BY <1>7 DEF IInv, Parts, OfVaults, Set
  <2>4. Parts'
    BY <1>4, <1>7, <2>1, <2>2, <2>3 DEF IInv, Parts, OfVaults
  <2>5. VaultOK(written, Len(remote), library[v], Updated(v, tree), head[v], known[v],
                Len(remote), Idle)
    BY <1>2, <1>3 DEF IInv, Vault, VaultOK, CommandOK
  <2>6. Vault(v)'
    BY <1>4, <1>7, <2>1, <2>2, <2>3, <2>5 DEF Vault
  <2> QED
    BY <1>4, <1>7, <2>1, <2>2, <2>3, <2>4, <2>6, OneVaultQuiet
<1>8. CASE /\ merging[v] = 0
           /\ Conflict \notin Range(tree)
           /\ files' = Set(files, v, Updated(v, tree))
           /\ head' = Set(head, v, tree)
           /\ known' = Set(known, v, Len(remote))
           /\ BeginImport(v, files'[v])
           /\ UNCHANGED <<ahead, merging>>
  <2> DEFINE fs2 == Updated(v, tree)
             cmd2 == [at |-> "import", todo |-> DOMAIN fs2, touched |-> {}]
  <2>1. /\ OfVaults(files') /\ files'[v] = fs2
        /\ \A u \in Vaults \ {v} : files'[u] = files[u]
    BY <1>8 DEF IInv, Parts, OfVaults, Set
  <2>2. Run(v, cmd2)
    BY <1>8, <2>1 DEF BeginImport
  <2>3. WorkOK(written, fs2) /\ TreeOK(written, fs2) /\ TreeOK(written, tree)
    BY <1>1, <1>2, <1>3, <1>8
  <2>4. CommandOK(written, library[v], fs2, tree, 0, cmd2)
    BY <2>3, ImportBegins
  <2> HIDE DEF fs2, cmd2
  <2>5. /\ OfVaults(command') /\ command'[v] = cmd2
        /\ \A u \in Vaults \ {v} : command'[u] = command[u]
    BY <2>2 DEF IInv, Parts, OfVaults, Run
  <2>6. /\ OfVaults(head') /\ head'[v] = tree
        /\ \A u \in Vaults \ {v} : head'[u] = head[u]
    BY <1>8 DEF IInv, Parts, OfVaults, Set
  <2>7. /\ OfVaults(known') /\ known'[v] = Len(remote)
        /\ \A u \in Vaults \ {v} : known'[u] = known[u]
    BY <1>8 DEF IInv, Parts, OfVaults, Set
  <2>8. Parts'
    BY <1>4, <1>8, <2>1, <2>5, <2>6, <2>7 DEF IInv, Parts, OfVaults
  <2>9. VaultOK(written, Len(remote), library[v], fs2, tree, Len(remote), merging[v], cmd2)
    BY <1>2, <1>8, <2>3, <2>4 DEF IInv, Vault, VaultOK
  <2>10. Vault(v)'
    BY SMTT(60), <1>4, <1>8, <2>1, <2>5, <2>6, <2>7, <2>9 DEF Vault
  <2> QED
    BY <1>4, <1>8, <2>1, <2>5, <2>6, <2>7, <2>8, <2>10, OneVaultQuiet
<1> QED
  BY <1>5, <1>6, <1>7, <1>8 DEF GitPull, tree

LEMMA Pulling ==
  ASSUME IInv, NEW v \in Vaults
  PROVE  /\ At(v, "import") => ImportOK(library[v], files[v], merging[v], command[v])
         /\ At(v, "apply") => ApplyOK(library[v], files[v], merging[v], command[v])
<1>1. CommandOK(written, library[v], files[v], head[v], merging[v], command[v])
  BY DEF IInv, Vault, VaultOK
<1> QED
  BY <1>1 DEF CommandOK, At, Idle, ExportOK, Exporting, ImportOK, ApplyOK, Importing, Applying

LEMMA ReadStep ==
  ASSUME IInv, NEW v \in Vaults, ReadFile(v)
  PROVE  IInv'
<1>1. ImportOK(library[v], files[v], merging[v], command[v]) /\ command[v].at = "import"
  BY Pulling DEF ReadFile, At
<1>2. UNCHANGED <<library, files, git, remote, written>>
  BY DEF ReadFile
<1> DEFINE Rest(s) == [command[v] EXCEPT !.todo = @ \ {s}]
           Apply(s, found) ==
             [at |-> "apply", todo |-> Rest(s).todo, touched |-> Rest(s).touched,
              content |-> files[v][s], found |-> found]
<1>3. PICK s \in command[v].todo :
        Run(v, IF files[v][s].id \notin Visible(v) THEN Apply(s, FALSE)
               ELSE IF Latest(v, files[v][s].id) = files[v][s].body THEN Rest(s)
               ELSE Apply(s, TRUE))
  BY DEF ReadFile
<1> DEFINE rest == Rest(s)
           c == files[v][s]
<1>4. /\ rest \in Importing /\ rest.todo = command[v].todo \ {s}
      /\ rest.touched = command[v].touched
  BY <1>1 DEF ImportOK, Importing
<1>5. s \in DOMAIN files[v] /\ TreeOK(written, files[v])
  BY <1>1 DEF ImportOK, IInv, Vault, VaultOK
<1>6. c \in Contents
  BY <1>5 DEF TreeOK
<1> HIDE DEF c
<1>7. CASE c.id \in Visible(v) /\ Latest(v, c.id) = c.body /\ Run(v, rest)
  <2>1. InLibrary(library[v], rest.touched, c)
    BY <1>7 DEF InLibrary, Visible, Latest
  <2> HIDE DEF rest, Rest
  <2>2. \A t \in DOMAIN files[v] :
          t \in rest.todo \/ InLibrary(library[v], rest.touched, files[v][t])
    BY <1>1, <1>4, <2>1 DEF ImportOK, c
  <2>3. ImportOK(library[v], files[v], merging[v], rest)
    BY <1>1, <1>4, <2>2 DEF ImportOK
  <2> QED
    BY <1>2, <1>7, <2>3, CommandStep DEF CommandOK
<1>8. ASSUME NEW found \in BOOLEAN, Run(v, Apply(s, found))
      PROVE  IInv'
  <2> DEFINE cmd2 == Apply(s, found)
  <2>1. /\ cmd2 \in Applying /\ cmd2.todo = command[v].todo \ {s}
        /\ cmd2.touched = command[v].touched /\ cmd2.content = c
    BY <1>4, <1>6 DEF Applying, Importing, c
  <2> HIDE DEF cmd2, Apply, rest, Rest
  <2>2. \E t \in DOMAIN files[v] : files[v][t] = cmd2.content
    BY <1>5, <2>1 DEF c
  <2>3. \A t \in DOMAIN files[v] :
          \/ t \in cmd2.todo \/ files[v][t] = cmd2.content
          \/ InLibrary(library[v], cmd2.touched, files[v][t])
    BY <1>1, <2>1 DEF ImportOK, c
  <2>4. ApplyOK(library[v], files[v], merging[v], cmd2)
    BY <1>1, <2>1, <2>2, <2>3 DEF ImportOK, ApplyOK
  <2>5. Run(v, cmd2)
    BY <1>8 DEF cmd2
  <2> QED
    BY <1>2, <2>4, <2>5, CommandStep DEF CommandOK
<1>9. \/ c.id \in Visible(v) /\ Latest(v, c.id) = c.body /\ Run(v, rest)
      \/ Run(v, Apply(s, FALSE)) \/ Run(v, Apply(s, TRUE))
  BY <1>3 DEF c
<1> QED
  BY <1>7, <1>8, <1>9

(* A version that was added or created is the latest one of its prompt,    *)
(* and no other file is about this prompt.                                 *)
LEMMA ImportGoesOn ==
  ASSUME IInv, NEW v \in Vaults,
         ApplyOK(library[v], files[v], merging[v], command[v]),
         NEW lib2, RowChanged(library[v], lib2, command[v].content.id),
         ~lib2[command[v].content.id].trashed,
         Last(lib2[command[v].content.id].bodies) = command[v].content.body
  PROVE  ImportOK(lib2, files[v], merging[v], NextFile(v))
<1> DEFINE c == command[v].content
           next == NextFile(v)
<1>1. /\ next \in Importing /\ next.todo = command[v].todo
      /\ next.touched = command[v].touched
  BY DEF NextFile, ApplyOK, Applying, Importing
<1>2. TreeOK(written, files[v]) /\ merging[v] = 0 /\ command[v].todo \subseteq DOMAIN files[v]
  BY DEF ApplyOK, IInv, Vault, VaultOK
<1>3. PICK s0 \in DOMAIN files[v] : files[v][s0] = c
  BY DEF ApplyOK
<1> HIDE DEF next
<1>4. InLibrary(lib2, next.touched, c)
  BY DEF InLibrary, RowChanged
<1>5. ASSUME NEW s \in DOMAIN files[v], s \notin next.todo
      PROVE  InLibrary(lib2, next.touched, files[v][s])
  <2>1. CASE files[v][s].id = c.id
    <3>1. s = s0
      BY ZenonT(60), <1>2, <1>3, <2>1 DEF TreeOK, Mine
    <3> QED
      BY <1>3, <1>4, <3>1
  <2>2. CASE files[v][s].id # c.id
    <3>1. InLibrary(library[v], command[v].touched, files[v][s])
      BY <1>1, <1>5, <2>2 DEF ApplyOK
    <3> QED
      BY <1>1, <2>2, <3>1 DEF InLibrary, RowChanged
  <2> QED
    BY <2>1, <2>2
<1>6. ImportOK(lib2, files[v], merging[v], next)
  BY <1>1, <1>2, <1>5 DEF ImportOK
<1> QED
  BY <1>6 DEF next

LEMMA ApplyStep ==
  ASSUME IInv, NEW v \in Vaults, ApplyFile(v)
  PROVE  IInv'
<1> DEFINE c == command[v].content
<1>1. ApplyOK(library[v], files[v], merging[v], command[v])
  BY Pulling DEF ApplyFile
<1>2. UNCHANGED <<files, git, remote, written>>
  BY DEF ApplyFile
<1>3. /\ OfVaults(library) /\ LibraryOK(written, library[v])
      /\ TreeOK(written, files[v])
  BY <1>1 DEF IInv, Parts, Vault, VaultOK, ApplyOK
<1>4. c.id \in Prompts /\ c.body \in Bodies /\ <<c.id, c.body>> \in written
  <2>1. PICK s \in DOMAIN files[v] : files[v][s] = c
    BY <1>1 DEF ApplyOK
  <2>2. c \in Contents /\ <<c.id, c.body>> \in written
    BY <1>3, <2>1 DEF TreeOK, Mine
  <2> HIDE DEF c
  <2> QED
    BY <2>2 DEF Contents
<1>5. \/ /\ c.id \in Visible(v) /\ AddBody(v, c.id, c.body)
         /\ Run(v, NextFile(v))
      \/ Run(v, Idle) /\ UNCHANGED library
      \/ /\ ~SlugTaken(v, SlugOf[c.id]) /\ NewRow(v, c.id, c.body)
         /\ Run(v, NextFile(v))
  BY DEF ApplyFile
<1>6. CASE Run(v, Idle) /\ UNCHANGED library
  BY <1>2, <1>6, CommandStep DEF CommandOK
<1>7. ASSUME LibraryStep(v, c.id), Run(v, NextFile(v)), ~library'[v][c.id].trashed,
             Last(library'[v][c.id].bodies) = c.body
      PROVE  IInv'
  <2>1. ImportOK(library'[v], files[v], merging[v], NextFile(v))
    BY <1>1, <1>7, ImportGoesOn DEF LibraryStep
  <2>2. /\ OfVaults(command') /\ command'[v] = NextFile(v)
        /\ \A u \in Vaults \ {v} : command'[u] = command[u]
    BY <1>7 DEF IInv, Parts, OfVaults, Run
  <2>3. Parts'
    BY <1>2, <1>7, <2>2 DEF IInv, Parts, OfVaults, LibraryStep, git
  <2>4. VaultOK(written, Len(remote), library'[v], files[v], head[v], known[v], merging[v],
                NextFile(v))
    BY <1>2, <1>7, <2>1 DEF IInv, Vault, VaultOK, LibraryStep, CommandOK
  <2>5. Vault(v)'
    BY <1>2, <2>2, <2>4 DEF Vault, git
  <2>6. \A u \in Vaults \ {v} : library'[u] = library[u]
    BY <1>7 DEF LibraryStep
  <2> QED
    BY SMTT(60), <1>2, <2>2, <2>3, <2>5, <2>6, OneVaultQuiet DEF git
<1>8. CASE /\ c.id \in Visible(v) /\ AddBody(v, c.id, c.body)
           /\ Run(v, NextFile(v))
  <2>1. c.id \in DOMAIN library[v] /\ ~library[v][c.id].trashed
    BY <1>8 DEF Visible
  <2> HIDE DEF c
  <2>2. /\ LibraryStep(v, c.id)
        /\ library'[v][c.id].trashed = library[v][c.id].trashed
        /\ Last(library'[v][c.id].bodies) = c.body
    BY <1>2, <1>3, <1>4, <1>8, <2>1, AddedBody DEF LibraryStep
  <2> QED
    BY <1>7, <1>8, <2>1, <2>2
<1>9. CASE /\ ~SlugTaken(v, SlugOf[c.id]) /\ NewRow(v, c.id, c.body)
           /\ Run(v, NextFile(v))
  <2> HIDE DEF c
  <2>1. /\ LibraryStep(v, c.id)
        /\ ~library'[v][c.id].trashed
        /\ Last(library'[v][c.id].bodies) = c.body
    BY <1>2, <1>3, <1>4, <1>9, CreatedRow DEF LibraryStep
  <2> QED
    BY <1>7, <1>9, <2>1
<1> QED
  BY <1>5, <1>6, <1>8, <1>9

LEMMA CrashStep ==
  ASSUME IInv, NEW v \in Vaults, Crash(v)
  PROVE  IInv'
<1>1. Run(v, Idle) /\ UNCHANGED <<library, git, remote, written>>
  BY DEF Crash
<1>2. CASE ~At(v, "clear")
  <2>1. UNCHANGED files
    BY <1>2 DEF Crash
  <2> QED
    BY <1>1, <2>1, CommandStep DEF CommandOK
<1>3. CASE At(v, "clear")
  <2>1. PICK kept \in SUBSET DOMAIN files[v] :
          files' = Set(files, v, [s \in kept |-> files[v][s]])
    BY <1>3 DEF Crash
  <2> DEFINE fs2 == [s \in kept |-> files[v][s]]
  <2>2. WorkOK(written, files[v]) /\ (merging[v] = 0 => TreeOK(written, files[v]))
    BY DEF IInv, Vault, VaultOK
  <2>3. /\ DOMAIN fs2 = kept /\ fs2 = [s \in DOMAIN fs2 |-> fs2[s]]
        /\ \A s \in kept : fs2[s] = files[v][s]
    OBVIOUS
  <2>4. files' = Set(files, v, fs2)
    BY <2>1
  <2> HIDE DEF fs2
  <2>5. WorkOK(written, fs2)
    BY <2>2, <2>3 DEF WorkOK
  <2>6. merging[v] = 0 => TreeOK(written, fs2)
    BY <2>2, <2>3 DEF TreeOK
  <2> QED
    BY <1>1, <2>4, <2>5, <2>6, FilesStep DEF CommandOK
<1> QED
  BY <1>2, <1>3

-----------------------------------------------------------------------------
(* The invariant *)

LEMMA InitIInv ==
  ASSUME Init
  PROVE  IInv
<1>1. TreeOK({}, Empty) /\ WorkOK({}, Empty) /\ LibraryOK({}, Empty) /\ Empty \in Trees
  <2>1. DOMAIN Empty = {} /\ Empty = [s \in {} |-> Empty[s]]
    BY DEF Empty
  <2>2. Empty \in [{} -> Contents] /\ {} \in SUBSET Slugs
    BY <2>1
  <2>3. Empty \in Trees
    BY <2>2 DEF Trees
  <2> QED
    BY <2>1, <2>3 DEF TreeOK, WorkOK, LibraryOK
<1>2. Parts
  BY DEF Init, Parts, OfVaults
<1>3. RemoteOK
  <2>1. remote = <<Empty>> /\ written = {}
    BY DEF Init
  <2>2. remote \in Seq(Trees) /\ Len(remote) = 1 /\ remote[1] = Empty
    BY <1>1, <2>1
  <2>3. \A i \in 1..Len(remote) : TreeOK(written, remote[i])
    BY <1>1, <2>1, <2>2
  <2> QED
    BY <2>1, <2>2, <2>3 DEF RemoteOK
<1>4. ASSUME NEW v \in Vaults
      PROVE  Vault(v)
  <2>1. /\ library[v] = Empty /\ files[v] = Empty /\ head[v] = Empty
        /\ known[v] = 1 /\ merging[v] = 0 /\ command[v] = Idle
        /\ written = {} /\ Len(remote) = 1
    BY DEF Init
  <2> QED
    BY <1>1, <2>1 DEF Vault, VaultOK, CommandOK
<1> QED
  BY <1>2, <1>3, <1>4 DEF IInv

LEMMA NextIInv ==
  ASSUME IInv, [Next]_vars
  PROVE  IInv'
<1>1. CASE UNCHANGED vars
  BY <1>1 DEF vars, git, IInv, Parts, OfVaults, RemoteOK, Vault
<1>2. ASSUME NEW v \in Vaults, NEW p \in Prompts, OtherEdit(v, p)
      PROVE  IInv'
  BY <1>2, EditStep
<1>3. ASSUME NEW v \in Vaults, Push(v)
      PROVE  IInv'
  BY <1>3, BeginPushStep, ClearStep, WriteStep, CommitStep, SendStep DEF Push
<1>4. ASSUME NEW v \in Vaults, Pull(v)
      PROVE  IInv'
  <2>1. CASE EndPull(v)
    <3>1. Run(v, Idle) /\ UNCHANGED <<library, files, git, remote, written>>
      BY <2>1 DEF EndPull
    <3> QED
      BY <3>1, CommandStep DEF CommandOK
  <2> QED
    BY <1>4, <2>1, PullStep, ReadStep, ApplyStep DEF Pull
<1>5. ASSUME NEW v \in Vaults, Crash(v)
      PROVE  IInv'
  BY <1>5, CrashStep
<1> QED
  BY <1>1, <1>2, <1>3, <1>4, <1>5 DEF Next

LEMMA Invariance == Spec => []IInv
<1>1. Init => IInv
  BY InitIInv
<1>2. IInv /\ [Next]_vars => IInv'
  BY NextIInv
<1> QED
  BY <1>1, <1>2, PTL DEF Spec

LEMMA IInvTypeOK ==
  ASSUME IInv
  PROVE  TypeOK
<1>1. ASSUME NEW v \in Vaults
      PROVE  /\ DOMAIN library[v] \subseteq Prompts
             /\ \A p \in DOMAIN library[v] :
                  library[v][p] \in Row /\ library[v][p].bodies # << >>
             /\ \A p, q \in DOMAIN library[v] : SlugOf[p] = SlugOf[q] => p = q
             /\ IsTree(head[v], Contents)
             /\ IsTree(files[v], Contents \cup {Conflict})
             /\ known[v] \in 1..Len(remote) /\ merging[v] \in 0..Len(remote)
             /\ command[v].at \in {"idle", "clear", "write", "send", "import", "apply"}
  <2>1. /\ LibraryOK(written, library[v])
        /\ TreeOK(written, head[v]) /\ WorkOK(written, files[v])
        /\ known[v] \in 1..Len(remote) /\ merging[v] \in 0..Len(remote)
        /\ CommandOK(written, library[v], files[v], head[v], merging[v], command[v])
    BY DEF IInv, Vault, VaultOK
  <2>2. /\ DOMAIN library[v] \subseteq Prompts
        /\ \A p \in DOMAIN library[v] :
             library[v][p] \in Row /\ library[v][p].bodies # << >>
        /\ \A p, q \in DOMAIN library[v] : SlugOf[p] = SlugOf[q] => p = q
    BY <2>1 DEF LibraryOK
  <2>3. IsTree(head[v], Contents) /\ IsTree(files[v], Contents \cup {Conflict})
    BY <2>1 DEF IsTree, TreeOK, WorkOK
  <2>4. command[v].at \in {"idle", "clear", "write", "send", "import", "apply"}
    BY <2>1 DEF CommandOK, Idle, ExportOK, Exporting, ImportOK, Importing, ApplyOK, Applying
  <2> QED
    BY <2>1, <2>2, <2>3, <2>4
<1>2. \A i \in DOMAIN remote : IsTree(remote[i], Contents)
  BY DEF IInv, RemoteOK, IsTree, TreeOK
<1>3. written \subseteq Prompts \X Bodies
  BY DEF IInv, RemoteOK
<1> QED
  BY <1>1, <1>2, <1>3 DEF TypeOK

(* A version is only ever found under the prompt it was written for, also  *)
(* when two vaults use one slug, and so one file, for different prompts.   *)
THEOREM VersionsStayWithTheirPrompt == Spec => []OnlyWritten
<1>1. IInv => OnlyWritten
  BY IInvTypeOK DEF OnlyWritten, IInv, Vault, VaultOK, LibraryOK
<1> QED
  BY <1>1, Invariance, PTL

(* When a pull ends, the library has every file's version as the latest of *)
(* its prompt, except where other processes edited in the meantime.        *)
THEOREM PullsAgree == Spec => []PullAgrees
<1>1. ASSUME IInv
      PROVE  PullAgrees
  <2>1. ASSUME NEW v \in Vaults, Imported(v), NEW s \in DOMAIN files[v]
        PROVE  \/ files[v][s].id \in command[v].touched
               \/ files[v][s].id \in Visible(v) /\ Latest(v, files[v][s].id) = files[v][s].body
    <3>1. ImportOK(library[v], files[v], merging[v], command[v]) /\ command[v].todo = {}
      BY <1>1, <2>1, Pulling DEF Imported
    <3>2. InLibrary(library[v], command[v].touched, files[v][s])
      BY <3>1 DEF ImportOK
    <3> QED
      BY <3>2 DEF InLibrary, Visible, Latest
  <2> QED
    BY <2>1 DEF PullAgrees
<1>2. IInv => PullAgrees
  BY <1>1
<1> QED
  BY <1>2, Invariance, PTL

(* What is sent is one whole export, whatever crashes and merges left in   *)
(* the directory before.                                                   *)
THEOREM ExportsArePublished == Spec => PublishedIsExport
<1>1. ASSUME IInv, [Next]_vars
      PROVE  [remote' # remote =>
                \E v \in Vaults : At(v, "send") /\ Last(remote') = command[v].listed]_vars
  <2>1. SUFFICES ASSUME Next, remote' # remote
                 PROVE  \E v \in Vaults :
                          At(v, "send") /\ Last(remote') = command[v].listed
    BY SMTT(60), <1>1 DEF vars
  <2>2. PICK v \in Vaults : Send(v)
    BY ZenonT(60), <2>1 DEF Next, OtherEdit, Push, BeginPush, ClearPromptsDir, WriteFile, Commit, Pull,
                GitPull, ReadFile, ApplyFile, EndPull, Crash
  <2>3. At(v, "send") /\ remote' = Append(remote, head[v])
    BY <2>1, <2>2 DEF Send
  <2>4. head[v] = command[v].listed
    BY <1>1, <2>3, Pushing DEF ExportOK, At
  <2>5. remote \in Seq(Trees) /\ head[v] \in Trees
    BY <1>1 DEF IInv, RemoteOK, Vault, VaultOK, TreeOK, Trees
  <2>6. Last(remote') = head[v]
    <3>1. Len(remote') = Len(remote) + 1 /\ remote'[Len(remote) + 1] = head[v]
      BY <2>3, <2>5
    <3> QED
      BY <3>1 DEF Last
  <2> QED
    BY <2>3, <2>4, <2>6
<1> QED
  BY <1>1, Invariance, PTL DEF Spec, PublishedIsExport

=============================================================================
