------------------------- MODULE SharedDatabase_proofs -------------------------
(***************************************************************************)
(* Proofs about the tables of prompts: first about PromptRepository, whose *)
(* methods are one step each, then about SharedDatabase: what holds of the *)
(* tables however many processes write between the statements of each      *)
(* other's calls, and that these calls implement the library of            *)
(* PromptLibrary all the same; and about Migrations, which bring the       *)
(* tables about.                                                           *)
(***************************************************************************)
EXTENDS SharedDatabase, Migrations, TLAPS

(* What the properties of PromptRepository rest on and do not say: rowids  *)
(* identify the rows of a table, ...                                       *)
RowsDistinct ==
  /\ \A p, q \in DOMAIN prompts : prompts[p].row = prompts[q].row => p = q
  /\ \A v, w \in versions : v.row = w.row => v = w

(* ... a slug identifies a prompt of the table, in the trash or not, ...   *)
SlugsUnique ==
  \A p, q \in DOMAIN prompts : prompts[p].slug = prompts[q].slug => p = q

(* ... and the versions of a prompt have a newest one.  (Their set is      *)
(* finite, but this form is preserved by every step as it stands.)         *)
HasLatest ==
  \A p \in DOMAIN prompts :
    \E v \in VersionsOf(versions, p) : \A w \in VersionsOf(versions, p) : NotOlder(v, w)

(* All this holds of a file that several processes share as well ...       *)
Sound ==
  /\ TypeOK
  /\ Referential
  /\ IndexExact
  /\ RowsDistinct
  /\ SlugsUnique
  /\ HasLatest

(* ... and this of one process.                                            *)
IInv == Sound /\ ChecksumsMatch

-----------------------------------------------------------------------------
(* The order of versions *)

(* The newest row of a set whose rowids are distinct is the one that       *)
(* Latest picks.                                                           *)
LEMMA LatestIs ==
  ASSUME NEW S \in SUBSET VersionRow,
         \A v, w \in S : v.row = w.row => v = w,
         NEW m \in S, \A w \in S : NotOlder(m, w)
  PROVE  Latest(S) = m
<1>1. \A w \in S : w.created \in Nat /\ w.row \in Nat
  BY TimesAreNaturals DEF VersionRow
<1>2. ASSUME NEW x \in S, \A w \in S : NotOlder(x, w)
      PROVE  x = m
  <2>1. NotOlder(x, m) /\ NotOlder(m, x)
    BY <1>2
  <2>2. x.row = m.row
    BY <1>1, <2>1 DEF NotOlder
  <2>3. QED
    BY <2>2
<1>3. QED
  BY <1>2, Zenon DEF Latest

(* The row that an insertion adds comes after every row of the table.      *)
LEMMA InsertVersionAdds ==
  ASSUME TypeOK,
         NEW p \in PromptIds, NEW b \in Bodies, NEW f \in Formats, NEW at \in Times,
         InsertVersion(p, b, f, at)
  PROVE  \E v \in VersionRow :
           /\ v.prompt = p /\ v.body = b /\ v.created = at
           /\ versions' = versions \cup {v}
           /\ \A w \in versions : w.row < v.row
<1>1. PICK r \in NextRow({v.row : v \in versions}) :
        versions' = versions \cup
          {[prompt |-> p, row |-> r, body |-> b, format |-> f, created |-> at]}
  BY DEF InsertVersion
<1>2. \A v \in versions : v.row \in Nat
  BY DEF TypeOK, VersionRow
<1>3. r \in Nat /\ \A w \in versions : w.row < r
  BY <1>2 DEF NextRow
<1> DEFINE new == [prompt |-> p, row |-> r, body |-> b, format |-> f, created |-> at]
<1>4. new \in VersionRow
  BY <1>3 DEF VersionRow
<1>5. QED
  BY <1>1, <1>3, <1>4

(* What an insertion does to the versions of every prompt. *)
LEMMA InsertVersionEffect ==
  ASSUME TypeOK, RowsDistinct, HasLatest,
         NEW p \in PromptIds, NEW v \in VersionRow,
         v.prompt = p,
         versions' = versions \cup {v},
         \A w \in versions : w.row < v.row
  PROVE  /\ VersionsOf(versions', p) = VersionsOf(versions, p) \cup {v}
         /\ \A q : q # p => VersionsOf(versions', q) = VersionsOf(versions, q)
         /\ \A x, y \in versions' : x.row = y.row => x = y
         /\ versions' \subseteq VersionRow
         /\ p \in DOMAIN prompts \/ VersionsOf(versions, p) = {} =>
              \E x \in VersionsOf(versions', p) :
                \A w \in VersionsOf(versions', p) : NotOlder(x, w)
<1>1. versions \subseteq VersionRow
  BY DEF TypeOK
<1>2. \A w \in versions \cup {v} : w.created \in Nat /\ w.row \in Nat
  BY <1>1, TimesAreNaturals DEF VersionRow
<1>3. VersionsOf(versions', p) = VersionsOf(versions, p) \cup {v}
  BY DEF VersionsOf
<1>4. \A q : q # p => VersionsOf(versions', q) = VersionsOf(versions, q)
  BY DEF VersionsOf
<1>5. \A x, y \in versions' : x.row = y.row => x = y
  BY <1>2 DEF RowsDistinct
<1>6. CASE VersionsOf(versions, p) = {}
  <2>1. NotOlder(v, v)
    BY <1>2 DEF NotOlder
  <2>2. QED
    BY ZenonT(60), <1>1, <1>3, <1>4, <1>5, <1>6, <2>1
<1>7. CASE p \in DOMAIN prompts
  <2>1. PICK m \in VersionsOf(versions, p) : \A w \in VersionsOf(versions, p) : NotOlder(m, w)
    BY <1>7 DEF HasLatest
  <2>2. m \in versions /\ VersionsOf(versions, p) \subseteq versions
    BY DEF VersionsOf
  <2>3. CASE v.created >= m.created
    <3>1. \A w \in VersionsOf(versions, p) \cup {v} : NotOlder(v, w)
      BY <1>2, <2>1, <2>2, <2>3 DEF NotOlder
    <3>2. QED
      BY <1>1, <1>3, <1>4, <1>5, <3>1
  <2>4. CASE ~(v.created >= m.created)
    <3>1. \A w \in VersionsOf(versions, p) \cup {v} : NotOlder(m, w)
      BY <1>2, <2>1, <2>2, <2>4 DEF NotOlder
    <3>2. QED
      BY <1>1, <1>3, <1>4, <1>5, <2>1, <3>1
  <2>5. QED
    BY <2>3, <2>4
<1>8. QED
  BY <1>1, <1>3, <1>4, <1>5, <1>6, <1>7

-----------------------------------------------------------------------------
(* The index *)

(* Reindexing one prompt makes an exact index exact again when that prompt *)
(* is the only one whose row or versions changed.                          *)
LEMMA ReindexExact ==
  ASSUME NEW ps, NEW qs, NEW vs, NEW ws, NEW index, NEW p,
         index = ExactIndex(ps, vs),
         DOMAIN qs = DOMAIN ps \cup {p},
         \A q \in DOMAIN ps : qs[q].row = ps[q].row,
         \A q \in DOMAIN ps : q # p => qs[q] = ps[q],
         \A q : q # p => VersionsOf(ws, q) = VersionsOf(vs, q),
         \A q, r \in DOMAIN qs : qs[q].row = qs[r].row => q = r
  PROVE  Reindex(index, qs, ws, p) = ExactIndex(qs, ws)
<1>1. \A q \in DOMAIN ps : q # p => Entry(qs, ws, q) = Entry(ps, vs, q)
  BY DEF Entry, LatestBody
<1>2. \A q : Entry(qs, ws, q).row = qs[q].row /\ Entry(ps, vs, q).row = ps[q].row
  BY DEF Entry
<1> HIDE DEF Entry
<1>3. ASSUME NEW e \in Reindex(index, qs, ws, p)
      PROVE  e \in ExactIndex(qs, ws)
  <2>1. CASE e \in index /\ e.row # qs[p].row
    <3>1. PICK q \in DOMAIN ps : ~ps[q].trashed /\ e = Entry(ps, vs, q)
      BY <2>1 DEF ExactIndex
    <3>2. q # p
      BY <1>2, <2>1, <3>1
    <3>3. QED
      BY <1>1, <3>1, <3>2 DEF ExactIndex
  <2>2. CASE ~qs[p].trashed /\ e = Entry(qs, ws, p)
    BY <2>2 DEF ExactIndex
  <2>3. QED
    BY <1>3, <2>1, <2>2 DEF Reindex
<1>4. ASSUME NEW e \in ExactIndex(qs, ws)
      PROVE  e \in Reindex(index, qs, ws, p)
  <2>1. PICK q \in DOMAIN qs : ~qs[q].trashed /\ e = Entry(qs, ws, q)
    BY <1>4 DEF ExactIndex
  <2>2. CASE q = p
    BY <2>1, <2>2 DEF Reindex
  <2>3. CASE q # p
    <3>1. e = Entry(ps, vs, q) /\ ~ps[q].trashed /\ q \in DOMAIN ps
      BY <1>1, <2>1, <2>3
    <3>2. e.row # qs[p].row
      BY <1>2, <2>1, <2>3
    <3>3. QED
      BY <3>1, <3>2 DEF Reindex, ExactIndex
  <2>4. QED
    BY <2>2, <2>3
<1>5. QED
  BY <1>3, <1>4

(* The latest body of a prompt that has a version is a body. *)
LEMMA LatestBodyType ==
  ASSUME NEW ps, NEW vs \in SUBSET VersionRow, NEW p,
         \A v, w \in vs : v.row = w.row => v = w,
         NEW m \in VersionsOf(vs, p), \A w \in VersionsOf(vs, p) : NotOlder(m, w)
  PROVE  LatestBody(vs, p) = m.body /\ m.body \in Bodies
<1>1. VersionsOf(vs, p) \subseteq vs
  BY DEF VersionsOf
<1>2. Latest(VersionsOf(vs, p)) = m
  BY <1>1, LatestIs
<1>3. QED
  BY <1>1, <1>2 DEF LatestBody, VersionRow

(* An exact index holds well-formed entries. *)
LEMMA ExactIndexType ==
  ASSUME NEW ps, NEW vs \in SUBSET VersionRow,
         \A p \in DOMAIN ps : ps[p] \in PromptRow,
         \A v, w \in vs : v.row = w.row => v = w,
         \A p \in DOMAIN ps :
           \E v \in VersionsOf(vs, p) : \A w \in VersionsOf(vs, p) : NotOlder(v, w)
  PROVE  ExactIndex(ps, vs) \subseteq IndexRow
<1>1. ASSUME NEW p \in DOMAIN ps
      PROVE  Entry(ps, vs, p) \in IndexRow
  <2>1. LatestBody(vs, p) \in Bodies
    BY LatestBodyType
  <2>2. QED
    BY <2>1 DEF Entry, IndexRow, PromptRow
<1>2. QED
  BY <1>1 DEF ExactIndex

-----------------------------------------------------------------------------
(* Each operation preserves the invariant *)

LEMMA InitSound == Init => Sound
BY DEF Init, Sound, TypeOK, Referential, IndexExact, ExactIndex, RowsDistinct,
       SlugsUnique, HasLatest

LEMMA CreatePromptSound ==
  ASSUME Sound,
         NEW p \in PromptIds, NEW s \in Slugs, NEW t \in Titles, NEW c \in Categories,
         NEW b \in Bodies, NEW f \in Formats, NEW at \in Times,
         CreatePrompt(p, s, t, c, b, f, at)
  PROVE  Sound'
<1>1. PICK r \in NextRow({prompts[q].row : q \in DOMAIN prompts}) :
        prompts' = [q \in DOMAIN prompts \cup {p} |->
          IF q = p
          THEN [row |-> r, slug |-> s, title |-> t, category |-> c,
                checksum |-> Checksum(s, t, c), trashed |-> FALSE]
          ELSE prompts[q]]
  BY DEF CreatePrompt
<1>2. \A q \in DOMAIN prompts : prompts[q].row \in Nat
  BY DEF Sound, TypeOK, PromptRow
<1>3. r \in Nat /\ \A q \in DOMAIN prompts : prompts[q].row < r
  BY <1>2 DEF NextRow
<1>4. DOMAIN prompts' = DOMAIN prompts \cup {p} /\ p \notin DOMAIN prompts
  BY <1>1 DEF CreatePrompt
<1>5. /\ prompts'[p] = [row |-> r, slug |-> s, title |-> t, category |-> c,
                        checksum |-> Checksum(s, t, c), trashed |-> FALSE]
      /\ \A q \in DOMAIN prompts : prompts'[q] = prompts[q]
  BY <1>1, <1>4
<1>6. prompts'[p] \in PromptRow
  BY <1>3, <1>5 DEF PromptRow, Payload, Checksum
<1>7. VersionsOf(versions, p) = {}
  BY <1>4 DEF Sound, Referential, VersionsOf
<1>8. InsertVersion(p, b, f, at) /\ fts' = Reindex(fts, prompts', versions', p)
      /\ UNCHANGED <<tags, promptTags>>
  BY DEF CreatePrompt
<1>9. PICK v \in VersionRow : /\ v.prompt = p /\ versions' = versions \cup {v}
                              /\ \A w \in versions : w.row < v.row
  BY <1>8, InsertVersionAdds DEF Sound
<1>10. /\ VersionsOf(versions', p) = VersionsOf(versions, p) \cup {v}
       /\ \A q : q # p => VersionsOf(versions', q) = VersionsOf(versions, q)
       /\ \A x, y \in versions' : x.row = y.row => x = y
       /\ versions' \subseteq VersionRow
       /\ \E x \in VersionsOf(versions', p) :
            \A w \in VersionsOf(versions', p) : NotOlder(x, w)
  BY <1>7, <1>9, InsertVersionEffect DEF Sound
<1>11. RowsDistinct'
  BY <1>2, <1>3, <1>4, <1>5, <1>10 DEF Sound, RowsDistinct
<1>12. HasLatest'
  BY <1>4, <1>10 DEF Sound, HasLatest
<1>13. IndexExact'
  <2>1. Reindex(fts, prompts', versions', p) = ExactIndex(prompts', versions')
    BY <1>4, <1>5, <1>10, <1>11, ReindexExact DEF Sound, IndexExact, RowsDistinct
  <2>2. QED
    BY <1>8, <2>1 DEF IndexExact
<1>14. TypeOK'
  <2>1. DOMAIN prompts' \subseteq PromptIds /\ \A q \in DOMAIN prompts' : prompts'[q] \in PromptRow
    BY <1>4, <1>5, <1>6 DEF Sound, TypeOK
  <2>2. fts' \subseteq IndexRow
    BY <1>10, <1>11, <1>12, <1>13, <2>1, ExactIndexType DEF IndexExact, RowsDistinct, HasLatest
  <2>3. QED
    BY <1>8, <1>10, <2>1, <2>2 DEF Sound, TypeOK
<1>15. Referential'
  BY <1>4, <1>8, <1>9, <1>10 DEF Sound, Referential
<1>16. SlugsUnique'
  BY <1>4, <1>5 DEF Sound, SlugsUnique, CreatePrompt
<1>17. QED
  BY <1>11, <1>12, <1>13, <1>14, <1>15, <1>16 DEF Sound

LEMMA AddVersionSound ==
  ASSUME Sound,
         NEW p \in PromptIds, NEW b \in Bodies, NEW f \in Formats, NEW at \in Times,
         AddVersion(p, b, f, at)
  PROVE  Sound'
<1>1. /\ p \in DOMAIN prompts /\ InsertVersion(p, b, f, at)
      /\ fts' = Reindex(fts, prompts, versions', p)
      /\ UNCHANGED <<prompts, tags, promptTags>>
  BY DEF AddVersion
<1>2. PICK v \in VersionRow : /\ v.prompt = p /\ versions' = versions \cup {v}
                              /\ \A w \in versions : w.row < v.row
  BY <1>1, InsertVersionAdds DEF Sound
<1>3. /\ VersionsOf(versions', p) = VersionsOf(versions, p) \cup {v}
      /\ \A q : q # p => VersionsOf(versions', q) = VersionsOf(versions, q)
      /\ \A x, y \in versions' : x.row = y.row => x = y
      /\ versions' \subseteq VersionRow
      /\ \E x \in VersionsOf(versions', p) :
           \A w \in VersionsOf(versions', p) : NotOlder(x, w)
  BY <1>1, <1>2, InsertVersionEffect DEF Sound
<1>4. RowsDistinct'
  BY <1>1, <1>3 DEF Sound, RowsDistinct
<1>5. HasLatest'
  BY <1>1, <1>3 DEF Sound, HasLatest
<1>6. IndexExact'
  <2>1. Reindex(fts, prompts', versions', p) = ExactIndex(prompts', versions')
    BY <1>1, <1>3, <1>4, ReindexExact DEF Sound, IndexExact, RowsDistinct
  <2>2. QED
    BY <1>1, <2>1 DEF IndexExact
<1>7. TypeOK'
  <2>1. fts' \subseteq IndexRow
    BY <1>1, <1>3, <1>4, <1>5, <1>6, ExactIndexType
    DEF Sound, TypeOK, IndexExact, RowsDistinct, HasLatest
  <2>2. QED
    BY <1>1, <1>3, <2>1 DEF Sound, TypeOK
<1>8. Referential' /\ SlugsUnique'
  BY <1>1, <1>2, <1>3 DEF Sound, Referential, SlugsUnique
<1>9. QED
  BY <1>4, <1>5, <1>6, <1>7, <1>8 DEF Sound

(* What an update writes, whatever it hashed and whether or not the prompt  *)
(* has come into the trash meanwhile.                                      *)
WriteColumns(p, t, c, checksum) ==
  /\ prompts' = [prompts EXCEPT ![p] =
       [prompts[p] EXCEPT !.title = Chosen(t, prompts[p].title),
                          !.category = Chosen(c, prompts[p].category),
                          !.checksum = checksum]]
  /\ fts' = IF t = Keep THEN fts ELSE Reindex(fts, prompts', versions, p)
  /\ UNCHANGED <<versions, tags, promptTags>>

LEMMA WriteColumnsSound ==
  ASSUME Sound,
         NEW p \in DOMAIN prompts, NEW t \in Titles \cup {Keep},
         NEW c \in Categories \cup {Keep}, NEW checksum \in Payload,
         WriteColumns(p, t, c, checksum)
  PROVE  Sound'
<1> DEFINE old == prompts[p]
           title == Chosen(t, old.title)
           category == Chosen(c, old.category)
<1>1. UNCHANGED <<versions, tags, promptTags>>
  BY DEF WriteColumns
<1>2. old \in PromptRow
  BY DEF Sound, TypeOK
<1>3. title \in Titles /\ category \in Categories
  BY <1>2 DEF Chosen, PromptRow
<1>4. prompts' = [prompts EXCEPT ![p] =
        [old EXCEPT !.title = title, !.category = category, !.checksum = checksum]]
  BY DEF WriteColumns
<1>5. /\ DOMAIN prompts' = DOMAIN prompts
      /\ \A q \in DOMAIN prompts : q # p => prompts'[q] = prompts[q]
      /\ prompts'[p] = [row |-> old.row, slug |-> old.slug, title |-> title,
                        category |-> category, checksum |-> checksum,
                        trashed |-> old.trashed]
  BY <1>2, <1>4 DEF PromptRow
<1> HIDE DEF old, title, category
<1>6. prompts'[p] \in PromptRow
  BY <1>2, <1>3, <1>5 DEF PromptRow
<1>7. /\ prompts'[p].row = prompts[p].row /\ prompts'[p].slug = prompts[p].slug
      /\ prompts'[p].trashed = prompts[p].trashed
  BY <1>5 DEF old
<1>8. RowsDistinct' /\ HasLatest' /\ SlugsUnique'
  BY <1>1, <1>5, <1>7 DEF Sound, RowsDistinct, HasLatest, SlugsUnique
<1>9. IndexExact'
  <2>1. Reindex(fts, prompts', versions', p) = ExactIndex(prompts', versions')
    BY <1>1, <1>5, <1>7, <1>8, ReindexExact DEF Sound, IndexExact, RowsDistinct
  <2>2. CASE t # Keep
    BY <1>1, <2>1, <2>2 DEF WriteColumns, IndexExact
  <2>3. CASE t = Keep
    <3>1. prompts'[p].title = prompts[p].title
      BY <1>5, <2>3 DEF title, old, Chosen
    <3>2. \A q \in DOMAIN prompts :
            /\ Entry(prompts', versions', q) = Entry(prompts, versions, q)
            /\ prompts'[q].trashed = prompts[q].trashed
      BY <1>1, <1>5, <1>7, <3>1 DEF Entry
    <3>3. ExactIndex(prompts', versions') = ExactIndex(prompts, versions)
      BY <1>5, <3>2 DEF ExactIndex
    <3>4. QED
      BY <2>3, <3>3 DEF WriteColumns, IndexExact, Sound
  <2>4. QED
    BY <2>2, <2>3
<1>10. TypeOK'
  <2>1. \A q \in DOMAIN prompts' : prompts'[q] \in PromptRow
    BY <1>5, <1>6 DEF Sound, TypeOK
  <2>2. fts' \subseteq IndexRow
    BY <1>1, <1>8, <1>9, <2>1, ExactIndexType
    DEF Sound, TypeOK, IndexExact, RowsDistinct, HasLatest
  <2>3. QED
    BY <1>1, <1>5, <2>1, <2>2 DEF Sound, TypeOK
<1>11. Referential'
  BY <1>1, <1>5 DEF Sound, Referential
<1>12. QED
  BY <1>8, <1>9, <1>10, <1>11 DEF Sound

(* The update of one process hashes the row that it writes.                *)
LEMMA UpdateIsWriteColumns ==
  ASSUME Sound,
         NEW p \in PromptIds, NEW t \in Titles \cup {Keep}, NEW c \in Categories \cup {Keep},
         UpdatePromptMetadata(p, t, c)
  PROVE  /\ p \in DOMAIN prompts
         /\ \E checksum \in Payload : WriteColumns(p, t, c, checksum)
<1>1. p \in DOMAIN prompts /\ prompts[p] \in PromptRow
  BY DEF UpdatePromptMetadata, Active, Sound, TypeOK
<1> DEFINE checksum == Checksum(prompts[p].slug, Chosen(t, prompts[p].title),
                                Chosen(c, prompts[p].category))
<1>2. checksum \in Payload
  BY <1>1 DEF Checksum, Payload, Chosen, PromptRow
<1>3. WriteColumns(p, t, c, checksum)
  BY DEF UpdatePromptMetadata, WriteColumns
<1>4. QED
  BY <1>1, <1>2, <1>3

LEMMA SetTrashedSound ==
  ASSUME Sound, NEW p \in DOMAIN prompts, NEW trashed \in BOOLEAN, SetTrashed(p, trashed)
  PROVE  Sound'
<1>1. UNCHANGED <<versions, tags, promptTags>>
  BY DEF SetTrashed
<1>2. /\ DOMAIN prompts' = DOMAIN prompts
      /\ \A q \in DOMAIN prompts : q # p => prompts'[q] = prompts[q]
      /\ prompts'[p] = [prompts[p] EXCEPT !.trashed = trashed]
  BY DEF SetTrashed
<1>3. prompts[p] \in PromptRow
  BY DEF Sound, TypeOK
<1>4. /\ prompts'[p] \in PromptRow
      /\ prompts'[p].row = prompts[p].row /\ prompts'[p].slug = prompts[p].slug
      /\ prompts'[p].title = prompts[p].title
      /\ prompts'[p].category = prompts[p].category
      /\ prompts'[p].checksum = prompts[p].checksum
  BY <1>2, <1>3 DEF PromptRow
<1> DEFINE sameRow == \A q \in DOMAIN prompts :
             /\ prompts'[q].row = prompts[q].row /\ prompts'[q].slug = prompts[q].slug
             /\ q # p => prompts'[q] = prompts[q]
<1>11. DOMAIN prompts' = DOMAIN prompts /\ sameRow
  BY <1>2, <1>4
<1>5. RowsDistinct' /\ HasLatest' /\ SlugsUnique'
  BY <1>1, <1>11 DEF Sound, RowsDistinct, HasLatest, SlugsUnique
<1>6. IndexExact'
  <2>1. Reindex(fts, prompts', versions', p) = ExactIndex(prompts', versions')
    BY <1>1, <1>11, <1>5, ReindexExact DEF Sound, IndexExact, RowsDistinct
  <2>2. QED
    BY <1>1, <2>1 DEF SetTrashed, IndexExact
<1>7. TypeOK'
  <2>1. \A q \in DOMAIN prompts' : prompts'[q] \in PromptRow
    BY <1>2, <1>4 DEF Sound, TypeOK
  <2>2. fts' \subseteq IndexRow
    BY <1>1, <1>5, <1>6, <2>1, ExactIndexType
    DEF Sound, TypeOK, IndexExact, RowsDistinct, HasLatest
  <2>3. QED
    BY <1>1, <1>2, <2>1, <2>2 DEF Sound, TypeOK
<1>8. Referential'
  BY <1>1, <1>2 DEF Sound, Referential
<1>9. QED
  BY <1>5, <1>6, <1>7, <1>8 DEF Sound

LEMMA PermanentlyDeletePromptSound ==
  ASSUME Sound, NEW p \in PromptIds, PermanentlyDeletePrompt(p)
  PROVE  Sound'
<1>1. /\ p \in DOMAIN prompts
      /\ versions' = {v \in versions : v.prompt # p}
      /\ fts' = {e \in fts : e.row # prompts[p].row}
      /\ promptTags' = {pt \in promptTags : pt[1] # p}
      /\ UNCHANGED tags
  BY DEF PermanentlyDeletePrompt
<1>2. /\ DOMAIN prompts' = DOMAIN prompts \ {p}
      /\ \A q \in DOMAIN prompts' : prompts'[q] = prompts[q]
  BY DEF PermanentlyDeletePrompt
<1>3. \A q : q # p => VersionsOf(versions', q) = VersionsOf(versions, q)
  BY <1>1 DEF VersionsOf
<1>4. RowsDistinct' /\ SlugsUnique'
  BY <1>1, <1>2 DEF Sound, RowsDistinct, SlugsUnique
<1>5. HasLatest'
  BY <1>2, <1>3 DEF Sound, HasLatest
<1>6. IndexExact'
  <2>1. \A q \in DOMAIN prompts' : Entry(prompts', versions', q) = Entry(prompts, versions, q)
    BY <1>2, <1>3 DEF Entry, LatestBody
  <2>2. \A q : Entry(prompts, versions, q).row = prompts[q].row
    BY DEF Entry
  <2>3. \A q \in DOMAIN prompts' : prompts[q].row # prompts[p].row
    BY <1>1, <1>2 DEF Sound, RowsDistinct
  <2> HIDE DEF Entry
  <2>4. ExactIndex(prompts', versions') = {e \in ExactIndex(prompts, versions) : e.row # prompts[p].row}
    <3>1. ASSUME NEW e \in ExactIndex(prompts', versions')
          PROVE  e \in ExactIndex(prompts, versions) /\ e.row # prompts[p].row
      BY <1>2, <2>1, <2>2, <2>3, <3>1 DEF ExactIndex
    <3>2. ASSUME NEW e \in ExactIndex(prompts, versions), e.row # prompts[p].row
          PROVE  e \in ExactIndex(prompts', versions')
      BY <1>2, <2>1, <2>2, <3>2 DEF ExactIndex
    <3>3. QED
      BY <3>1, <3>2
  <2>5. QED
    BY <1>1, <2>4 DEF Sound, IndexExact
<1>7. TypeOK'
  BY <1>1, <1>2 DEF Sound, TypeOK
<1>8. Referential'
  BY <1>1, <1>2, <1>3 DEF Sound, Referential
<1>9. QED
  BY <1>4, <1>5, <1>6, <1>7, <1>8 DEF Sound

(* A change of format replaces a row by one that stands at the same place  *)
(* of the order and has the same body, so no entry of the index changes.   *)
LEMMA UpdateVersionFormatSound ==
  ASSUME Sound, NEW u \in versions, NEW f \in Formats, UpdateVersionFormat(u, f)
  PROVE  Sound'
<1> DEFINE new == [u EXCEPT !.format = f]
<1>1. /\ versions' = (versions \ {u}) \cup {new}
      /\ UNCHANGED <<prompts, fts, tags, promptTags>>
  BY DEF UpdateVersionFormat
<1>2. u \in VersionRow /\ versions \subseteq VersionRow
  BY DEF Sound, TypeOK
<1>3. new \in VersionRow /\ SameVersion(u, new)
  BY <1>2 DEF VersionRow, SameVersion
<1> HIDE DEF new
<1>4. /\ \A w \in versions : \E x \in versions' : SameVersion(w, x)
      /\ \A x \in versions' : \E w \in versions : SameVersion(w, x)
      /\ versions' \subseteq VersionRow
  BY <1>1, <1>2, <1>3 DEF SameVersion
<1>5. \A x, y \in versions' : x.row = y.row => x = y
  BY <1>1, <1>3 DEF Sound, RowsDistinct, SameVersion
<1>6. RowsDistinct' /\ SlugsUnique'
  BY <1>1, <1>5 DEF Sound, RowsDistinct, SlugsUnique
<1>7. ASSUME NEW p \in DOMAIN prompts
      PROVE  /\ \E x \in VersionsOf(versions', p) :
                  \A y \in VersionsOf(versions', p) : NotOlder(x, y)
             /\ LatestBody(versions', p) = LatestBody(versions, p)
  <2>1. PICK m \in VersionsOf(versions, p) : \A w \in VersionsOf(versions, p) : NotOlder(m, w)
    BY DEF Sound, HasLatest
  <2>2. PICK x \in versions' : SameVersion(m, x)
    BY <1>4, <2>1 DEF VersionsOf
  <2>3. x \in VersionsOf(versions', p) /\ x.body = m.body
    BY <2>1, <2>2 DEF VersionsOf, SameVersion
  <2>4. ASSUME NEW y \in VersionsOf(versions', p)
        PROVE  NotOlder(x, y)
    <3>1. PICK w \in versions : SameVersion(w, y)
      BY <1>4 DEF VersionsOf
    <3>2. w \in VersionsOf(versions, p)
      BY <3>1 DEF VersionsOf, SameVersion
    <3>3. NotOlder(m, w)
      BY <2>1, <3>2
    <3>4. QED
      BY <2>2, <3>1, <3>3 DEF NotOlder, SameVersion
  <2>5. LatestBody(versions, p) = m.body
    BY <1>2, <2>1, LatestBodyType DEF Sound, RowsDistinct
  <2>6. LatestBody(versions', p) = x.body
    BY <1>4, <1>5, <2>3, <2>4, LatestBodyType
  <2>7. QED
    BY <2>3, <2>4, <2>5, <2>6
<1>8. HasLatest'
  BY <1>1, <1>7 DEF HasLatest
<1>9. IndexExact'
  <2>1. \A p \in DOMAIN prompts : Entry(prompts', versions', p) = Entry(prompts, versions, p)
    BY <1>1, <1>7 DEF Entry
  <2>2. ExactIndex(prompts', versions') = ExactIndex(prompts, versions)
    BY <1>1, <2>1 DEF ExactIndex
  <2>3. QED
    BY <1>1, <2>2 DEF Sound, IndexExact
<1>10. TypeOK'
  BY <1>1, <1>4 DEF Sound, TypeOK
<1>11. Referential'
  <2>1. \A v \in versions' : v.prompt \in DOMAIN prompts'
    BY <1>1, <1>4 DEF Sound, Referential, SameVersion
  <2>2. \A p \in DOMAIN prompts' : VersionsOf(versions', p) # {}
    BY <1>1, <1>7
  <2>3. QED
    BY <1>1, <2>1, <2>2 DEF Sound, Referential
<1>12. QED
  BY <1>6, <1>8, <1>9, <1>10, <1>11 DEF Sound

(* The conjuncts that only read prompts, versions and fts.                 *)
LEMMA TagStepKeepsRest ==
  ASSUME Sound, UNCHANGED <<prompts, versions, fts>>
  PROVE  /\ IndexExact' /\ RowsDistinct' /\ SlugsUnique' /\ HasLatest'
         /\ \A v \in versions' : v.prompt \in DOMAIN prompts'
         /\ \A p \in DOMAIN prompts' : VersionsOf(versions', p) # {}
         /\ DOMAIN prompts' \subseteq PromptIds
         /\ \A p \in DOMAIN prompts' : prompts'[p] \in PromptRow
         /\ versions' \subseteq VersionRow /\ fts' \subseteq IndexRow
<1>1. IndexExact' /\ RowsDistinct'
  BY DEF Sound, IndexExact, ExactIndex, RowsDistinct
<1>2. SlugsUnique' /\ HasLatest'
  BY DEF Sound, SlugsUnique, HasLatest
<1>3. QED
  BY <1>1, <1>2 DEF Sound, TypeOK, Referential

LEMMA UpsertTagsSound ==
  ASSUME Sound, NEW p \in PromptIds, NEW ls \in SUBSET Labels, UpsertTags(p, ls)
  PROVE  Sound'
<1>1. /\ p \in DOMAIN prompts /\ UNCHANGED <<prompts, versions, fts>>
      /\ tags' = tags \cup ls /\ promptTags' = promptTags \cup ({p} \X ls)
  BY DEF UpsertTags
<1>2. \A pt \in promptTags' : pt[1] \in DOMAIN prompts' /\ pt[2] \in tags'
  BY <1>1 DEF Sound, Referential
<1>3. tags' \subseteq Labels /\ promptTags' \subseteq PromptIds \X Labels
  BY <1>1 DEF Sound, TypeOK
<1>4. QED
  BY <1>1, <1>2, <1>3, TagStepKeepsRest DEF Sound, TypeOK, Referential

LEMMA RemoveTagsSound ==
  ASSUME Sound, NEW p \in PromptIds, NEW ls \in SUBSET Labels, RemoveTags(p, ls)
  PROVE  Sound'
<1> DEFINE remaining == promptTags \ ({p} \X ls)
           unused == {l \in ls : \A pt \in remaining : pt[2] # l}
<1>1. /\ UNCHANGED <<prompts, versions, fts>>
      /\ promptTags' = remaining /\ tags' = tags \ unused
  BY DEF RemoveTags
<1>2. \A pt \in promptTags' : pt[1] \in DOMAIN prompts' /\ pt[2] \in tags'
  BY <1>1 DEF Sound, Referential
<1>3. tags' \subseteq Labels /\ promptTags' \subseteq PromptIds \X Labels
  BY <1>1 DEF Sound, TypeOK
<1>4. QED
  BY <1>1, <1>2, <1>3, TagStepKeepsRest DEF Sound, TypeOK, Referential

LEMMA NextSound == Sound /\ [Next]_vars => Sound'
<1> SUFFICES ASSUME Sound, [Next]_vars PROVE Sound'
  OBVIOUS
<1>1. ASSUME NEW p \in PromptIds, NEW s \in Slugs, NEW t \in Titles, NEW c \in Categories,
             NEW b \in Bodies, NEW f \in Formats, NEW at \in Times,
             CreatePrompt(p, s, t, c, b, f, at)
      PROVE  Sound'
  BY <1>1, CreatePromptSound
<1>2. ASSUME NEW p \in PromptIds, NEW b \in Bodies, NEW f \in Formats, NEW at \in Times,
             AddVersion(p, b, f, at)
      PROVE  Sound'
  BY <1>2, AddVersionSound
<1>3. ASSUME NEW p \in PromptIds, NEW t \in Titles \cup {Keep},
             NEW c \in Categories \cup {Keep}, UpdatePromptMetadata(p, t, c)
      PROVE  Sound'
  BY <1>3, UpdateIsWriteColumns, WriteColumnsSound
<1>4. ASSUME NEW p \in PromptIds, SoftDeletePrompt(p) \/ RestorePrompt(p)
      PROVE  Sound'
  BY <1>4, SetTrashedSound DEF SoftDeletePrompt, RestorePrompt, Active
<1>5. ASSUME NEW p \in PromptIds, PermanentlyDeletePrompt(p)
      PROVE  Sound'
  BY <1>5, PermanentlyDeletePromptSound
<1>6. ASSUME NEW v \in versions, NEW f \in Formats, UpdateVersionFormat(v, f)
      PROVE  Sound'
  BY <1>6, UpdateVersionFormatSound
<1>7. ASSUME NEW p \in PromptIds, NEW ls \in SUBSET Labels \ {{}},
             UpsertTags(p, ls) \/ RemoveTags(p, ls)
      PROVE  Sound'
  BY <1>7, UpsertTagsSound, RemoveTagsSound
<1>8. CASE UNCHANGED vars
  <2>1. UNCHANGED <<prompts, versions, fts>> /\ UNCHANGED <<tags, promptTags>>
    BY <1>8 DEF vars
  <2>2. QED
    BY <2>1, TagStepKeepsRest DEF Sound, TypeOK, Referential
<1>9. QED
  BY <1>1, <1>2, <1>3, <1>4, <1>5, <1>6, <1>7, <1>8 DEF Next

(* The checksum that is written is that of the row that is written.        *)
LEMMA NextChecksums ==
  ASSUME IInv, [Next]_vars
  PROVE  ChecksumsMatch'
<1> DEFINE Right(row) == row.checksum = Checksum(row.slug, row.title, row.category)
<1>1. ChecksumsMatch <=> \A p \in DOMAIN prompts : Right(prompts[p])
  BY DEF ChecksumsMatch
<1>2. \A p \in DOMAIN prompts : prompts[p] \in PromptRow
  BY DEF IInv, Sound, TypeOK
<1>3. SUFFICES \A p \in DOMAIN prompts' : Right(prompts'[p])
  BY DEF ChecksumsMatch
<1>4. ASSUME NEW p \in PromptIds, NEW s \in Slugs, NEW t \in Titles, NEW c \in Categories,
             NEW b \in Bodies, NEW f \in Formats, NEW at \in Times,
             CreatePrompt(p, s, t, c, b, f, at)
      PROVE  \A q \in DOMAIN prompts' : Right(prompts'[q])
  BY <1>1, <1>4 DEF CreatePrompt, IInv
<1>5. ASSUME NEW p \in PromptIds, NEW t \in Titles \cup {Keep},
             NEW c \in Categories \cup {Keep}, UpdatePromptMetadata(p, t, c)
      PROVE  \A q \in DOMAIN prompts' : Right(prompts'[q])
  BY <1>1, <1>2, <1>5 DEF UpdatePromptMetadata, Active, IInv, PromptRow
<1>6. ASSUME NEW p \in PromptIds, SoftDeletePrompt(p) \/ RestorePrompt(p)
      PROVE  \A q \in DOMAIN prompts' : Right(prompts'[q])
  <2>1. /\ DOMAIN prompts' = DOMAIN prompts
        /\ \A q \in DOMAIN prompts : \/ prompts'[q] = prompts[q]
                                     \/ \E x : prompts'[q] = [prompts[q] EXCEPT !.trashed = x]
    BY <1>6 DEF SoftDeletePrompt, RestorePrompt, SetTrashed
  <2>2. QED
    BY <1>1, <1>2, <2>1 DEF IInv, PromptRow
<1>7. ASSUME NEW p \in PromptIds, PermanentlyDeletePrompt(p)
      PROVE  \A q \in DOMAIN prompts' : Right(prompts'[q])
  BY <1>1, <1>7 DEF PermanentlyDeletePrompt, IInv
<1>8. CASE prompts' = prompts
  BY <1>1, <1>8 DEF IInv
<1>9. ASSUME \/ \E p \in PromptIds, b \in Bodies, f \in Formats, at \in Times :
                  AddVersion(p, b, f, at)
             \/ \E v \in versions, f \in Formats : UpdateVersionFormat(v, f)
             \/ \E p \in PromptIds, ls \in SUBSET Labels \ {{}} :
                  UpsertTags(p, ls) \/ RemoveTags(p, ls)
             \/ UNCHANGED vars
      PROVE  prompts' = prompts
  BY <1>9 DEF AddVersion, UpdateVersionFormat, UpsertTags, RemoveTags, vars
<1>10. QED
  BY <1>4, <1>5, <1>6, <1>7, <1>8, <1>9 DEF Next

LEMMA InitIInv == Init => IInv
BY InitSound DEF Init, IInv, ChecksumsMatch

LEMMA NextIInv == IInv /\ [Next]_vars => IInv'
BY NextSound, NextChecksums DEF IInv

-----------------------------------------------------------------------------
(* The theorems *)

(* The invariant holds of every reachable state. *)
THEOREM Invariance == Spec => []IInv
<1>1. QED
  BY InitIInv, NextIInv, PTL DEF Spec

(* Every table keeps to its schema, whatever the constants. *)
THEOREM TypeCorrect == Spec => []TypeOK
<1>1. IInv => TypeOK
  BY DEF IInv, Sound
<1>2. QED
  BY <1>1, Invariance, PTL

(* No prompt is without a version and no row refers to one that is gone.   *)
THEOREM NothingDangles == Spec => []Referential
<1>1. IInv => Referential
  BY DEF IInv, Sound
<1>2. QED
  BY <1>1, Invariance, PTL

(* The index that searches read is exactly the active prompts with their   *)
(* latest bodies, although only the triggers maintain it.                  *)
THEOREM IndexFollowsTables == Spec => []IndexExact
<1>1. IInv => IndexExact
  BY DEF IInv, Sound
<1>2. QED
  BY <1>1, Invariance, PTL

(* No sequence of calls leaves a row that getPromptById would refuse.      *)
THEOREM ChecksumsAlwaysMatch == Spec => []ChecksumsMatch
<1>1. IInv => ChecksumsMatch
  BY DEF IInv, Sound
<1>2. QED
  BY <1>1, Invariance, PTL

(* The UNIQUE slug of every row, the trash included, is what makes the     *)
(* slugs of the active prompts unique after any restore.                   *)
THEOREM SlugFindsOnePrompt == Spec => []ActiveSlugsUnique
<1>1. IInv => ActiveSlugsUnique
  BY DEF IInv, Sound, SlugsUnique, ActiveSlugsUnique
<1>2. QED
  BY <1>1, Invariance, PTL

-----------------------------------------------------------------------------
(* What a step never does *)

(* The versions that a step removes or adds. *)
LEMMA VersionStep ==
  ASSUME Sound, Next
  PROVE  \/ versions' = versions
         \/ \E v \in VersionRow :
               /\ versions' = versions \cup {v}
               /\ \A w \in versions : w.row < v.row
         \/ \E p \in PromptIds :
               versions' = {v \in versions : v.prompt # p} /\ p \notin DOMAIN prompts'
         \/ /\ \A v \in versions : \E w \in versions' : SameVersion(v, w)
            /\ \A w \in versions' : \E v \in versions : SameVersion(v, w)
<1>1. ASSUME NEW p \in PromptIds, NEW b \in Bodies, NEW f \in Formats, NEW at \in Times,
             InsertVersion(p, b, f, at)
      PROVE  \E v \in VersionRow : /\ versions' = versions \cup {v}
                                    /\ \A w \in versions : w.row < v.row
  BY <1>1, InsertVersionAdds DEF Sound
<1>2. ASSUME NEW p \in PromptIds, NEW s \in Slugs, NEW t \in Titles, NEW c \in Categories,
             NEW b \in Bodies, NEW f \in Formats, NEW at \in Times,
             CreatePrompt(p, s, t, c, b, f, at)
      PROVE  \E v \in VersionRow : /\ versions' = versions \cup {v}
                                    /\ \A w \in versions : w.row < v.row
  BY <1>1, <1>2 DEF CreatePrompt
<1>3. ASSUME NEW p \in PromptIds, PermanentlyDeletePrompt(p)
      PROVE  versions' = {v \in versions : v.prompt # p} /\ p \notin DOMAIN prompts'
  BY <1>3 DEF PermanentlyDeletePrompt
<1>4. ASSUME NEW u \in versions, NEW f \in Formats, UpdateVersionFormat(u, f)
      PROVE  /\ \A v \in versions : \E w \in versions' : SameVersion(v, w)
             /\ \A w \in versions' : \E v \in versions : SameVersion(v, w)
  <2>1. u \in VersionRow
    BY DEF Sound, TypeOK
  <2>2. SameVersion(u, [u EXCEPT !.format = f])
    BY <2>1 DEF VersionRow, SameVersion
  <2>3. QED
    BY <1>4, <2>2 DEF UpdateVersionFormat, SameVersion
<1>5. ASSUME NEW p \in PromptIds, SetTrashed(p, TRUE) \/ SetTrashed(p, FALSE)
      PROVE  versions' = versions
  BY <1>5 DEF SetTrashed
<1>6. ASSUME NEW p \in PromptIds, NEW t \in Titles \cup {Keep}, NEW c \in Categories \cup {Keep},
             UpdatePromptMetadata(p, t, c)
      PROVE  versions' = versions
  BY <1>6 DEF UpdatePromptMetadata
<1>7. ASSUME NEW p \in PromptIds, NEW ls \in SUBSET Labels \ {{}},
             UpsertTags(p, ls) \/ RemoveTags(p, ls)
      PROVE  versions' = versions
  BY <1>7 DEF UpsertTags, RemoveTags
<1>8. ASSUME NEW p \in PromptIds, NEW b \in Bodies, NEW f \in Formats, NEW at \in Times,
             AddVersion(p, b, f, at)
      PROVE  \E v \in VersionRow : /\ versions' = versions \cup {v}
                                    /\ \A w \in versions : w.row < v.row
  BY <1>1, <1>8 DEF AddVersion
<1>9. QED
  BY <1>2, <1>3, <1>4, <1>5, <1>6, <1>7, <1>8 DEF Next, SoftDeletePrompt, RestorePrompt

(* A version leaves the table only together with its prompt. *)
THEOREM HistoryIsAppendOnly == Spec => HistoryAppendOnly
<1>1. ASSUME Sound, Next
      PROVE  HistoryStep
  <2>1. \A v : SameVersion(v, v)
    BY DEF SameVersion
  <2>2. CASE versions' = versions
    BY <2>1, <2>2 DEF HistoryStep
  <2>3. CASE \E u \in VersionRow : versions' = versions \cup {u}
    BY <2>1, <2>3 DEF HistoryStep
  <2>4. CASE \E p \in PromptIds :
               versions' = {v \in versions : v.prompt # p} /\ p \notin DOMAIN prompts'
    BY <2>1, <2>4 DEF HistoryStep
  <2>5. CASE \A v \in versions : \E w \in versions' : SameVersion(v, w)
    BY <2>5 DEF HistoryStep
  <2>6. QED
    BY <1>1, <2>2, <2>3, <2>4, <2>5, VersionStep
<1>2. IInv /\ [Next]_vars => [HistoryStep]_vars
  BY <1>1 DEF IInv
<1>3. QED
  BY <1>2, Invariance, PTL DEF Spec, HistoryAppendOnly

(* A version written last, at a time that no version of the prompt is      *)
(* beyond, is the latest: the order of rowids breaks the tie of a second.  *)
THEOREM NewestVersionWins == Spec => NewestWins
<1>1. ASSUME Sound, Next
      PROVE  NewestWinsStep
  <2> SUFFICES ASSUME NEW v \in versions',
                      \A w \in versions : ~SameVersion(w, v),
                      \A w \in VersionsOf(versions, v.prompt) : w.created <= v.created
               PROVE  Latest(VersionsOf(versions', v.prompt)) = v
    BY DEF NewestWinsStep
  <2>1. v \notin versions
    BY DEF SameVersion
  <2>2. PICK u \in VersionRow : versions' = versions \cup {u} /\ \A w \in versions : w.row < u.row
    BY <1>1, <2>1, VersionStep
  <2>3. v = u
    BY <2>1, <2>2
  <2>4. versions \subseteq VersionRow
    BY <1>1 DEF Sound, TypeOK
  <2>5. \A w \in versions \cup {v} : w.created \in Nat /\ w.row \in Nat
    BY <2>3, <2>4, TimesAreNaturals DEF VersionRow
  <2>6. \A x, y \in versions' : x.row = y.row => x = y
    BY <1>1, <2>2, <2>3, <2>5 DEF Sound, RowsDistinct
  <2>7. \A w \in VersionsOf(versions', v.prompt) : NotOlder(v, w)
    <3>1. ASSUME NEW w \in versions, w.prompt = v.prompt
          PROVE  NotOlder(v, w)
      <4>1. w.created <= v.created
        BY <3>1 DEF VersionsOf
      <4>2. QED
        BY <2>2, <2>3, <2>5, <4>1 DEF NotOlder
    <3>2. NotOlder(v, v)
      BY <2>5 DEF NotOlder
    <3>3. QED
      BY <2>2, <2>3, <3>1, <3>2 DEF VersionsOf
  <2>8. QED
    <3>1. VersionsOf(versions', v.prompt) \subseteq versions' /\ v \in VersionsOf(versions', v.prompt)
      BY DEF VersionsOf
    <3>2. versions' \subseteq VersionRow
      BY <2>2, <2>4
    <3>3. QED
      BY <2>6, <2>7, <3>1, <3>2, LatestIs
<1>2. IInv /\ [Next]_vars => [NewestWinsStep]_vars
  BY <1>1 DEF IInv
<1>3. QED
  BY <1>2, Invariance, PTL DEF Spec, NewestWins

-----------------------------------------------------------------------------
(* The tables implement the library of PromptLibrary: what they show *)

(* What the tables alone say of a prompt, the index left aside. *)
LabelsOf(pt, p) == {l \in Labels : <<p, l>> \in pt}

BodiesOf(vs, p) == {v.body : v \in VersionsOf(vs, p)}

Content(ps, vs, pt, p) ==
  [slug |-> ps[p].slug, title |-> ps[p].title, category |-> ps[p].category,
   trashed |-> ps[p].trashed, labels |-> LabelsOf(pt, p),
   bodies |-> BodiesOf(vs, p), latest |-> LatestBody(vs, p)]

ShownAsStored ==
  Shown = [p \in DOMAIN prompts |-> Content(prompts, versions, promptTags, p)]

(* An exact index shows what the tables say. *)
LEMMA ShownIs == Sound => ShownAsStored
<1> SUFFICES ASSUME Sound, NEW p \in DOMAIN prompts, Active(p)
             PROVE  /\ Found(p).title = prompts[p].title
                    /\ Found(p).body = LatestBody(versions, p)
  BY DEF ShownAsStored, Shown, Content, LabelsOf, BodiesOf
<1> DEFINE entry == Entry(prompts, versions, p)
<1>1. entry.row = prompts[p].row /\ entry \in fts
  BY DEF Sound, IndexExact, ExactIndex, Entry, Active
<1>2. ASSUME NEW e \in fts, e.row = prompts[p].row
      PROVE  e = entry
  <2>1. PICK q \in DOMAIN prompts : e = Entry(prompts, versions, q)
    BY DEF Sound, IndexExact, ExactIndex
  <2>2. q = p
    BY <1>2, <2>1 DEF Sound, RowsDistinct, Entry
  <2>3. QED
    BY <2>1, <2>2
<1>3. Found(p) = entry
  BY <1>1, <1>2, Zenon DEF Found
<1>4. QED
  BY <1>3 DEF Entry

(* A prompt whose row, versions and links a step leaves alone looks as     *)
(* before.                                                                 *)
LEMMA ContentSame ==
  ASSUME NEW ps, NEW qs, NEW vs, NEW ws, NEW pt, NEW qt, NEW p,
         qs[p] = ps[p], VersionsOf(ws, p) = VersionsOf(vs, p),
         LabelsOf(qt, p) = LabelsOf(pt, p)
  PROVE  Content(qs, ws, qt, p) = Content(ps, vs, pt, p)
BY DEF Content, BodiesOf, LatestBody

(* The same in the state after a step. *)
LEMMA ShownNext == Sound' => ShownAsStored'
BY ShownIs, PTL

-----------------------------------------------------------------------------
(* Each operation is one of the library, or none *)

LEMMA CreatePromptIsCreate ==
  ASSUME Sound, Sound',
         NEW p \in PromptIds, NEW s \in Slugs, NEW t \in Titles, NEW c \in Categories,
         NEW b \in Bodies, NEW f \in Formats, NEW at \in Times,
         CreatePrompt(p, s, t, c, b, f, at)
  PROVE  Library!Create(p, s, t, c, b)
<1> DEFINE before(q) == Content(prompts, versions, promptTags, q)
           after(q) == Content(prompts', versions', promptTags', q)
<1>1. PICK v \in VersionRow :
        /\ v.prompt = p /\ v.body = b
        /\ versions' = versions \cup {v}
        /\ \A w \in versions : w.row < v.row
  BY InsertVersionAdds DEF CreatePrompt, Sound
<1>2. VersionsOf(versions, p) = {}
  BY DEF Sound, Referential, VersionsOf, CreatePrompt
<1>3. /\ VersionsOf(versions', p) = {v}
      /\ \A q : q # p => VersionsOf(versions', q) = VersionsOf(versions, q)
  BY <1>1, <1>2, InsertVersionEffect DEF Sound
<1>4. /\ p \notin DOMAIN prompts
      /\ \A q \in DOMAIN prompts : prompts[q].slug # s
      /\ DOMAIN prompts' = DOMAIN prompts \cup {p}
      /\ \A q \in DOMAIN prompts : prompts'[q] = prompts[q]
      /\ prompts'[p].slug = s /\ prompts'[p].title = t /\ prompts'[p].category = c
      /\ prompts'[p].trashed = FALSE
      /\ promptTags' = promptTags
  BY DEF CreatePrompt
<1>5. \A q \in DOMAIN prompts : after(q) = before(q)
  BY <1>3, <1>4, ContentSame
<1>6. LatestBody(versions', p) = b /\ BodiesOf(versions', p) = {b}
  <2>1. NotOlder(v, v)
    BY TimesAreNaturals DEF VersionRow, NotOlder
  <2>2. Latest({v}) = v
    BY <2>1 DEF Latest
  <2>3. QED
    BY <1>1, <1>3, <2>2 DEF LatestBody, BodiesOf
<1>7. LabelsOf(promptTags', p) = {}
  BY <1>4 DEF Sound, Referential, LabelsOf
<1>8. after(p) = [slug |-> s, title |-> t, category |-> c, trashed |-> FALSE,
                  labels |-> {}, bodies |-> {b}, latest |-> b]
  BY <1>4, <1>6, <1>7 DEF Content
<1>9. /\ Shown = [q \in DOMAIN prompts |-> before(q)]
      /\ Shown' = [q \in DOMAIN prompts' |-> after(q)]
  BY ShownIs, ShownNext DEF ShownAsStored
<1>10. \A q \in DOMAIN prompts : before(q).slug = prompts[q].slug
  BY DEF Content
<1> HIDE DEF before, after
<1>11. QED
  BY <1>4, <1>5, <1>8, <1>9, <1>10 DEF Library!Create, Library!Put

(* The new version is the latest, or the former latest one stays it when   *)
(* the clock was set back.                                                 *)
LEMMA AddVersionIsAppend ==
  ASSUME Sound, Sound',
         NEW p \in PromptIds, NEW b \in Bodies, NEW f \in Formats, NEW at \in Times,
         AddVersion(p, b, f, at)
  PROVE  Library!Append(p, b)
<1> DEFINE before(q) == Content(prompts, versions, promptTags, q)
           after(q) == Content(prompts', versions', promptTags', q)
<1>1. PICK v \in VersionRow :
        /\ v.prompt = p /\ v.body = b
        /\ versions' = versions \cup {v}
        /\ \A w \in versions : w.row < v.row
  BY InsertVersionAdds DEF AddVersion, Sound
<1>2. /\ p \in DOMAIN prompts
      /\ prompts' = prompts /\ promptTags' = promptTags
  BY DEF AddVersion
<1>3. /\ VersionsOf(versions', p) = VersionsOf(versions, p) \cup {v}
      /\ \A q : q # p => VersionsOf(versions', q) = VersionsOf(versions, q)
  BY <1>1, InsertVersionEffect DEF Sound
<1>4. \A q \in DOMAIN prompts : q # p => after(q) = before(q)
  BY <1>2, <1>3, ContentSame
<1>5. BodiesOf(versions', p) = BodiesOf(versions, p) \cup {b}
  BY <1>1, <1>3 DEF BodiesOf
<1>6. LatestBody(versions', p) \in {b, LatestBody(versions, p)}
  <2>1. PICK x \in VersionsOf(versions', p) :
          \A w \in VersionsOf(versions', p) : NotOlder(x, w)
    BY <1>2 DEF Sound, HasLatest
  <2>2. LatestBody(versions', p) = x.body
    BY <2>1, LatestBodyType DEF Sound, TypeOK, RowsDistinct
  <2>3. CASE x \in VersionsOf(versions, p)
    <3>1. \A w \in VersionsOf(versions, p) : NotOlder(x, w)
      BY <1>3, <2>1
    <3>2. LatestBody(versions, p) = x.body
      BY <2>3, <3>1, LatestBodyType DEF Sound, TypeOK, RowsDistinct
    <3>3. QED
      BY <2>2, <3>2
  <2>4. QED
    BY <1>1, <1>3, <2>1, <2>2, <2>3
<1> DEFINE bodies == BodiesOf(versions, p) \cup {b}
           latest == LatestBody(versions', p)
<1>7. after(p) = [before(p) EXCEPT !.bodies = bodies, !.latest = latest]
  <2>1. after(p) = [slug |-> prompts[p].slug, title |-> prompts[p].title,
                    category |-> prompts[p].category, trashed |-> prompts[p].trashed,
                    labels |-> LabelsOf(promptTags, p), bodies |-> bodies, latest |-> latest]
    BY <1>2, <1>5 DEF Content
  <2> DEFINE longer == [before(p) EXCEPT !.bodies = bodies]
  <2>2. longer = [slug |-> prompts[p].slug, title |-> prompts[p].title,
                  category |-> prompts[p].category, trashed |-> prompts[p].trashed,
                  labels |-> LabelsOf(promptTags, p), bodies |-> bodies,
                  latest |-> LatestBody(versions, p)]
    <3> HIDE DEF bodies
    <3>1. before(p) = [slug |-> prompts[p].slug, title |-> prompts[p].title,
                       category |-> prompts[p].category, trashed |-> prompts[p].trashed,
                       labels |-> LabelsOf(promptTags, p), bodies |-> BodiesOf(versions, p),
                       latest |-> LatestBody(versions, p)]
      BY DEF Content
    <3> HIDE DEF before
    <3>2. QED
      BY <3>1
  <2>3. [before(p) EXCEPT !.bodies = bodies, !.latest = latest] = [longer EXCEPT !.latest = latest]
    OBVIOUS
  <2> HIDE DEF longer, latest
  <2>4. after(p) = [longer EXCEPT !.latest = latest]
    BY <2>1, <2>2
  <2>5. QED
    BY <2>3, <2>4
<1>8. before(p).latest = LatestBody(versions, p) /\ bodies = before(p).bodies \cup {b}
  BY DEF Content
<1>9. /\ Shown = [q \in DOMAIN prompts |-> before(q)]
      /\ Shown' = [q \in DOMAIN prompts' |-> after(q)]
  BY ShownIs, ShownNext DEF ShownAsStored
<1>10. latest \in {b, before(p).latest}
  BY <1>6, <1>8
<1> HIDE DEF before, after, bodies, latest
<1>11. p \in DOMAIN Shown /\ Shown[p] = before(p)
  BY <1>2, <1>9
<1>12. Library!Put(p, [Shown[p] EXCEPT !.bodies = Shown[p].bodies \cup {b}, !.latest = latest])
  BY <1>2, <1>4, <1>7, <1>8, <1>9, <1>11 DEF Library!Put
<1>13. QED
  BY <1>10, <1>11, <1>12 DEF Library!Append

(* A step that changes the row of one prompt, and nothing else that is     *)
(* shown, puts a new record in the place of that prompt.                   *)
LEMMA RowStep ==
  ASSUME Sound, Sound', NEW p \in DOMAIN prompts, NEW new,
         DOMAIN prompts' = DOMAIN prompts,
         \A q \in DOMAIN prompts : q # p => prompts'[q] = prompts[q],
         versions' = versions,
         \A q \in DOMAIN prompts : q # p => LabelsOf(promptTags', q) = LabelsOf(promptTags, q),
         new = Content(prompts', versions', promptTags', p)
  PROVE  /\ Shown[p] = Content(prompts, versions, promptTags, p)
         /\ p \in DOMAIN Shown
         /\ Library!Put(p, new)
<1>1. \A q \in DOMAIN prompts : q # p =>
        Content(prompts', versions', promptTags', q) = Content(prompts, versions, promptTags, q)
  BY ContentSame
<1>2. QED
  BY <1>1, ShownIs, ShownNext DEF ShownAsStored, Library!Put

LEMMA WriteColumnsIsEdit ==
  ASSUME Sound, Sound',
         NEW p \in DOMAIN prompts, NEW t \in Titles \cup {Keep},
         NEW c \in Categories \cup {Keep}, NEW checksum,
         WriteColumns(p, t, c, checksum)
  PROVE  \E title \in Titles, category \in Categories : Library!Edit(p, title, category)
<1> DEFINE title == Chosen(t, prompts[p].title)
           category == Chosen(c, prompts[p].category)
           old == Content(prompts, versions, promptTags, p)
           new == Content(prompts', versions', promptTags', p)
<1>1. prompts[p] \in PromptRow
  BY DEF Sound, TypeOK
<1>2. title \in Titles /\ category \in Categories
  BY <1>1 DEF Chosen, PromptRow
<1>3. prompts' = [prompts EXCEPT
        ![p] = [prompts[p] EXCEPT !.title = title, !.category = category,
                                  !.checksum = checksum]]
  BY DEF WriteColumns
<1>4. versions' = versions /\ promptTags' = promptTags
  BY DEF WriteColumns
<1>5. /\ DOMAIN prompts' = DOMAIN prompts
      /\ \A q \in DOMAIN prompts : q # p => prompts'[q] = prompts[q]
  BY <1>3
<1>6. /\ prompts'[p].slug = prompts[p].slug /\ prompts'[p].trashed = prompts[p].trashed
      /\ prompts'[p].title = title /\ prompts'[p].category = category
  BY <1>1, <1>3 DEF PromptRow
<1>7. new = [old EXCEPT !.title = title, !.category = category]
  <2>1. new = [slug |-> prompts[p].slug, title |-> title, category |-> category,
               trashed |-> prompts[p].trashed, labels |-> LabelsOf(promptTags, p),
               bodies |-> BodiesOf(versions, p), latest |-> LatestBody(versions, p)]
    BY <1>4, <1>6 DEF Content
  <2> DEFINE titled == [old EXCEPT !.title = title]
  <2>2. titled = [slug |-> prompts[p].slug, title |-> title,
                  category |-> prompts[p].category, trashed |-> prompts[p].trashed,
                  labels |-> LabelsOf(promptTags, p), bodies |-> BodiesOf(versions, p),
                  latest |-> LatestBody(versions, p)]
    BY DEF Content
  <2>3. [old EXCEPT !.title = title, !.category = category] = [titled EXCEPT !.category = category]
    OBVIOUS
  <2> HIDE DEF titled, category
  <2>4. new = [titled EXCEPT !.category = category]
    BY <2>1, <2>2
  <2>5. QED
    BY <2>3, <2>4
<1>8. Shown[p] = old /\ p \in DOMAIN Shown /\ Library!Put(p, new)
  BY <1>4, <1>5, RowStep
<1> HIDE DEF title, category, old, new
<1>9. Library!Edit(p, title, category)
  BY <1>7, <1>8 DEF Library!Edit
<1>10. QED
  BY <1>2, <1>9

LEMMA SetTrashedIsMove ==
  ASSUME Sound, Sound', NEW p \in DOMAIN prompts, NEW trashed \in BOOLEAN,
         SetTrashed(p, trashed)
  PROVE  Library!Move(p, trashed)
<1> DEFINE old == Content(prompts, versions, promptTags, p)
           new == Content(prompts', versions', promptTags', p)
<1>1. prompts' = [prompts EXCEPT ![p].trashed = trashed]
  BY DEF SetTrashed
<1>2. versions' = versions /\ promptTags' = promptTags
  BY DEF SetTrashed
<1>3. prompts[p] \in PromptRow
  BY DEF Sound, TypeOK
<1>4. /\ DOMAIN prompts' = DOMAIN prompts
      /\ \A q \in DOMAIN prompts : q # p => prompts'[q] = prompts[q]
      /\ prompts'[p].slug = prompts[p].slug /\ prompts'[p].title = prompts[p].title
      /\ prompts'[p].category = prompts[p].category /\ prompts'[p].trashed = trashed
  BY <1>1, <1>3 DEF PromptRow
<1>5. new = [old EXCEPT !.trashed = trashed]
  BY <1>2, <1>4 DEF Content
<1>6. Shown[p] = old /\ p \in DOMAIN Shown /\ Library!Put(p, new)
  BY <1>2, <1>4, RowStep
<1> HIDE DEF old, new
<1>7. QED
  BY <1>5, <1>6 DEF Library!Move

LEMMA PermanentlyDeletePromptIsPurge ==
  ASSUME Sound, Sound', NEW p \in PromptIds, PermanentlyDeletePrompt(p)
  PROVE  Library!Purge(p)
<1>1. /\ p \in DOMAIN prompts
      /\ DOMAIN prompts' = DOMAIN prompts \ {p}
      /\ \A q \in DOMAIN prompts \ {p} : prompts'[q] = prompts[q]
      /\ versions' = {v \in versions : v.prompt # p}
      /\ promptTags' = {pt \in promptTags : pt[1] # p}
  BY DEF PermanentlyDeletePrompt
<1>2. \A q : q # p => VersionsOf(versions', q) = VersionsOf(versions, q)
  BY <1>1 DEF VersionsOf
<1>3. \A q : q # p => LabelsOf(promptTags', q) = LabelsOf(promptTags, q)
  BY <1>1 DEF LabelsOf
<1>4. \A q \in DOMAIN prompts \ {p} :
        Content(prompts', versions', promptTags', q) = Content(prompts, versions, promptTags, q)
  BY <1>1, <1>2, <1>3, ContentSame
<1>5. QED
  BY ZenonT(60), <1>1, <1>4, ShownIs, ShownNext DEF ShownAsStored, Library!Purge

(* A step after which every prompt looks as before is no step at all.      *)
LEMMA NothingShown ==
  ASSUME Sound, Sound',
         prompts' = prompts,
         \A p \in DOMAIN prompts :
           Content(prompts', versions', promptTags', p) = Content(prompts, versions, promptTags, p)
  PROVE  Shown' = Shown
BY ShownIs, ShownNext DEF ShownAsStored

(* The format of a version is not part of the library. *)
LEMMA UpdateVersionFormatIsStutter ==
  ASSUME Sound, Sound', NEW u \in versions, NEW f \in Formats, UpdateVersionFormat(u, f)
  PROVE  Shown' = Shown
<1>1. prompts' = prompts /\ fts' = fts /\ promptTags' = promptTags
  BY DEF UpdateVersionFormat
<1>2. /\ \A v \in versions : \E w \in versions' : SameVersion(v, w)
      /\ \A w \in versions' : \E v \in versions : SameVersion(v, w)
  <2>1. u \in VersionRow
    BY DEF Sound, TypeOK
  <2>2. SameVersion(u, [u EXCEPT !.format = f])
    BY <2>1 DEF VersionRow, SameVersion
  <2>3. QED
    BY <2>2 DEF UpdateVersionFormat, SameVersion
<1>3. ASSUME NEW p \in DOMAIN prompts
      PROVE  BodiesOf(versions', p) = BodiesOf(versions, p)
  BY <1>2 DEF BodiesOf, VersionsOf, SameVersion
<1>4. ASSUME NEW p \in DOMAIN prompts
      PROVE  LatestBody(versions', p) = LatestBody(versions, p)
  <2>1. PICK m \in VersionsOf(versions, p) : \A w \in VersionsOf(versions, p) : NotOlder(m, w)
    BY DEF Sound, HasLatest
  <2>2. PICK x \in versions' : SameVersion(m, x)
    BY <1>2, <2>1 DEF VersionsOf
  <2>3. x \in VersionsOf(versions', p) /\ x.body = m.body
    BY <2>1, <2>2 DEF VersionsOf, SameVersion
  <2>4. \A y \in VersionsOf(versions', p) : NotOlder(x, y)
    BY <1>2, <2>1, <2>2 DEF VersionsOf, SameVersion, NotOlder
  <2>5. LatestBody(versions, p) = m.body
    BY <2>1, LatestBodyType DEF Sound, TypeOK, RowsDistinct
  <2>6. LatestBody(versions', p) = x.body
    BY <2>3, <2>4, LatestBodyType DEF Sound, TypeOK, RowsDistinct
  <2>7. QED
    BY <2>3, <2>5, <2>6
<1>5. \A p \in DOMAIN prompts :
        Content(prompts', versions', promptTags', p) = Content(prompts, versions, promptTags, p)
  BY <1>1, <1>3, <1>4 DEF Content
<1>6. QED
  BY <1>1, <1>5, NothingShown

(* Links of a prompt that is in the library change its labels, those of    *)
(* others, as RemoveTags may be asked to remove them, are not there.       *)
LEMMA TagEditIsLabel ==
  ASSUME Sound, Sound', NEW p \in PromptIds, NEW ls \in SUBSET Labels \ {{}},
         UpsertTags(p, ls) \/ RemoveTags(p, ls)
  PROVE  (\E labels \in SUBSET Labels : Library!Label(p, labels)) \/ Shown' = Shown
<1> DEFINE old == Content(prompts, versions, promptTags, p)
           new == Content(prompts', versions', promptTags', p)
           labels == LabelsOf(promptTags', p)
<1>1. prompts' = prompts /\ versions' = versions
  BY DEF UpsertTags, RemoveTags
<1>2. \A q : q # p => LabelsOf(promptTags', q) = LabelsOf(promptTags, q)
  BY DEF UpsertTags, RemoveTags, LabelsOf
<1>3. CASE p \in DOMAIN prompts
  <2>1. new = [old EXCEPT !.labels = labels]
    BY <1>1 DEF Content
  <2>2. labels \in SUBSET Labels
    BY DEF LabelsOf
  <2>3. Shown[p] = old /\ p \in DOMAIN Shown /\ Library!Put(p, new)
    BY <1>1, <1>2, <1>3, RowStep
  <2> HIDE DEF old, new, labels
  <2>4. Library!Label(p, labels)
    BY <2>1, <2>3 DEF Library!Label
  <2>5. QED
    BY <2>2, <2>4
<1>4. CASE p \notin DOMAIN prompts
  <2>1. \A q \in DOMAIN prompts :
          Content(prompts', versions', promptTags', q) = Content(prompts, versions, promptTags, q)
    BY <1>1, <1>2, <1>4, ContentSame
  <2>2. QED
    BY <1>1, <2>1, NothingShown
<1>5. QED
  BY <1>3, <1>4

-----------------------------------------------------------------------------
(* The theorem *)

LEMMA InitShown == Init => Library!Init
BY DEF Init, Shown, Library!Init

LEMMA NextShown ==
  ASSUME Sound, Sound', [Next]_vars
  PROVE  [Library!Next]_Shown
<1>1. ASSUME NEW p \in PromptIds, NEW s \in Slugs, NEW t \in Titles, NEW c \in Categories,
             NEW b \in Bodies, NEW f \in Formats, NEW at \in Times,
             CreatePrompt(p, s, t, c, b, f, at)
      PROVE  Library!Next
  BY <1>1, CreatePromptIsCreate DEF Library!Next
<1>2. ASSUME NEW p \in PromptIds, NEW b \in Bodies, NEW f \in Formats, NEW at \in Times,
             AddVersion(p, b, f, at)
      PROVE  Library!Next
  BY <1>2, AddVersionIsAppend DEF Library!Next
<1>3. ASSUME NEW p \in PromptIds, NEW t \in Titles \cup {Keep},
             NEW c \in Categories \cup {Keep}, UpdatePromptMetadata(p, t, c)
      PROVE  Library!Next
  BY <1>3, UpdateIsWriteColumns, WriteColumnsIsEdit DEF Library!Next
<1>4. ASSUME NEW p \in PromptIds, SoftDeletePrompt(p) \/ RestorePrompt(p)
      PROVE  Library!Next
  <2>1. p \in DOMAIN prompts /\ (SetTrashed(p, TRUE) \/ SetTrashed(p, FALSE))
    BY <1>4 DEF SoftDeletePrompt, RestorePrompt, Active
  <2>2. \E trashed \in BOOLEAN : Library!Move(p, trashed)
    BY <2>1, SetTrashedIsMove
  <2>3. QED
    BY <2>2 DEF Library!Next
<1>5. ASSUME NEW p \in PromptIds, PermanentlyDeletePrompt(p)
      PROVE  Library!Next
  BY <1>5, PermanentlyDeletePromptIsPurge DEF Library!Next
<1>6. ASSUME NEW v \in versions, NEW f \in Formats, UpdateVersionFormat(v, f)
      PROVE  Shown' = Shown
  BY <1>6, UpdateVersionFormatIsStutter
<1>7. ASSUME NEW p \in PromptIds, NEW ls \in SUBSET Labels \ {{}},
             UpsertTags(p, ls) \/ RemoveTags(p, ls)
      PROVE  Library!Next \/ Shown' = Shown
  BY <1>7, TagEditIsLabel DEF Library!Next
<1>8. CASE UNCHANGED vars
  BY <1>8, NothingShown DEF vars
<1>9. QED
  BY <1>1, <1>2, <1>3, <1>4, <1>5, <1>6, <1>7, <1>8 DEF Next

(* Every method changes one prompt in one respect, for readers of the rows *)
(* and of the index alike: the tables implement the library.               *)
THEOREM TablesImplementLibrary == Spec => ImplementsLibrary
<1>1. Init => Sound
  BY InitSound
<1>2. QED
  BY <1>1, NextSound, InitShown, NextShown, PTL DEF Spec, ImplementsLibrary, Library!Spec

-----------------------------------------------------------------------------
(* Several processes *)

(* What a process holds between two statements of a call. *)
Moving == [step : {"trash", "untrash"}, prompt : PromptIds]
Checking == [step : {"check"}, prompt : PromptIds, title : Titles \cup {Keep},
             category : Categories \cup {Keep}]
Writing == [step : {"read"}, prompt : PromptIds, title : Titles \cup {Keep},
            category : Categories \cup {Keep}, seen : PromptRow]
Appending == [step : {"append"}, prompt : PromptIds, body : Bodies, format : Formats]

Calls == {Idle} \cup Moving \cup Checking \cup Writing \cup Appending

CallsTyped == call \in [Processes -> Calls]

SharedInv == Sound /\ CallsTyped

(* What a step does to the tables: nothing, or what one method of one      *)
(* process could have done in a single step, but for the checksum.         *)
TableStep ==
  \/ \E p \in PromptIds, s \in Slugs, t \in Titles, c \in Categories,
        b \in Bodies, f \in Formats, at \in Times : CreatePrompt(p, s, t, c, b, f, at)
  \/ \E p \in PromptIds, b \in Bodies, f \in Formats, at \in Times : AddVersion(p, b, f, at)
  \/ \E p \in DOMAIN prompts, t \in Titles \cup {Keep}, c \in Categories \cup {Keep},
        checksum \in Payload : WriteColumns(p, t, c, checksum)
  \/ \E p \in DOMAIN prompts, trashed \in BOOLEAN : SetTrashed(p, trashed)
  \/ \E p \in PromptIds : PermanentlyDeletePrompt(p)
  \/ UNCHANGED vars

-----------------------------------------------------------------------------
(* Steps of a process *)

(* What a process holds tells which statement comes next. *)
LEMMA CallAtStep ==
  ASSUME CallsTyped, NEW x \in Processes
  PROVE  /\ call[x].step \in {"trash", "untrash"} => call[x] \in Moving
         /\ call[x].step = "check" => call[x] \in Checking
         /\ call[x].step = "read" => call[x] \in Writing
         /\ call[x].step = "append" => call[x] \in Appending
<1>1. call[x] \in Calls
  BY DEF CallsTyped
<1>2. QED
  BY <1>1 DEF Calls, Idle, Moving, Checking, Writing, Appending

LEMMA ProceedTyped ==
  ASSUME CallsTyped, NEW x \in Processes, NEW next \in Calls, Proceed(x, next)
  PROVE  CallsTyped'
BY DEF CallsTyped, Proceed

LEMMA ReturnTyped ==
  ASSUME CallsTyped, NEW x \in Processes, Return(x)
  PROVE  CallsTyped'
<1>1. Idle \in Calls
  BY DEF Calls
<1>2. QED
  BY <1>1, ProceedTyped DEF Return

(* The first statement of a call reads. *)
LEMMA BeginStep ==
  ASSUME SharedInv, NEW x \in Processes, NEW p \in PromptIds,
         \/ BeginSoftDelete(x, p) \/ BeginRestore(x, p)
         \/ \E t \in Titles \cup {Keep}, c \in Categories \cup {Keep} : BeginUpdate(x, p, t, c)
         \/ \E b \in Bodies, f \in Formats : BeginAddVersion(x, p, b, f)
  PROVE  UNCHANGED vars /\ CallsTyped'
<1>1. CASE BeginSoftDelete(x, p) \/ BeginRestore(x, p)
  <2>1. PICK step \in {"trash", "untrash"} :
          Proceed(x, [step |-> step, prompt |-> p]) /\ UNCHANGED vars
    BY <1>1 DEF BeginSoftDelete, BeginRestore
  <2>2. [step |-> step, prompt |-> p] \in Calls
    BY DEF Calls, Moving
  <2>3. QED
    BY <2>1, <2>2, ProceedTyped DEF SharedInv
<1>2. ASSUME NEW t \in Titles \cup {Keep}, NEW c \in Categories \cup {Keep},
             BeginUpdate(x, p, t, c)
      PROVE  UNCHANGED vars /\ CallsTyped'
  <2>1. [step |-> "check", prompt |-> p, title |-> t, category |-> c] \in Calls
    BY DEF Calls, Checking
  <2>2. QED
    BY <1>2, <2>1, ProceedTyped DEF BeginUpdate, SharedInv
<1>3. ASSUME NEW b \in Bodies, NEW f \in Formats, BeginAddVersion(x, p, b, f)
      PROVE  UNCHANGED vars /\ CallsTyped'
  <2>1. [step |-> "append", prompt |-> p, body |-> b, format |-> f] \in Calls
    BY DEF Calls, Appending
  <2>2. QED
    BY <1>3, <2>1, ProceedTyped DEF BeginAddVersion, SharedInv
<1>4. QED
  BY <1>1, <1>2, <1>3

LEMMA ReadCurrentStep ==
  ASSUME SharedInv, NEW x \in Processes, ReadCurrent(x)
  PROVE  UNCHANGED vars /\ CallsTyped'
<1> DEFINE c == call[x]
<1>1. c \in Checking /\ UNCHANGED vars
  BY CallAtStep DEF ReadCurrent, SharedInv
<1>2. CASE c.prompt \in DOMAIN prompts
  <2>1. prompts[c.prompt] \in PromptRow
    BY <1>2 DEF SharedInv, Sound, TypeOK
  <2>2. [step |-> "read", prompt |-> c.prompt, title |-> c.title, category |-> c.category,
         seen |-> prompts[c.prompt]] \in Calls
    BY <1>1, <2>1 DEF Calls, Checking, Writing
  <2>3. QED
    BY <1>1, <1>2, <2>2, ProceedTyped DEF ReadCurrent, SharedInv
<1>3. CASE c.prompt \notin DOMAIN prompts
  BY <1>1, <1>3, ReturnTyped DEF ReadCurrent, SharedInv
<1>4. QED
  BY <1>2, <1>3

(* The UPDATE does not look at deleted_at again: what it finds may have    *)
(* been trashed, restored or edited since, or may be another process's     *)
(* new prompt of that id.                                                  *)
LEMMA FinishMoveStep ==
  ASSUME SharedInv, NEW x \in Processes, FinishSoftDelete(x) \/ FinishRestore(x)
  PROVE  TableStep /\ CallsTyped'
<1> DEFINE p == call[x].prompt
<1>1. PICK trashed \in BOOLEAN : IfPresent(p, SetTrashed(p, trashed)) /\ Return(x)
  BY DEF FinishSoftDelete, FinishRestore
<1>2. (p \in DOMAIN prompts /\ SetTrashed(p, trashed)) \/ UNCHANGED vars
  BY <1>1 DEF IfPresent
<1>3. QED
  BY <1>1, <1>2, ReturnTyped DEF TableStep, SharedInv

(* The columns given are written over the present row; only the checksum   *)
(* stems from the row that was read.                                       *)
LEMMA WriteUpdateStep ==
  ASSUME SharedInv, NEW x \in Processes, WriteUpdate(x)
  PROVE  TableStep /\ CallsTyped'
<1> DEFINE c == call[x]
           p == c.prompt
           checksum == Checksum(c.seen.slug, Chosen(c.title, c.seen.title),
                                Chosen(c.category, c.seen.category))
<1>1. c \in Writing
  BY CallAtStep DEF WriteUpdate, SharedInv
<1>2. c.title \in Titles \cup {Keep} /\ c.category \in Categories \cup {Keep}
  BY <1>1 DEF Writing
<1>3. checksum \in Payload
  BY <1>1 DEF Writing, PromptRow, Payload, Checksum, Chosen
<1>4. (p \in DOMAIN prompts /\ WriteColumns(p, c.title, c.category, checksum)) \/ UNCHANGED vars
  BY DEF WriteUpdate, IfPresent, WriteColumns
<1> HIDE DEF checksum
<1>5. TableStep
  BY <1>2, <1>3, <1>4 DEF TableStep
<1>6. QED
  BY <1>5, ReturnTyped DEF WriteUpdate, SharedInv

LEMMA FinishAddVersionStep ==
  ASSUME SharedInv, NEW x \in Processes, FinishAddVersion(x)
  PROVE  TableStep /\ CallsTyped'
<1> DEFINE c == call[x]
<1>1. c.prompt \in PromptIds /\ c.body \in Bodies /\ c.format \in Formats
  BY CallAtStep DEF FinishAddVersion, SharedInv, Appending
<1>2. (\E at \in Times : AddVersion(c.prompt, c.body, c.format, at)) \/ UNCHANGED vars
  BY DEF FinishAddVersion
<1>3. TableStep
  BY <1>1, <1>2 DEF TableStep
<1>4. QED
  BY <1>3, ReturnTyped DEF FinishAddVersion, SharedInv

LEMMA SharedStep ==
  ASSUME SharedInv, [SharedNext]_sharedVars
  PROVE  TableStep /\ CallsTyped'
<1>1. CASE UNCHANGED sharedVars
  BY <1>1 DEF sharedVars, vars, TableStep, SharedInv, CallsTyped
<1>2. ASSUME NEW x \in Processes, Transaction(x)
      PROVE  TableStep /\ CallsTyped'
  BY <1>2 DEF Transaction, TableStep, SharedInv, CallsTyped
<1>3. QED
  BY <1>1, <1>2, BeginStep, ReadCurrentStep, FinishMoveStep, WriteUpdateStep,
     FinishAddVersionStep DEF SharedNext, TableStep

-----------------------------------------------------------------------------
(* The tables *)

LEMMA TableStepSound ==
  ASSUME Sound, TableStep
  PROVE  Sound'
<1>1. UNCHANGED vars => Sound'
  BY NextSound
<1>2. QED
  BY <1>1, CreatePromptSound, AddVersionSound, WriteColumnsSound, SetTrashedSound,
     PermanentlyDeletePromptSound DEF TableStep

LEMMA SharedInitInv == SharedInit => SharedInv
<1>1. SharedInit => CallsTyped
  BY DEF SharedInit, CallsTyped, Calls
<1>2. QED
  BY <1>1, InitSound DEF SharedInit, SharedInv

LEMMA SharedNextInv == SharedInv /\ [SharedNext]_sharedVars => SharedInv'
BY SharedStep, TableStepSound DEF SharedInv

THEOREM SharedInvariance == SharedSpec => []SharedInv
<1>1. QED
  BY SharedInitInv, SharedNextInv, PTL DEF SharedSpec

(* Whatever the processes do between each other's statements, no row       *)
(* refers to one that is gone and no prompt is without a version.          *)
THEOREM NothingDanglesShared == SharedSpec => []Referential
<1>1. SharedInv => Referential
  BY DEF SharedInv, Sound
<1>2. QED
  BY <1>1, SharedInvariance, PTL

(* The triggers read the rows as they are when they fire, so the index is  *)
(* exact although the statements around them rely on earlier reads.        *)
THEOREM IndexFollowsTablesShared == SharedSpec => []IndexExact
<1>1. SharedInv => IndexExact
  BY DEF SharedInv, Sound
<1>2. QED
  BY <1>1, SharedInvariance, PTL

-----------------------------------------------------------------------------
(* The library *)

LEMMA TableStepShown ==
  ASSUME Sound, Sound', TableStep
  PROVE  [Library!Next]_Shown
<1>1. ASSUME NEW p \in PromptIds, NEW s \in Slugs, NEW t \in Titles, NEW c \in Categories,
             NEW b \in Bodies, NEW f \in Formats, NEW at \in Times,
             CreatePrompt(p, s, t, c, b, f, at)
      PROVE  Library!Next
  BY <1>1, CreatePromptIsCreate DEF Library!Next
<1>2. ASSUME NEW p \in PromptIds, NEW b \in Bodies, NEW f \in Formats, NEW at \in Times,
             AddVersion(p, b, f, at)
      PROVE  Library!Next
  BY <1>2, AddVersionIsAppend DEF Library!Next
<1>3. DOMAIN prompts \subseteq PromptIds
  BY DEF Sound, TypeOK
<1>4. ASSUME NEW p \in DOMAIN prompts, NEW t \in Titles \cup {Keep},
             NEW c \in Categories \cup {Keep}, NEW checksum \in Payload,
             WriteColumns(p, t, c, checksum)
      PROVE  Library!Next
  BY <1>3, <1>4, WriteColumnsIsEdit DEF Library!Next
<1>5. ASSUME NEW p \in DOMAIN prompts, NEW trashed \in BOOLEAN, SetTrashed(p, trashed)
      PROVE  Library!Next
  BY <1>3, <1>5, SetTrashedIsMove DEF Library!Next
<1>6. ASSUME NEW p \in PromptIds, PermanentlyDeletePrompt(p)
      PROVE  Library!Next
  BY <1>6, PermanentlyDeletePromptIsPurge DEF Library!Next
<1>7. CASE UNCHANGED vars
  BY <1>7, NothingShown DEF vars
<1>8. QED
  BY <1>1, <1>2, <1>4, <1>5, <1>6, <1>7 DEF TableStep

(* Each step of any process is one atomic change of one prompt, or none:   *)
(* the library that the front ends are promised is what they share.        *)
THEOREM SharedTablesImplementLibrary == SharedSpec => ImplementsLibrary
<1>1. SharedInit => Library!Init
  BY InitShown DEF SharedInit
<1>2. ASSUME SharedInv, SharedInv', [SharedNext]_sharedVars
      PROVE  [Library!Next]_Shown
  BY SMTT(60), <1>2, SharedStep, TableStepShown DEF SharedInv
<1>3. QED
  BY <1>1, <1>2, SharedInvariance, PTL DEF SharedSpec, ImplementsLibrary, Library!Spec

(***************************************************************************)
(* Migrations: one runner, whatever released database it finds             *)
(***************************************************************************)

Tables == {"prompts", "prompt_versions", "tags", "prompt_tags"}
Kept == Tables \cup Columns
Objects == Complete \cup Triggers \cup Index \cup {"indexes", "view", "more indexes"}

(* What a database of some version is sure to have. *)
Since(v) ==
  (IF v >= 1 THEN Tables ELSE {})
  \cup (IF v >= 2 THEN {"category"} ELSE {})
  \cup (IF v >= 3 THEN {"format"} ELSE {})
  \cup (IF v >= 4 THEN {"deleted_at"} ELSE {})
  \cup (IF v >= 5 THEN {"is_favorite", "rating"} ELSE {})
  \cup (IF v >= 7 THEN {"new fts", "new fts rows"} \cup NewTriggers ELSE {})

(* The objects that are there once a statement has run, skipped or not. *)
Left(s) == {o \in s.adds : s.unless \subseteq {o}}

-----------------------------------------------------------------------------
(* The files *)

(* Tables and columns are never dropped, nor is what an earlier statement   *)
(* of the file has left.                                                    *)
SparesObjects(S) ==
  \A k \in 1..Len(S) :
    /\ S[k].adds \subseteq Objects /\ S[k].drops \cap Kept = {}
    /\ \A j \in 1..(k - 1) : Left(S[j]) \cap S[k].drops = {}

(* One column of the guard is enough: with whole tables and paired columns  *)
(* the file that is skipped has nothing left to add.                        *)
Skips(guard, u, v) ==
  \A o \in guard : o \in Kept /\ v <= 5 /\
    \A p \in Since(v) :
      \/ p \in Since(u) \/ p = o
      \/ v = 1 /\ p \in Tables
      \/ v = 5 /\ {o, p} \subseteq {"is_favorite", "rating"}

(* After version `u', the statements lead to version `v'. *)
Delivers(S, u, v) ==
  \A o \in Since(v) : o \in Since(u) \/ \E k \in 1..Len(S) : o \in Left(S[k])

NeverThrows(S) ==
  \A k \in 1..Len(S) :
    /\ S[k].clash = {}
    /\ \A o \in S[k].needs : \E j \in 1..(k - 1) : o \in Left(S[j])

PairsColumns(S) ==
  \A k \in 1..Len(S) : "is_favorite" \in S[k].adds <=> "rating" \in S[k].adds

AddsPair(S, guard) ==
  /\ Len(S) = 2
  /\ S[1].adds = {"is_favorite"}
  /\ Left(S[1]) = {"is_favorite"} /\ Left(S[2]) = {"rating"}
  /\ S[2].adds = {"rating"}
  /\ S[2].needs = {"prompts"} /\ S[2].clash \subseteq guard \cap {"rating"}

FileSound(S, u, v, guard) ==
  /\ Len(S) \in Nat \ {0}
  /\ Skips(guard, u, v)
  /\ SparesObjects(S) /\ Delivers(S, u, v)
  /\ v = 1 => NeverThrows(S)
  /\ v # 5 => PairsColumns(S)
  /\ v = 5 => AddsPair(S, guard)

LEMMA Lists ==
  /\ Len(Migrations) = 8 /\ Len(NativeMigrations) = 5
  /\ Files("node") = Migrations /\ Files("native") = NativeMigrations
BY DEF Migrations, NativeMigrations, Files

LEMMA FirstFile ==
  LET S == Migrations[1].statements
  IN /\ Len(S) = 8
     /\ S[1] = IfNotExists("prompts", {}, {"category", "deleted_at", "is_favorite", "rating"})
     /\ S[2] = IfNotExists("prompt_versions", {}, {"format"})
     /\ S[3] = IfNotExists("tags", {}, {})
     /\ S[4] = IfNotExists("prompt_tags", {}, {})
     /\ S[5] = Statement({"old fts", "new fts"}, {}, {}, {}, {"old fts"})
     /\ S[6] = Statement(Triggers, {}, {"prompts", "prompt_versions"}, {}, OldTriggers)
     /\ S[7] = IfNotExists("indexes", Tables, {})
     /\ S[8] = IfNotExists("view", {}, {})
<1> DEFINE S == Migrations[1].statements
<1>1. Len(S) = 8
  BY DEF Migrations, File
<1>2. S[1] = IfNotExists("prompts", {}, {"category", "deleted_at", "is_favorite", "rating"})
  BY DEF Migrations, File
<1>3. S[2] = IfNotExists("prompt_versions", {}, {"format"})
  BY DEF Migrations, File
<1>4. S[3] = IfNotExists("tags", {}, {})
  BY DEF Migrations, File
<1>5. S[4] = IfNotExists("prompt_tags", {}, {})
  BY DEF Migrations, File
<1>6. S[5] = Statement({"old fts", "new fts"}, {}, {}, {}, {"old fts"})
  BY DEF Migrations, File
<1>7. S[6] = Statement(Triggers, {}, {"prompts", "prompt_versions"}, {}, OldTriggers)
  BY DEF Migrations, File
<1>8. S[7] = IfNotExists("indexes", Tables, {})
  BY DEF Migrations, File, Tables
<1>9. S[8] = IfNotExists("view", {}, {})
  BY DEF Migrations, File
<1> QED
  BY <1>1, <1>2, <1>3, <1>4, <1>5, <1>6, <1>7, <1>8, <1>9

LEMMA LaterFiles ==
  /\ Migrations[2].statements = <<AddColumn("category", "prompts")>>
  /\ Migrations[3].statements = <<IfNotExists("more indexes", Tables, {})>>
  /\ Migrations[4].statements = <<AddColumn("format", "prompt_versions")>>
  /\ Migrations[5].statements = <<AddColumn("deleted_at", "prompts")>>
  /\ Migrations[6].statements = <<AddColumn("is_favorite", "prompts"), AddColumn("rating", "prompts")>>
  /\ Migrations[7].statements =
       <<DropIfExists(DeleteTriggers), Create({"fts5 delete trigger"}, DeleteTriggers, {"prompts"})>>
BY DEF Migrations, File, Tables

LEMMA NativeFiles ==
  /\ NativeMigrations[1].statements = Migrations[1].statements
  /\ NativeMigrations[2].statements =
       <<AddMissing("category", "prompts"), IfNotExists("more indexes", Tables, {})>>
  /\ NativeMigrations[3].statements = <<AddMissing("format", "prompt_versions")>>
  /\ NativeMigrations[4].statements = <<AddMissing("deleted_at", "prompts")>>
  /\ NativeMigrations[5].statements =
       <<AddMissing("is_favorite", "prompts"), AddMissing("rating", "prompts")>>
<1>1. Migrations[3].statements[1] = IfNotExists("more indexes", Tables, {})
  BY DEF Migrations, File, Tables
<1>2. /\ NativeMigrations[1].statements = Migrations[1].statements
      /\ NativeMigrations[2].statements =
           <<AddMissing("category", "prompts"), Migrations[3].statements[1]>>
      /\ NativeMigrations[3].statements = <<AddMissing("format", "prompt_versions")>>
      /\ NativeMigrations[4].statements = <<AddMissing("deleted_at", "prompts")>>
      /\ NativeMigrations[5].statements =
           <<AddMissing("is_favorite", "prompts"), AddMissing("rating", "prompts")>>
  BY DEF NativeMigrations, File
<1> QED
  BY <1>1, <1>2

LEMMA LastFile ==
  LET S == Migrations[8].statements
  IN /\ Len(S) = 6
     /\ S[1] = DropIfExists(Triggers)
     /\ S[2] = DropIfExists(Index)
     /\ S[3] = Create({"new fts"}, {"old fts", "new fts"}, {})
     /\ S[4] = Create({"new fts rows"}, {},
                      {"new fts", "prompts", "prompt_versions", "deleted_at"})
     /\ S[5] = Create({"new prompt triggers", "new delete trigger"}, PromptTriggers, {"prompts"})
     /\ S[6] = Create({"new version triggers"}, {"old version triggers", "new version triggers"},
                      {"prompt_versions"})
BY DEF Migrations, File

LEMMA Versions ==
  /\ Migrations[1].version = 1 /\ Migrations[2].version = 2 /\ Migrations[3].version = 2
  /\ Migrations[4].version = 3 /\ Migrations[5].version = 4 /\ Migrations[6].version = 5
  /\ Migrations[7].version = 6 /\ Migrations[8].version = 7
  /\ NativeMigrations[1].version = 1 /\ NativeMigrations[2].version = 2
  /\ NativeMigrations[3].version = 3 /\ NativeMigrations[4].version = 4
  /\ NativeMigrations[5].version = 5
<1>1. /\ Migrations[1].version = 1 /\ Migrations[2].version = 2 /\ Migrations[3].version = 2
      /\ Migrations[4].version = 3 /\ Migrations[5].version = 4 /\ Migrations[6].version = 5
      /\ Migrations[7].version = 6 /\ Migrations[8].version = 7
  BY DEF Migrations, File
<1>2. /\ NativeMigrations[1].version = 1 /\ NativeMigrations[2].version = 2
      /\ NativeMigrations[3].version = 3 /\ NativeMigrations[4].version = 4
      /\ NativeMigrations[5].version = 5
  BY DEF NativeMigrations, File
<1> QED
  BY <1>1, <1>2

LEMMA Guards ==
  /\ Migrations[1].guard = {} /\ Migrations[2].guard = {"category"}
  /\ Migrations[3].guard = {} /\ Migrations[4].guard = {"format"}
  /\ Migrations[5].guard = {"deleted_at"} /\ Migrations[6].guard = {"is_favorite", "rating"}
  /\ Migrations[7].guard = {} /\ Migrations[8].guard = {}
  /\ NativeMigrations[1].guard = {"prompts"}
  /\ \A i \in 2..5 : NativeMigrations[i].guard = {}
<1>1. /\ Migrations[1].guard = {} /\ Migrations[2].guard = {"category"}
      /\ Migrations[3].guard = {} /\ Migrations[4].guard = {"format"}
      /\ Migrations[5].guard = {"deleted_at"} /\ Migrations[6].guard = {"is_favorite", "rating"}
      /\ Migrations[7].guard = {} /\ Migrations[8].guard = {}
  BY DEF Migrations, File
<1>2. /\ NativeMigrations[1].guard = {"prompts"} /\ NativeMigrations[2].guard = {}
      /\ NativeMigrations[3].guard = {} /\ NativeMigrations[4].guard = {}
      /\ NativeMigrations[5].guard = {}
  BY DEF NativeMigrations, File
<1>3. \A i \in 2..5 : i = 2 \/ i = 3 \/ i = 4 \/ i = 5
  OBVIOUS
<1> QED
  BY <1>1, <1>2, <1>3

(* Statements *)

Does(s, clash, needs, drops, adds, left) ==
  s.clash = clash /\ s.needs = needs /\ s.drops = drops /\ s.adds = adds /\ Left(s) = left

LEMMA StatementsDo ==
  /\ \A o, needs, adds :
       Does(IfNotExists(o, needs, adds), {}, needs, {}, {o} \cup adds, {o})
  /\ \A c, t : Does(AddMissing(c, t), {}, {t}, {}, {c}, {c})
  /\ \A c, t : Does(AddColumn(c, t), {c}, {t}, {}, {c}, {c})
  /\ \A objects, clash, needs : Does(Create(objects, clash, needs), clash, needs, {}, objects, objects)
  /\ \A objects : Does(DropIfExists(objects), {}, {}, objects, {}, {})
<1>1. \A o, needs, adds : Does(IfNotExists(o, needs, adds), {}, needs, {}, {o} \cup adds, {o})
  BY DEF Does, IfNotExists, Statement, Left
<1>2. \A c, t : Does(AddMissing(c, t), {}, {t}, {}, {c}, {c})
  BY DEF Does, AddMissing, Statement, Left
<1>3. \A c, t : Does(AddColumn(c, t), {c}, {t}, {}, {c}, {c})
  BY DEF Does, AddColumn, Statement, Left
<1>4. \A objects, clash, needs : Does(Create(objects, clash, needs), clash, needs, {}, objects, objects)
  BY DEF Does, Create, Statement, Left
<1>5. \A objects : Does(DropIfExists(objects), {}, {}, objects, {}, {})
  BY DEF Does, DropIfExists, Statement, Left
<1> QED
  BY <1>1, <1>2, <1>3, <1>4, <1>5

LEMMA FirstFileDoes ==
  LET S == Migrations[1].statements
  IN /\ Does(S[1], {}, {}, {}, {"prompts"} \cup {"category", "deleted_at", "is_favorite", "rating"},
            {"prompts"})
     /\ Does(S[2], {}, {}, {}, {"prompt_versions"} \cup {"format"}, {"prompt_versions"})
     /\ Does(S[3], {}, {}, {}, {"tags"} \cup {}, {"tags"})
     /\ Does(S[4], {}, {}, {}, {"prompt_tags"} \cup {}, {"prompt_tags"})
     /\ Does(S[5], {}, {}, {}, {"old fts"}, {})
     /\ Does(S[6], {}, {"prompts", "prompt_versions"}, {}, OldTriggers, {})
     /\ Does(S[7], {}, Tables, {}, {"indexes"} \cup {}, {"indexes"})
     /\ Does(S[8], {}, {}, {}, {"view"} \cup {}, {"view"})
<1> DEFINE S == Migrations[1].statements
<1>1. Does(S[1], {}, {}, {}, {"prompts"} \cup {"category", "deleted_at", "is_favorite", "rating"},
          {"prompts"})
  <2>1. Does(IfNotExists("prompts", {}, {"category", "deleted_at", "is_favorite", "rating"}),
             {}, {}, {}, {"prompts"} \cup {"category", "deleted_at", "is_favorite", "rating"}, {"prompts"})
    BY StatementsDo
  <2> QED
    BY <2>1, FirstFile
<1>2. Does(S[2], {}, {}, {}, {"prompt_versions"} \cup {"format"}, {"prompt_versions"})
  <2>1. Does(IfNotExists("prompt_versions", {}, {"format"}),
             {}, {}, {}, {"prompt_versions"} \cup {"format"}, {"prompt_versions"})
    BY StatementsDo
  <2> QED
    BY <2>1, FirstFile
<1>3. Does(S[3], {}, {}, {}, {"tags"} \cup {}, {"tags"})
  <2>1. Does(IfNotExists("tags", {}, {}),
             {}, {}, {}, {"tags"} \cup {}, {"tags"})
    BY StatementsDo
  <2> QED
    BY <2>1, FirstFile
<1>4. Does(S[4], {}, {}, {}, {"prompt_tags"} \cup {}, {"prompt_tags"})
  <2>1. Does(IfNotExists("prompt_tags", {}, {}),
             {}, {}, {}, {"prompt_tags"} \cup {}, {"prompt_tags"})
    BY StatementsDo
  <2> QED
    BY <2>1, FirstFile
<1>5. Does(S[5], {}, {}, {}, {"old fts"}, {})
  <2>1. Does(Statement({"old fts", "new fts"}, {}, {}, {}, {"old fts"}), {}, {}, {}, {"old fts"}, {})
    BY DEF Does, Statement, Left
  <2> QED
    BY <2>1, FirstFile
<1>6. Does(S[6], {}, {"prompts", "prompt_versions"}, {}, OldTriggers, {})
  <2>1. Does(Statement(Triggers, {}, {"prompts", "prompt_versions"}, {}, OldTriggers),
             {}, {"prompts", "prompt_versions"}, {}, OldTriggers, {})
    BY DEF Does, Statement, Left, Triggers, OldTriggers
  <2> QED
    BY <2>1, FirstFile
<1>7. Does(S[7], {}, Tables, {}, {"indexes"} \cup {}, {"indexes"})
  <2>1. Does(IfNotExists("indexes", Tables, {}),
             {}, Tables, {}, {"indexes"} \cup {}, {"indexes"})
    BY StatementsDo
  <2> QED
    BY <2>1, FirstFile
<1>8. Does(S[8], {}, {}, {}, {"view"} \cup {}, {"view"})
  <2>1. Does(IfNotExists("view", {}, {}),
             {}, {}, {}, {"view"} \cup {}, {"view"})
    BY StatementsDo
  <2> QED
    BY <2>1, FirstFile
<1> QED
  BY <1>1, <1>2, <1>3, <1>4, <1>5, <1>6, <1>7, <1>8

LEMMA NoneIsDropped ==
  ASSUME NEW S, Len(S) \in Nat,
         \A k \in 1..Len(S) : S[k].adds \subseteq Objects /\ S[k].drops = {}
  PROVE  SparesObjects(S)
BY DEF SparesObjects

LEMMA FirstFileSound ==
  ASSUME NEW guard, guard \in {{}, {"prompts"}}
  PROVE  FileSound(Migrations[1].statements, 0, 1, guard)
<1> DEFINE S == Migrations[1].statements
<1>0. Len(S) = 8
  BY FirstFile
<1>1. S[1].clash = {} /\ S[1].needs = {} /\ S[1].drops = {} /\ Left(S[1]) = {"prompts"}
      /\ S[1].adds = {"prompts"} \cup {"category", "deleted_at", "is_favorite", "rating"}
  BY FirstFileDoes DEF Does
<1>2. S[2].clash = {} /\ S[2].needs = {} /\ S[2].drops = {} /\ Left(S[2]) = {"prompt_versions"}
      /\ S[2].adds = {"prompt_versions"} \cup {"format"}
  BY FirstFileDoes DEF Does
<1>3. S[3].clash = {} /\ S[3].needs = {} /\ S[3].drops = {} /\ Left(S[3]) = {"tags"}
      /\ S[3].adds = {"tags"}
  BY FirstFileDoes DEF Does
<1>4. S[4].clash = {} /\ S[4].needs = {} /\ S[4].drops = {} /\ Left(S[4]) = {"prompt_tags"}
      /\ S[4].adds = {"prompt_tags"}
  BY FirstFileDoes DEF Does
<1>5. S[5].clash = {} /\ S[5].needs = {} /\ S[5].drops = {} /\ S[5].adds = {"old fts"}
  BY FirstFileDoes DEF Does
<1>6. S[6].clash = {} /\ S[6].needs = {"prompts", "prompt_versions"} /\ S[6].drops = {}
      /\ S[6].adds = OldTriggers
  BY FirstFileDoes DEF Does
<1>7. S[7].clash = {} /\ S[7].needs = Tables /\ S[7].drops = {} /\ S[7].adds = {"indexes"}
  BY FirstFileDoes DEF Does
<1>8. S[8].clash = {} /\ S[8].needs = {} /\ S[8].drops = {} /\ S[8].adds = {"view"}
  BY FirstFileDoes DEF Does
<1>9. \A k \in 1..8 : k = 1 \/ k = 2 \/ k = 3 \/ k = 4 \/ k = 5 \/ k = 6 \/ k = 7 \/ k = 8
  OBVIOUS
<1> HIDE DEF S
<1>10. \A k \in 1..8 : S[k].drops = {}
  BY <1>1, <1>2, <1>3, <1>4, <1>5, <1>6, <1>7, <1>8, <1>9
<1>11. \A k \in 1..8 : S[k].adds \subseteq Objects
  <2>1. S[1].adds \subseteq Objects /\ S[2].adds \subseteq Objects
    BY <1>1, <1>2 DEF Objects, Complete, Columns
  <2>2. S[3].adds \subseteq Objects /\ S[4].adds \subseteq Objects
    BY <1>3, <1>4 DEF Objects, Complete
  <2>3. S[5].adds \subseteq Objects /\ S[6].adds \subseteq Objects
    BY <1>5, <1>6 DEF Objects, Index, Triggers
  <2>4. S[7].adds \subseteq Objects /\ S[8].adds \subseteq Objects
    BY <1>7, <1>8 DEF Objects
  <2> QED
    BY <2>1, <2>2, <2>3, <2>4, <1>9
<1>12. SparesObjects(S)
  BY <1>0, <1>10, <1>11, NoneIsDropped
<1>13. Delivers(S, 0, 1)
  <2>1. \A o \in Since(1) : o = "prompts" \/ o = "prompt_versions" \/ o = "tags" \/ o = "prompt_tags"
    BY DEF Since, Tables
  <2>2. 1 \in 1..8 /\ 2 \in 1..8 /\ 3 \in 1..8 /\ 4 \in 1..8
    OBVIOUS
  <2> QED
    BY <2>1, <2>2, <1>0, <1>1, <1>2, <1>3, <1>4 DEF Delivers
<1>14. NeverThrows(S)
  <2>1. \A k \in 1..8 : S[k].clash = {}
    BY <1>1, <1>2, <1>3, <1>4, <1>5, <1>6, <1>7, <1>8, <1>9
  <2>2. ASSUME NEW k \in 1..8, NEW o \in S[k].needs
        PROVE  \E j \in 1..(k - 1) : o \in Left(S[j])
    <3>1. k = 6 \/ k = 7
      BY <1>1, <1>2, <1>3, <1>4, <1>5, <1>8, <1>9
    <3>3. 1 \in 1..(k - 1) /\ 2 \in 1..(k - 1) /\ 3 \in 1..(k - 1) /\ 4 \in 1..(k - 1)
      BY <3>1
    <3>4. o = "prompts" \/ o = "prompt_versions" \/ o = "tags" \/ o = "prompt_tags"
      BY <3>1, <1>6, <1>7 DEF Tables
    <3> QED
      BY <3>3, <3>4, <1>1, <1>2, <1>3, <1>4
  <2> QED
    BY <1>0, <2>1, <2>2 DEF NeverThrows
<1>15. PairsColumns(S)
  <2>1. \A k \in 3..8 : "is_favorite" \notin S[k].adds /\ "rating" \notin S[k].adds
    <3>1. \A k \in 3..8 : k = 3 \/ k = 4 \/ k = 5 \/ k = 6 \/ k = 7 \/ k = 8
      OBVIOUS
    <3>2. "is_favorite" \notin OldTriggers /\ "rating" \notin OldTriggers
      BY DEF OldTriggers
    <3>3. \A k \in 3..8 : S[k].adds \subseteq
            OldTriggers \cup {"tags", "prompt_tags", "old fts", "indexes", "view"}
      BY <3>1, <1>3, <1>4, <1>5, <1>6, <1>7, <1>8
    <3>4. /\ "is_favorite" \notin {"tags", "prompt_tags", "old fts", "indexes", "view"}
          /\ "rating" \notin {"tags", "prompt_tags", "old fts", "indexes", "view"}
      OBVIOUS
    <3> QED
      BY <3>2, <3>3, <3>4
  <2>2. "is_favorite" \in S[1].adds /\ "rating" \in S[1].adds
    BY <1>1
  <2>3. "is_favorite" \notin S[2].adds /\ "rating" \notin S[2].adds
    BY <1>2
  <2>4. \A k \in 1..8 : k = 1 \/ k = 2 \/ k \in 3..8
    OBVIOUS
  <2> QED
    BY <2>1, <2>2, <2>3, <2>4, <1>0 DEF PairsColumns
<1>16. Skips(guard, 0, 1)
  <2>1. Since(1) = Tables
    BY DEF Since
  <2>2. "prompts" \in Kept
    BY DEF Kept, Tables
  <2> QED
    BY <2>1, <2>2 DEF Skips
<1> QED
  BY <1>0, <1>12, <1>13, <1>14, <1>15, <1>16 DEF FileSound, S

(* A file of one statement that adds one column. *)
LEMMA ColumnFileSound ==
  ASSUME NEW c, NEW t, NEW s, NEW u \in 1..3, NEW v \in 2..4, NEW guard,
         c \in Columns \ {"is_favorite", "rating"}, guard \subseteq {c},
         s.adds = {c}, s.drops = {}, Left(s) = {c},
         Since(v) = Since(u) \cup {c}
  PROVE  FileSound(<<s>>, u, v, guard)
<1> DEFINE S == <<s>>
<1>1. Len(S) = 1 /\ S[1] = s
  OBVIOUS
<1> HIDE DEF S
<1>2. c \in Objects /\ c \in Kept
  BY DEF Objects, Complete, Kept
<1>3. SparesObjects(S)
  BY <1>1, <1>2, NoneIsDropped
<1>4. Delivers(S, u, v)
  BY <1>1 DEF Delivers
<1>5. PairsColumns(S)
  BY <1>1 DEF PairsColumns
<1>6. Skips(guard, u, v)
  BY <1>2 DEF Skips
<1> QED
  BY <1>1, <1>3, <1>4, <1>5, <1>6 DEF FileSound, S

LEMMA Numbers ==
  /\ Since(2) = Since(1) \cup {"category"}
  /\ Since(3) = Since(2) \cup {"format"}
  /\ Since(4) = Since(3) \cup {"deleted_at"}
  /\ Since(5) = Since(4) \cup {"is_favorite", "rating"}
  /\ Since(6) = Since(5)
  /\ Since(7) = Since(6) \cup {"new fts", "new fts rows"} \cup NewTriggers
  /\ Since(0) = {} /\ Since(1) = Tables
<1>1. Since(2) = Since(1) \cup {"category"}
  BY DEF Since
<1>2. Since(3) = Since(2) \cup {"format"}
  BY DEF Since
<1>3. Since(4) = Since(3) \cup {"deleted_at"}
  BY DEF Since
<1>4. Since(5) = Since(4) \cup {"is_favorite", "rating"}
  BY DEF Since
<1>5. Since(6) = Since(5)
  BY DEF Since
<1>6. Since(7) = Since(6) \cup {"new fts", "new fts rows"} \cup NewTriggers
  BY DEF Since
<1>7. Since(0) = {} /\ Since(1) = Tables
  BY DEF Since
<1> QED
  BY <1>1, <1>2, <1>3, <1>4, <1>5, <1>6, <1>7

LEMMA NodeColumnFiles ==
  /\ FileSound(Migrations[2].statements, 1, 2, {"category"})
  /\ FileSound(Migrations[4].statements, 2, 3, {"format"})
  /\ FileSound(Migrations[5].statements, 3, 4, {"deleted_at"})
<1>1. FileSound(Migrations[2].statements, 1, 2, {"category"})
  <2>1. Does(AddColumn("category", "prompts"), {"category"}, {"prompts"}, {}, {"category"}, {"category"})
    BY StatementsDo
  <2>2. "category" \in Columns \ {"is_favorite", "rating"}
    BY DEF Columns
  <2>3. Since(2) = Since(1) \cup {"category"}
    BY Numbers
  <2>4. FileSound(<<AddColumn("category", "prompts")>>, 1, 2, {"category"})
    BY <2>1, <2>2, <2>3, ColumnFileSound DEF Does
  <2> QED
    BY <2>4, LaterFiles
<1>2. FileSound(Migrations[4].statements, 2, 3, {"format"})
  <2>1. Does(AddColumn("format", "prompt_versions"), {"format"}, {"prompt_versions"}, {}, {"format"}, {"format"})
    BY StatementsDo
  <2>2. "format" \in Columns \ {"is_favorite", "rating"}
    BY DEF Columns
  <2>3. Since(3) = Since(2) \cup {"format"}
    BY Numbers
  <2>4. FileSound(<<AddColumn("format", "prompt_versions")>>, 2, 3, {"format"})
    BY <2>1, <2>2, <2>3, ColumnFileSound DEF Does
  <2> QED
    BY <2>4, LaterFiles
<1>3. FileSound(Migrations[5].statements, 3, 4, {"deleted_at"})
  <2>1. Does(AddColumn("deleted_at", "prompts"), {"deleted_at"}, {"prompts"}, {}, {"deleted_at"}, {"deleted_at"})
    BY StatementsDo
  <2>2. "deleted_at" \in Columns \ {"is_favorite", "rating"}
    BY DEF Columns
  <2>3. Since(4) = Since(3) \cup {"deleted_at"}
    BY Numbers
  <2>4. FileSound(<<AddColumn("deleted_at", "prompts")>>, 3, 4, {"deleted_at"})
    BY <2>1, <2>2, <2>3, ColumnFileSound DEF Does
  <2> QED
    BY <2>4, LaterFiles
<1> QED
  BY <1>1, <1>2, <1>3

LEMMA NativeColumnFiles ==
  /\ FileSound(NativeMigrations[3].statements, 2, 3, {})
  /\ FileSound(NativeMigrations[4].statements, 3, 4, {})
<1>1. FileSound(NativeMigrations[3].statements, 2, 3, {})
  <2>1. Does(AddMissing("format", "prompt_versions"), {}, {"prompt_versions"}, {}, {"format"}, {"format"})
    BY StatementsDo
  <2>2. "format" \in Columns \ {"is_favorite", "rating"}
    BY DEF Columns
  <2>3. Since(3) = Since(2) \cup {"format"}
    BY Numbers
  <2>4. FileSound(<<AddMissing("format", "prompt_versions")>>, 2, 3, {})
    BY <2>1, <2>2, <2>3, ColumnFileSound DEF Does
  <2> QED
    BY <2>4, NativeFiles
<1>2. FileSound(NativeMigrations[4].statements, 3, 4, {})
  <2>1. Does(AddMissing("deleted_at", "prompts"), {}, {"prompts"}, {}, {"deleted_at"}, {"deleted_at"})
    BY StatementsDo
  <2>2. "deleted_at" \in Columns \ {"is_favorite", "rating"}
    BY DEF Columns
  <2>3. Since(4) = Since(3) \cup {"deleted_at"}
    BY Numbers
  <2>4. FileSound(<<AddMissing("deleted_at", "prompts")>>, 3, 4, {})
    BY <2>1, <2>2, <2>3, ColumnFileSound DEF Does
  <2> QED
    BY <2>4, NativeFiles
<1> QED
  BY <1>1, <1>2

LEMMA IndexFileSound == FileSound(Migrations[3].statements, 2, 2, {})
<1> DEFINE S == Migrations[3].statements
<1>1. S = <<IfNotExists("more indexes", Tables, {})>>
  BY LaterFiles
<1>2. Does(IfNotExists("more indexes", Tables, {}), {}, Tables, {},
           {"more indexes"} \cup {}, {"more indexes"})
  BY StatementsDo
<1>3. Len(S) = 1 /\ S[1] = IfNotExists("more indexes", Tables, {})
  <2>1. \A s : Len(<<s>>) = 1 /\ <<s>>[1] = s
    OBVIOUS
  <2> HIDE DEF S
  <2> QED
    BY <1>1, <2>1
<1>4. S[1].adds = {"more indexes"} /\ S[1].drops = {}
  BY <1>2, <1>3 DEF Does
<1>L. Len(S) = 1
  BY <1>3
<1> HIDE DEF S
<1>5. "more indexes" \in Objects /\ "is_favorite" \notin S[1].adds /\ "rating" \notin S[1].adds
  BY <1>4 DEF Objects
<1>6. SparesObjects(S)
  <2>1. \A k \in 1..1 : S[k].adds \subseteq Objects /\ S[k].drops = {}
    <3>1. S[1].adds \subseteq Objects /\ S[1].drops = {}
      BY <1>4, <1>5
    <3>2. \A k \in 1..1 : k = 1
      OBVIOUS
    <3> QED
      BY <3>1, <3>2
  <2> QED
    BY <1>L, <2>1, NoneIsDropped
<1>7. Delivers(S, 2, 2) /\ Skips({}, 2, 2)
  BY DEF Delivers, Skips
<1>8. PairsColumns(S)
  <2>1. "is_favorite" \in S[1].adds <=> "rating" \in S[1].adds
    BY <1>5
  <2>2. \A k \in 1..1 : k = 1
    OBVIOUS
  <2> QED
    BY <1>L, <2>1, <2>2 DEF PairsColumns
<1> QED
  BY <1>L, <1>6, <1>7, <1>8 DEF FileSound, S

LEMMA NativeCategorySound == FileSound(NativeMigrations[2].statements, 1, 2, {})
<1> DEFINE S == NativeMigrations[2].statements
<1>1. S = <<AddMissing("category", "prompts"), IfNotExists("more indexes", Tables, {})>>
  BY NativeFiles
<1>2. Does(IfNotExists("more indexes", Tables, {}), {}, Tables, {},
           {"more indexes"} \cup {}, {"more indexes"})
  BY StatementsDo
<1>3. Does(AddMissing("category", "prompts"), {}, {"prompts"}, {}, {"category"}, {"category"})
  BY StatementsDo
<1>4. Len(S) = 2 /\ S[1] = AddMissing("category", "prompts")
      /\ S[2] = IfNotExists("more indexes", Tables, {})
  <2>1. \A s, t : Len(<<s, t>>) = 2 /\ <<s, t>>[1] = s /\ <<s, t>>[2] = t
    OBVIOUS
  <2> HIDE DEF S
  <2> QED
    BY <1>1, <2>1
<1>5. S[1].adds = {"category"} /\ S[1].drops = {} /\ Left(S[1]) = {"category"}
      /\ S[2].adds = {"more indexes"} /\ S[2].drops = {}
  BY <1>2, <1>3, <1>4 DEF Does
<1>L. Len(S) = 2
  BY <1>4
<1> HIDE DEF S
<1>6. "more indexes" \in Objects /\ "category" \in Objects
  BY DEF Objects, Complete, Columns
<1>7. \A k \in 1..2 : k = 1 \/ k = 2
  OBVIOUS
<1>8. SparesObjects(S)
  <2>1. \A k \in 1..2 : S[k].adds \subseteq Objects /\ S[k].drops = {}
    BY <1>5, <1>6, <1>7
  <2> QED
    BY <1>L, <2>1, NoneIsDropped
<1>9. Delivers(S, 1, 2)
  <2>1. ASSUME NEW o \in Since(2) PROVE o \in Since(1) \/ o \in Left(S[1])
    BY <1>5, Numbers
  <2>2. 1 \in 1..2
    OBVIOUS
  <2> QED
    BY <1>L, <2>1, <2>2 DEF Delivers
<1>10. PairsColumns(S)
  <2>1. \A k \in 1..2 : S[k].adds \subseteq {"category", "more indexes"}
    BY <1>5, <1>7
  <2>2. "is_favorite" \notin {"category", "more indexes"} /\ "rating" \notin {"category", "more indexes"}
    OBVIOUS
  <2> QED
    BY <2>1, <2>2, <1>L DEF PairsColumns
<1>11. Skips({}, 1, 2)
  BY DEF Skips
<1> QED
  BY <1>L, <1>8, <1>9, <1>10, <1>11 DEF FileSound, S

(* The two columns of file 005. *)
LEMMA PairFileSound ==
  ASSUME NEW s, NEW t, NEW guard, guard \in {{}, {"is_favorite", "rating"}},
         s.adds = {"is_favorite"}, s.drops = {}, Left(s) = {"is_favorite"},
         t.adds = {"rating"}, t.drops = {}, Left(t) = {"rating"},
         t.needs = {"prompts"}, t.clash \subseteq guard \cap {"rating"}
  PROVE  FileSound(<<s, t>>, 4, 5, guard)
<1> DEFINE S == <<s, t>>
<1>1. Len(S) = 2 /\ S[1] = s /\ S[2] = t
  OBVIOUS
<1> HIDE DEF S
<1>2. \A k \in 1..2 : k = 1 \/ k = 2
  OBVIOUS
<1>3. "is_favorite" \in Objects /\ "rating" \in Objects /\ {"is_favorite", "rating"} \subseteq Kept
  BY DEF Objects, Complete, Columns, Kept
<1>4. SparesObjects(S)
  <2>1. \A k \in 1..2 : S[k].adds \subseteq Objects /\ S[k].drops = {}
    BY <1>1, <1>2, <1>3
  <2> QED
    BY <1>1, <2>1, NoneIsDropped
<1>5. Delivers(S, 4, 5)
  <2>1. ASSUME NEW o \in Since(5) PROVE o \in Since(4) \/ o \in Left(S[1]) \/ o \in Left(S[2])
    BY <1>1, Numbers
  <2>2. 1 \in 1..2 /\ 2 \in 1..2
    OBVIOUS
  <2> QED
    BY <1>1, <2>1, <2>2 DEF Delivers
<1>6. AddsPair(S, guard)
  BY <1>1 DEF AddsPair
<1>7. Skips(guard, 4, 5)
  <2>1. ASSUME NEW o \in guard, NEW p \in Since(5)
        PROVE  p \in Since(4) \/ {o, p} \subseteq {"is_favorite", "rating"}
    BY Numbers
  <2>2. ASSUME NEW o \in guard PROVE o \in Kept
    BY <1>3
  <2> QED
    BY <2>1, <2>2 DEF Skips
<1> QED
  BY <1>1, <1>4, <1>5, <1>6, <1>7 DEF FileSound, S

LEMMA PairFiles ==
  /\ FileSound(Migrations[6].statements, 4, 5, {"is_favorite", "rating"})
  /\ FileSound(NativeMigrations[5].statements, 4, 5, {})
<1>1. FileSound(Migrations[6].statements, 4, 5, {"is_favorite", "rating"})
  <2>1. Does(AddColumn("is_favorite", "prompts"), {"is_favorite"}, {"prompts"}, {}, {"is_favorite"}, {"is_favorite"})
    BY StatementsDo
  <2>2. Does(AddColumn("rating", "prompts"), {"rating"}, {"prompts"}, {}, {"rating"}, {"rating"})
    BY StatementsDo
  <2>3. FileSound(<<AddColumn("is_favorite", "prompts"), AddColumn("rating", "prompts")>>, 4, 5,
                  {"is_favorite", "rating"})
    BY <2>1, <2>2, PairFileSound DEF Does
  <2> QED
    BY <2>3, LaterFiles
<1>2. FileSound(NativeMigrations[5].statements, 4, 5, {})
  <2>1. Does(AddMissing("is_favorite", "prompts"), {}, {"prompts"}, {}, {"is_favorite"}, {"is_favorite"})
    BY StatementsDo
  <2>2. Does(AddMissing("rating", "prompts"), {}, {"prompts"}, {}, {"rating"}, {"rating"})
    BY StatementsDo
  <2>3. FileSound(<<AddMissing("is_favorite", "prompts"), AddMissing("rating", "prompts")>>, 4, 5, {})
    BY <2>1, <2>2, PairFileSound DEF Does
  <2> QED
    BY <2>3, NativeFiles
<1> QED
  BY <1>1, <1>2

LEMMA TriggersAreObjects ==
  /\ Triggers \subseteq Objects /\ Index \subseteq Objects
  /\ Triggers \cap Kept = {} /\ Index \cap Kept = {}
  /\ DeleteTriggers \subseteq Triggers /\ NewTriggers \subseteq Triggers
<1>1. Triggers \subseteq Objects /\ Index \subseteq Objects
  BY DEF Objects
<1>2. \A o \in Kept :
        o \in {"prompts", "prompt_versions", "tags", "prompt_tags", "category", "format",
              "deleted_at", "is_favorite", "rating"}
  BY DEF Kept, Tables, Columns
<1>3. \A o \in Triggers :
        o \in {"old prompt triggers", "old delete trigger", "old version triggers",
              "new prompt triggers", "new delete trigger", "new version triggers",
              "fts5 delete trigger"}
  BY DEF Triggers, OldTriggers, NewTriggers, DeleteTriggers
<1>4. Triggers \cap Kept = {}
  BY <1>2, <1>3
<1>5. Index \cap Kept = {}
  BY <1>2 DEF Index
<1> QED
  BY <1>1, <1>4, <1>5 DEF Triggers

LEMMA TriggerFileSound == FileSound(Migrations[7].statements, 5, 6, {})
<1> DEFINE S == Migrations[7].statements
<1>1. S = <<DropIfExists(DeleteTriggers), Create({"fts5 delete trigger"}, DeleteTriggers, {"prompts"})>>
  BY LaterFiles
<1>2. Does(DropIfExists(DeleteTriggers), {}, {}, DeleteTriggers, {}, {})
  BY StatementsDo
<1>3. Does(Create({"fts5 delete trigger"}, DeleteTriggers, {"prompts"}), DeleteTriggers,
           {"prompts"}, {}, {"fts5 delete trigger"}, {"fts5 delete trigger"})
  BY StatementsDo
<1>4. Len(S) = 2 /\ S[1] = DropIfExists(DeleteTriggers)
      /\ S[2] = Create({"fts5 delete trigger"}, DeleteTriggers, {"prompts"})
  <2>1. \A s, t : Len(<<s, t>>) = 2 /\ <<s, t>>[1] = s /\ <<s, t>>[2] = t
    OBVIOUS
  <2> HIDE DEF S
  <2> QED
    BY <1>1, <2>1
<1>5. S[1].adds = {} /\ S[1].drops = DeleteTriggers /\ Left(S[1]) = {}
      /\ S[2].adds = {"fts5 delete trigger"} /\ S[2].drops = {}
  BY <1>2, <1>3, <1>4 DEF Does
<1>L. Len(S) = 2
  BY <1>4
<1> HIDE DEF S
<1>6. \A k \in 1..2 : k = 1 \/ k = 2
  OBVIOUS
<1>7. SparesObjects(S)
  <2>1. "fts5 delete trigger" \in Objects
    BY DEF Objects, Triggers, DeleteTriggers
  <2>2. \A k \in 1..2 : S[k].adds \subseteq Objects /\ S[k].drops \cap Kept = {}
    BY <1>5, <1>6, <2>1, TriggersAreObjects
  <2>3. \A k \in 1..2 : \A j \in 1..(k - 1) : k = 2 /\ j = 1
    OBVIOUS
  <2>4. Left(S[1]) \cap S[2].drops = {}
    BY <1>5
  <2> QED
    BY <1>L, <2>2, <2>3, <2>4 DEF SparesObjects
<1>8. Delivers(S, 5, 6)
  BY Numbers DEF Delivers
<1>9. PairsColumns(S)
  <2>1. "is_favorite" \in S[1].adds <=> "rating" \in S[1].adds
    BY <1>5
  <2>2. "is_favorite" \in S[2].adds <=> "rating" \in S[2].adds
    BY <1>5
  <2> QED
    BY <2>1, <2>2, <1>6, <1>L DEF PairsColumns
<1>10. Skips({}, 5, 6)
  BY DEF Skips
<1> QED
  BY <1>L, <1>7, <1>8, <1>9, <1>10 DEF FileSound, S

LEMMA LastFileDoes ==
  LET S == Migrations[8].statements
  IN /\ Does(S[1], {}, {}, Triggers, {}, {})
     /\ Does(S[2], {}, {}, Index, {}, {})
     /\ Does(S[3], {"old fts", "new fts"}, {}, {}, {"new fts"}, {"new fts"})
     /\ Does(S[4], {}, {"new fts", "prompts", "prompt_versions", "deleted_at"}, {},
             {"new fts rows"}, {"new fts rows"})
     /\ Does(S[5], PromptTriggers, {"prompts"}, {}, {"new prompt triggers", "new delete trigger"},
             {"new prompt triggers", "new delete trigger"})
     /\ Does(S[6], {"old version triggers", "new version triggers"}, {"prompt_versions"}, {},
             {"new version triggers"}, {"new version triggers"})
<1> DEFINE S == Migrations[8].statements
<1>1. Does(S[1], {}, {}, Triggers, {}, {})
  <2>1. Does(DropIfExists(Triggers), {}, {}, Triggers, {}, {})
    BY StatementsDo
  <2> QED
    BY <2>1, LastFile
<1>2. Does(S[2], {}, {}, Index, {}, {})
  <2>1. Does(DropIfExists(Index), {}, {}, Index, {}, {})
    BY StatementsDo
  <2> QED
    BY <2>1, LastFile
<1>3. Does(S[3], {"old fts", "new fts"}, {}, {}, {"new fts"}, {"new fts"})
  <2>1. Does(Create({"new fts"}, {"old fts", "new fts"}, {}),
             {"old fts", "new fts"}, {}, {}, {"new fts"}, {"new fts"})
    BY StatementsDo
  <2> QED
    BY <2>1, LastFile
<1>4. Does(S[4], {}, {"new fts", "prompts", "prompt_versions", "deleted_at"}, {},
           {"new fts rows"}, {"new fts rows"})
  <2>1. Does(Create({"new fts rows"}, {}, {"new fts", "prompts", "prompt_versions", "deleted_at"}),
             {}, {"new fts", "prompts", "prompt_versions", "deleted_at"}, {},
             {"new fts rows"}, {"new fts rows"})
    BY StatementsDo
  <2> QED
    BY <2>1, LastFile
<1>5. Does(S[5], PromptTriggers, {"prompts"}, {}, {"new prompt triggers", "new delete trigger"},
           {"new prompt triggers", "new delete trigger"})
  <2>1. Does(Create({"new prompt triggers", "new delete trigger"}, PromptTriggers, {"prompts"}),
             PromptTriggers, {"prompts"}, {}, {"new prompt triggers", "new delete trigger"},
             {"new prompt triggers", "new delete trigger"})
    BY StatementsDo
  <2> QED
    BY <2>1, LastFile
<1>6. Does(S[6], {"old version triggers", "new version triggers"}, {"prompt_versions"}, {},
           {"new version triggers"}, {"new version triggers"})
  <2>1. Does(Create({"new version triggers"}, {"old version triggers", "new version triggers"},
                    {"prompt_versions"}),
             {"old version triggers", "new version triggers"}, {"prompt_versions"}, {},
             {"new version triggers"}, {"new version triggers"})
    BY StatementsDo
  <2> QED
    BY <2>1, LastFile
<1> QED
  BY <1>1, <1>2, <1>3, <1>4, <1>5, <1>6

LEMMA LastFileSound == FileSound(Migrations[8].statements, 6, 7, {})
<1> DEFINE S == Migrations[8].statements
<1>L. Len(S) = 6
  BY LastFile
<1>1. S[1].adds = {} /\ S[1].drops = Triggers /\ Left(S[1]) = {}
  BY LastFileDoes DEF Does
<1>2. S[2].adds = {} /\ S[2].drops = Index
  BY LastFileDoes DEF Does
<1>3. S[3].adds = {"new fts"} /\ S[3].drops = {} /\ Left(S[3]) = {"new fts"}
  BY LastFileDoes DEF Does
<1>4. S[4].adds = {"new fts rows"} /\ S[4].drops = {} /\ Left(S[4]) = {"new fts rows"}
  BY LastFileDoes DEF Does
<1>5. S[5].adds = {"new prompt triggers", "new delete trigger"} /\ S[5].drops = {}
      /\ Left(S[5]) = {"new prompt triggers", "new delete trigger"}
  BY LastFileDoes DEF Does
<1>6. S[6].adds = {"new version triggers"} /\ S[6].drops = {}
      /\ Left(S[6]) = {"new version triggers"}
  BY LastFileDoes DEF Does
<1> HIDE DEF S
<1>7. \A k \in 1..6 : k = 1 \/ k = 2 \/ k = 3 \/ k = 4 \/ k = 5 \/ k = 6
  OBVIOUS
<1>8. SparesObjects(S)
  <2>1. \A k \in 1..6 : S[k].adds \subseteq
          NewTriggers \cup {"new fts", "new fts rows"}
    BY ZenonT(60), <1>1, <1>2, <1>3, <1>4, <1>5, <1>6, <1>7 DEF NewTriggers
  <2>2. NewTriggers \cup {"new fts", "new fts rows"} \subseteq Objects
    BY DEF Objects, Complete
  <2>3. \A k \in 1..6 : S[k].drops \cap Kept = {}
    BY <1>1, <1>2, <1>3, <1>4, <1>5, <1>6, <1>7, TriggersAreObjects
  <2>4. ASSUME NEW k \in 1..6, NEW j \in 1..(k - 1)
        PROVE  Left(S[j]) \cap S[k].drops = {}
    <3>1. CASE k = 2
      <4>1. j = 1
        BY <3>1
      <4> QED
        BY <4>1, <1>1
    <3>2. CASE k # 2
      <4>1. k # 1
        OBVIOUS
      <4>2. S[k].drops = {}
        BY <3>2, <4>1, <1>3, <1>4, <1>5, <1>6, <1>7
      <4> QED
        BY <4>2
    <3> QED
      BY <3>1, <3>2
  <2> QED
    BY <1>L, <2>1, <2>2, <2>3, <2>4 DEF SparesObjects
<1>9. Delivers(S, 6, 7)
  <2>1. ASSUME NEW o \in Since(7)
        PROVE  o \in Since(6) \/ o \in Left(S[3]) \/ o \in Left(S[4])
               \/ o \in Left(S[5]) \/ o \in Left(S[6])
    BY <1>3, <1>4, <1>5, <1>6, Numbers DEF NewTriggers
  <2>2. 3 \in 1..6 /\ 4 \in 1..6 /\ 5 \in 1..6 /\ 6 \in 1..6
    OBVIOUS
  <2> QED
    BY <1>L, <2>1, <2>2 DEF Delivers
<1>10. PairsColumns(S)
  <2>1. \A k \in 1..6 : S[k].adds \subseteq
          NewTriggers \cup {"new fts", "new fts rows"}
    BY <1>1, <1>2, <1>3, <1>4, <1>5, <1>6, <1>7 DEF NewTriggers
  <2>2. /\ "is_favorite" \notin NewTriggers \cup {"new fts", "new fts rows"}
        /\ "rating" \notin NewTriggers \cup {"new fts", "new fts rows"}
    BY DEF NewTriggers
  <2> QED
    BY <2>1, <2>2, <1>L DEF PairsColumns
<1>11. Skips({}, 6, 7)
  BY DEF Skips
<1> QED
  BY <1>L, <1>8, <1>9, <1>10, <1>11 DEF FileSound, S

(***************************************************************************)
(* Every file of both programs                                             *)
(***************************************************************************)

(* The version of the files before the place. *)
Reached(F, i) == IF i = 1 THEN 0 ELSE F[i - 1].version

PlaceSound(F, i) ==
  /\ FileSound(F[i].statements, Reached(F, i), F[i].version, F[i].guard)
  /\ Reached(F, i) \in 0..6 /\ F[i].version \in 1..7
  /\ i = 1 <=> F[i].version = 1
  /\ i = 1 <=> Reached(F, i) = 0
  /\ i < Len(F) => F[i].version < 7

LEMMA NodePlaces == \A i \in 1..8 : PlaceSound(Migrations, i)
<1>L. Len(Migrations) = 8
  BY Lists
<1>1. PlaceSound(Migrations, 1)
  <2>1. FileSound(Migrations[1].statements, 0, 1, {})
    BY FirstFileSound
  <2>2. Migrations[1].guard = {}
    BY Guards
  <2>3. Migrations[1].version = 1
    BY Versions
  <2>4. FileSound(Migrations[1].statements, 0, Migrations[1].version, Migrations[1].guard)
    BY <2>1, <2>2, <2>3
  <2> QED
    BY <1>L, <2>3, <2>4 DEF PlaceSound, Reached
<1>2. PlaceSound(Migrations, 2)
  <2>1. FileSound(Migrations[2].statements, 1, 2, {"category"})
    BY NodeColumnFiles
  <2>2. Migrations[2].guard = {"category"}
    BY Guards
  <2>3. Migrations[2].version = 2 /\ Migrations[1].version = 1
    BY Versions
  <2>4. FileSound(Migrations[2].statements, 1, Migrations[2].version, Migrations[2].guard)
    BY <2>1, <2>2, <2>3
  <2> QED
    BY <1>L, <2>3, <2>4 DEF PlaceSound, Reached
<1>3. PlaceSound(Migrations, 3)
  <2>1. FileSound(Migrations[3].statements, 2, 2, {})
    BY IndexFileSound
  <2>2. Migrations[3].guard = {}
    BY Guards
  <2>3. Migrations[3].version = 2 /\ Migrations[2].version = 2
    BY Versions
  <2>4. FileSound(Migrations[3].statements, 2, Migrations[3].version, Migrations[3].guard)
    BY <2>1, <2>2, <2>3
  <2> QED
    BY <1>L, <2>3, <2>4 DEF PlaceSound, Reached
<1>4. PlaceSound(Migrations, 4)
  <2>1. FileSound(Migrations[4].statements, 2, 3, {"format"})
    BY NodeColumnFiles
  <2>2. Migrations[4].guard = {"format"}
    BY Guards
  <2>3. Migrations[4].version = 3 /\ Migrations[3].version = 2
    BY Versions
  <2>4. FileSound(Migrations[4].statements, 2, Migrations[4].version, Migrations[4].guard)
    BY <2>1, <2>2, <2>3
  <2> QED
    BY <1>L, <2>3, <2>4 DEF PlaceSound, Reached
<1>5. PlaceSound(Migrations, 5)
  <2>1. FileSound(Migrations[5].statements, 3, 4, {"deleted_at"})
    BY NodeColumnFiles
  <2>2. Migrations[5].guard = {"deleted_at"}
    BY Guards
  <2>3. Migrations[5].version = 4 /\ Migrations[4].version = 3
    BY Versions
  <2>4. FileSound(Migrations[5].statements, 3, Migrations[5].version, Migrations[5].guard)
    BY <2>1, <2>2, <2>3
  <2> QED
    BY <1>L, <2>3, <2>4 DEF PlaceSound, Reached
<1>6. PlaceSound(Migrations, 6)
  <2>1. FileSound(Migrations[6].statements, 4, 5, {"is_favorite", "rating"})
    BY PairFiles
  <2>2. Migrations[6].guard = {"is_favorite", "rating"}
    BY Guards
  <2>3. Migrations[6].version = 5 /\ Migrations[5].version = 4
    BY Versions
  <2>4. FileSound(Migrations[6].statements, 4, Migrations[6].version, Migrations[6].guard)
    BY <2>1, <2>2, <2>3
  <2> QED
    BY <1>L, <2>3, <2>4 DEF PlaceSound, Reached
<1>7. PlaceSound(Migrations, 7)
  <2>1. FileSound(Migrations[7].statements, 5, 6, {})
    BY TriggerFileSound
  <2>2. Migrations[7].guard = {}
    BY Guards
  <2>3. Migrations[7].version = 6 /\ Migrations[6].version = 5
    BY Versions
  <2>4. FileSound(Migrations[7].statements, 5, Migrations[7].version, Migrations[7].guard)
    BY <2>1, <2>2, <2>3
  <2> QED
    BY <1>L, <2>3, <2>4 DEF PlaceSound, Reached
<1>8. PlaceSound(Migrations, 8)
  <2>1. FileSound(Migrations[8].statements, 6, 7, {})
    BY LastFileSound
  <2>2. Migrations[8].guard = {}
    BY Guards
  <2>3. Migrations[8].version = 7 /\ Migrations[7].version = 6
    BY Versions
  <2>4. FileSound(Migrations[8].statements, 6, Migrations[8].version, Migrations[8].guard)
    BY <2>1, <2>2, <2>3
  <2> QED
    BY <1>L, <2>3, <2>4 DEF PlaceSound, Reached
<1>all. \A i \in 1..8 : i = 1 \/ i = 2 \/ i = 3 \/ i = 4 \/ i = 5 \/ i = 6 \/ i = 7 \/ i = 8
  OBVIOUS
<1> QED
  BY <1>all, <1>1, <1>2, <1>3, <1>4, <1>5, <1>6, <1>7, <1>8

LEMMA NativePlaces == \A i \in 1..5 : PlaceSound(NativeMigrations, i)
<1>L. Len(NativeMigrations) = 5
  BY Lists
<1>1. PlaceSound(NativeMigrations, 1)
  <2>1. FileSound(NativeMigrations[1].statements, 0, 1, {"prompts"})
    BY FirstFileSound, NativeFiles
  <2>2. NativeMigrations[1].guard = {"prompts"}
    BY Guards
  <2>3. NativeMigrations[1].version = 1
    BY Versions
  <2>4. FileSound(NativeMigrations[1].statements, 0, NativeMigrations[1].version, NativeMigrations[1].guard)
    BY <2>1, <2>2, <2>3
  <2> QED
    BY <1>L, <2>3, <2>4 DEF PlaceSound, Reached
<1>2. PlaceSound(NativeMigrations, 2)
  <2>1. FileSound(NativeMigrations[2].statements, 1, 2, {})
    BY NativeCategorySound
  <2>2. NativeMigrations[2].guard = {}
    BY Guards
  <2>3. NativeMigrations[2].version = 2 /\ NativeMigrations[1].version = 1
    BY Versions
  <2>4. FileSound(NativeMigrations[2].statements, 1, NativeMigrations[2].version, NativeMigrations[2].guard)
    BY <2>1, <2>2, <2>3
  <2> QED
    BY <1>L, <2>3, <2>4 DEF PlaceSound, Reached
<1>3. PlaceSound(NativeMigrations, 3)
  <2>1. FileSound(NativeMigrations[3].statements, 2, 3, {})
    BY NativeColumnFiles
  <2>2. NativeMigrations[3].guard = {}
    BY Guards
  <2>3. NativeMigrations[3].version = 3 /\ NativeMigrations[2].version = 2
    BY Versions
  <2>4. FileSound(NativeMigrations[3].statements, 2, NativeMigrations[3].version, NativeMigrations[3].guard)
    BY <2>1, <2>2, <2>3
  <2> QED
    BY <1>L, <2>3, <2>4 DEF PlaceSound, Reached
<1>4. PlaceSound(NativeMigrations, 4)
  <2>1. FileSound(NativeMigrations[4].statements, 3, 4, {})
    BY NativeColumnFiles
  <2>2. NativeMigrations[4].guard = {}
    BY Guards
  <2>3. NativeMigrations[4].version = 4 /\ NativeMigrations[3].version = 3
    BY Versions
  <2>4. FileSound(NativeMigrations[4].statements, 3, NativeMigrations[4].version, NativeMigrations[4].guard)
    BY <2>1, <2>2, <2>3
  <2> QED
    BY <1>L, <2>3, <2>4 DEF PlaceSound, Reached
<1>5. PlaceSound(NativeMigrations, 5)
  <2>1. FileSound(NativeMigrations[5].statements, 4, 5, {})
    BY PairFiles
  <2>2. NativeMigrations[5].guard = {}
    BY Guards
  <2>3. NativeMigrations[5].version = 5 /\ NativeMigrations[4].version = 4
    BY Versions
  <2>4. FileSound(NativeMigrations[5].statements, 4, NativeMigrations[5].version, NativeMigrations[5].guard)
    BY <2>1, <2>2, <2>3
  <2> QED
    BY <1>L, <2>3, <2>4 DEF PlaceSound, Reached
<1>all. \A i \in 1..5 : i = 1 \/ i = 2 \/ i = 3 \/ i = 4 \/ i = 5
  OBVIOUS
<1> QED
  BY <1>all, <1>1, <1>2, <1>3, <1>4, <1>5

LEMMA Places ==
  ASSUME NEW program \in Programs
  PROVE  /\ Len(Files(program)) \in Nat \ {0}
         /\ \A i \in 1..Len(Files(program)) : PlaceSound(Files(program), i)
<1>1. \/ Files(program) = Migrations /\ Len(Files(program)) = 8
      \/ Files(program) = NativeMigrations /\ Len(Files(program)) = 5
  BY Lists DEF Programs, Files
<1>2. CASE Files(program) = Migrations /\ Len(Files(program)) = 8
  BY <1>2, NodePlaces
<1>3. CASE Files(program) = NativeMigrations /\ Len(Files(program)) = 5
  BY <1>3, NativePlaces
<1> QED
  BY <1>1, <1>2, <1>3

LEMMA SinceGrows ==
  ASSUME NEW a \in Nat, NEW b \in Nat, a <= b
  PROVE  Since(a) \subseteq Since(b)
<1>2. \A n \in Nat : a >= n => b >= n
  OBVIOUS
<1>3. \A A : \A n \in Nat :
        (IF a >= n THEN A ELSE {}) \subseteq (IF b >= n THEN A ELSE {})
  BY <1>2
<1> DEFINE More(A, n, v) == IF v >= n THEN A ELSE {}
<1>4. /\ More(Tables, 1, a) \subseteq More(Tables, 1, b)
      /\ More({"category"}, 2, a) \subseteq More({"category"}, 2, b)
      /\ More({"format"}, 3, a) \subseteq More({"format"}, 3, b)
      /\ More({"deleted_at"}, 4, a) \subseteq More({"deleted_at"}, 4, b)
      /\ More({"is_favorite", "rating"}, 5, a) \subseteq More({"is_favorite", "rating"}, 5, b)
      /\ More({"new fts", "new fts rows"} \cup NewTriggers, 7, a)
           \subseteq More({"new fts", "new fts rows"} \cup NewTriggers, 7, b)
  BY <1>3
<1>5. \A v : Since(v) =
        More(Tables, 1, v) \cup More({"category"}, 2, v) \cup More({"format"}, 3, v)
        \cup More({"deleted_at"}, 4, v) \cup More({"is_favorite", "rating"}, 5, v)
        \cup More({"new fts", "new fts rows"} \cup NewTriggers, 7, v)
  BY Zenon DEF Since
<1> HIDE DEF More
<1> QED
  BY <1>4, <1>5

LEMMA LastPlace ==
  ASSUME NEW program \in Programs
  PROVE  Needed(program) \subseteq Since(Files(program)[Len(Files(program))].version)
<1>1. Needed("node") \subseteq Since(7)
  <2>1. Needed("node") = Complete
    BY DEF Needed
  <2>2. \A o \in Complete :
          \/ o \in Tables \/ o \in {"new fts", "new fts rows"} \/ o \in NewTriggers
          \/ o \in {"category", "format", "deleted_at", "is_favorite", "rating"}
    BY DEF Complete, Columns, Tables
  <2> QED
    BY <2>1, <2>2, Numbers
<1>2. Needed("native") \subseteq Since(5)
  <2>1. Needed("native") = {"prompts", "prompt_versions", "tags", "prompt_tags"} \cup Columns
    BY DEF Needed
  <2>2. \A o \in {"prompts", "prompt_versions", "tags", "prompt_tags"} \cup Columns :
          o \in Tables \/ o \in {"category", "format", "deleted_at", "is_favorite", "rating"}
    BY DEF Columns, Tables
  <2> QED
    BY <2>1, <2>2, Numbers
<1>3. Files("node")[Len(Files("node"))].version = 7
  BY Lists, Versions
<1>4. Files("native")[Len(Files("native"))].version = 5
  BY Lists, Versions
<1>5. program = "node" \/ program = "native"
  BY DEF Programs
<1> QED
  BY <1>1, <1>2, <1>3, <1>4, <1>5

(***************************************************************************)
(* A runner on its way                                                     *)
(***************************************************************************)

Whole(D) == D \cap Kept # {} => Tables \subseteq D
Paired(D) == "is_favorite" \in D <=> "rating" \in D

Throws(s, D) == s.unless \cap D = {} /\ (s.clash \cap D # {} \/ ~(s.needs \subseteq D))
After(s, D) == IF s.unless \cap D # {} \/ Throws(s, D) THEN D ELSE (D \ s.drops) \cup s.adds

(* Before statement `k' of a file that leads from version `u' to `v': what  *)
(* the statements before have left is there; only the first file may leave  *)
(* the tables, and only file 005 the pair of columns, in between.           *)
Amid(S, u, v, guard, k, D) ==
  /\ Since(u) \subseteq D
  /\ \A j \in 1..(k - 1) : Left(S[j]) \subseteq D
  /\ k = 1 => Whole(D)
  /\ v # 5 \/ k = 1 => Paired(D)
  /\ v = 5 /\ k <= 2 /\ "rating" \in guard => "rating" \notin D

LEMMA SinceIsKept ==
  ASSUME NEW v \in 0..6
  PROVE  Since(v) \subseteq Kept
<1>1. Since(6) \subseteq Kept
  <2>1. {"category", "format", "deleted_at", "is_favorite", "rating"} \subseteq Kept
    BY DEF Kept, Columns
  <2>2. Tables \subseteq Kept
    BY DEF Kept
  <2> QED
    BY <2>1, <2>2, Numbers
<1> QED
  BY <1>1, SinceGrows

LEMMA SinceHasTables ==
  ASSUME NEW v \in Nat \ {0}
  PROVE  Tables \subseteq Since(v)
<1>1. Since(1) \subseteq Since(v)
  BY SinceGrows
<1> QED
  BY <1>1, Numbers

LEMMA StatementLeaves ==
  ASSUME NEW s, NEW D, ~Throws(s, D)
  PROVE  Left(s) \subseteq After(s, D)
BY DEF Left, After

LEMMA KeptStays ==
  ASSUME NEW s, NEW D, NEW o \in D, o \notin s.drops
  PROVE  o \in After(s, D)
BY DEF After

LEMMA StatementSound ==
  ASSUME NEW S, NEW u \in 0..6, NEW v \in 1..7, NEW guard, NEW D,
         NEW k \in 1..Len(S),
         FileSound(S, u, v, guard), Amid(S, u, v, guard, k, D), ~Throws(S[k], D)
  PROVE  Amid(S, u, v, guard, k + 1, After(S[k], D))
<1> DEFINE E == After(S[k], D)
<1>0. Len(S) \in Nat /\ k \in Nat /\ k >= 1
  BY DEF FileSound
<1>1. S[k].drops \cap Kept = {} /\ \A j \in 1..(k - 1) : Left(S[j]) \cap S[k].drops = {}
  BY DEF FileSound, SparesObjects
<1>2. \A o \in D \cap Kept : o \in E
  BY <1>1, KeptStays
<1>3. Since(u) \subseteq E
  BY <1>2, SinceIsKept DEF Amid
<1>4. \A j \in 1..(k - 1) : Left(S[j]) \subseteq E
  BY <1>1, KeptStays DEF Amid
<1>5. Left(S[k]) \subseteq E
  BY StatementLeaves
<1>6. \A j \in 1..((k + 1) - 1) : j = k \/ j \in 1..(k - 1)
  BY <1>0
<1>7. ASSUME v # 5 PROVE Paired(E)
  <2>1. "is_favorite" \in S[k].adds <=> "rating" \in S[k].adds
    BY <1>7 DEF FileSound, PairsColumns
  <2>2. "is_favorite" \notin S[k].drops /\ "rating" \notin S[k].drops
    <3>1. "is_favorite" \in Kept /\ "rating" \in Kept
      BY DEF Kept, Columns
    <3> QED
      BY <3>1, <1>1
  <2>3. Paired(D)
    BY <1>7 DEF Amid
  <2> QED
    BY <2>1, <2>2, <2>3 DEF Paired, After
<1>8. ASSUME v = 5, k + 1 <= 2, "rating" \in guard PROVE "rating" \notin E
  <2>1. k = 1
    BY <1>0, <1>8
  <2>2. S[k].adds = {"is_favorite"}
    BY <1>8, <2>1 DEF FileSound, AddsPair
  <2>3. "rating" \notin D
    BY <1>8, <2>1 DEF Amid
  <2>4. E \subseteq D \cup S[k].adds
    BY DEF After
  <2> QED
    BY <2>2, <2>3, <2>4
<1>9. k + 1 # 1
  BY <1>0
<1> HIDE DEF E
<1>10. \A j \in 1..((k + 1) - 1) : Left(S[j]) \subseteq E
  BY <1>4, <1>5, <1>6
<1> QED
  <2>1. Amid(S, u, v, guard, k + 1, E)
    BY <1>3, <1>7, <1>8, <1>9, <1>10 DEF Amid
  <2> QED
    BY <2>1 DEF E

(* A statement throws only where the database is fit to be started on.      *)
LEMMA ThrowSound ==
  ASSUME NEW S, NEW u \in 0..6, NEW v \in 1..7, NEW guard, NEW D,
         NEW k \in 1..Len(S), v = 1 \/ u # 0,
         FileSound(S, u, v, guard), Amid(S, u, v, guard, k, D), Throws(S[k], D)
  PROVE  Whole(D) /\ Paired(D)
<1>0. Len(S) \in Nat /\ k \in Nat /\ k >= 1
  BY DEF FileSound
<1>1. v # 1
  <2>1. SUFFICES ASSUME v = 1 PROVE FALSE
    OBVIOUS
  <2>2. S[k].clash = {} /\ \A o \in S[k].needs : \E j \in 1..(k - 1) : o \in Left(S[j])
    BY <2>1 DEF FileSound, NeverThrows
  <2>3. S[k].needs \subseteq D
    BY <2>2 DEF Amid
  <2> QED
    BY <2>2, <2>3 DEF Throws
<1>2. Tables \subseteq D
  BY <1>1, SinceHasTables DEF Amid
<1>3. CASE v # 5
  BY <1>2, <1>3 DEF Amid, Whole
<1>4. CASE v = 5
  <2>1. k = 1
    <3>1. SUFFICES ASSUME k # 1 PROVE FALSE
      OBVIOUS
    <3>2. Len(S) = 2
      BY <1>4 DEF FileSound, AddsPair
    <3>3. k = 2
      BY <3>1, <3>2
    <3>4. S[2].needs = {"prompts"} /\ S[2].clash \subseteq guard \cap {"rating"}
      BY <1>4 DEF FileSound, AddsPair
    <3>5. "prompts" \in D
      BY <1>2 DEF Tables
    <3>6. S[2].clash \cap D = {}
      BY <1>4, <3>3, <3>4 DEF Amid
    <3> QED
      BY <3>3, <3>4, <3>5, <3>6 DEF Throws
  <2> QED
    BY <2>1, <1>2 DEF Amid, Whole
<1> QED
  BY <1>3, <1>4

LEMMA FileEnds ==
  ASSUME NEW S, NEW u \in 0..6, NEW v \in 1..7, NEW guard, NEW D,
         FileSound(S, u, v, guard), Amid(S, u, v, guard, Len(S) + 1, D)
  PROVE  Since(v) \subseteq D /\ Whole(D) /\ Paired(D)
<1>0. Len(S) \in Nat \ {0} /\ (Len(S) + 1) - 1 = Len(S)
  BY DEF FileSound
<1>1. Since(v) \subseteq D
  BY <1>0 DEF FileSound, Delivers, Amid
<1>2. Tables \subseteq D
  BY <1>1, SinceHasTables
<1>3. CASE v # 5
  BY <1>1, <1>2, <1>3 DEF Amid, Whole
<1>4. CASE v = 5
  <2>1. "is_favorite" \in D /\ "rating" \in D
    BY <1>1, <1>4, Numbers
  <2> QED
    BY <1>1, <1>2, <2>1 DEF Whole, Paired
<1> QED
  BY <1>3, <1>4

LEMMA SkipSound ==
  ASSUME NEW u, NEW v \in 1..7, NEW guard, NEW D, NEW o \in guard, o \in D,
         Skips(guard, u, v), Since(u) \subseteq D, Whole(D), Paired(D)
  PROVE  Since(v) \subseteq D /\ v <= 5
<1>1. o \in Kept /\ v <= 5
  BY DEF Skips
<1>2. Tables \subseteq D
  BY <1>1 DEF Whole
<1>3. ASSUME NEW p \in Since(v) PROVE p \in D
  <2>1. \/ p \in Since(u) \/ p = o \/ p \in Tables
        \/ {o, p} \subseteq {"is_favorite", "rating"}
    BY DEF Skips
  <2>2. CASE {o, p} \subseteq {"is_favorite", "rating"}
    <3>1. "is_favorite" \in D /\ "rating" \in D
      BY <2>2 DEF Paired
    <3> QED
      BY <2>2, <3>1
  <2> QED
    BY <1>2, <2>1, <2>2
<1> QED
  BY <1>1, <1>3

(***************************************************************************)
(* The inductive invariant, for one runner                                 *)
(***************************************************************************)

BetweenSound(F, i, D, v) ==
  /\ i \in 1..(Len(F) + 1)
  /\ Since(Reached(F, i)) \subseteq D /\ Whole(D) /\ Paired(D)
  /\ i <= Len(F) => v < 7

InsideSound(F, i, k, D, v) ==
  /\ i \in 1..Len(F) /\ k \in 1..(Len(F[i].statements) + 1)
  /\ Amid(F[i].statements, Reached(F, i), F[i].version, F[i].guard, k, D)
  /\ v < 7

(* Where a runner may be on a database with the objects `D' that records    *)
(* version `v'.                                                             *)
OnTheWay(place, D, v) ==
  /\ place.at \in {"stopped", "ready", "between files", "inside a file"}
  /\ place.at = "stopped" => Whole(D) /\ Paired(D)
  /\ place.at = "ready" => place.program \in Programs /\ Needed(place.program) \subseteq D
  /\ place.at = "between files" =>
       place.program \in Programs /\ BetweenSound(Files(place.program), place.file, D, v)
  /\ place.at = "inside a file" =>
       /\ place.program \in Programs
       /\ InsideSound(Files(place.program), place.file, place.next, D, v)

MigrationInv(x) ==
  /\ DOMAIN runner = {x} /\ schema \subseteq Objects
  /\ userVersion \in 0..7 /\ crashes \in 0..MaxCrashes
  /\ Since(userVersion) \subseteq schema
  /\ OnTheWay(runner[x], schema, userVersion)

LEMMA Arrivals ==
  ASSUME NEW D, NEW v
  PROVE  /\ Whole(D) /\ Paired(D) => OnTheWay(Stopped, D, v)
         /\ \A program \in Programs : Needed(program) \subseteq D => OnTheWay(Ready(program), D, v)
         /\ \A program \in Programs : \A i :
              BetweenSound(Files(program), i, D, v) => OnTheWay(Between(program, i), D, v)
         /\ \A program \in Programs : \A i, k :
              InsideSound(Files(program), i, k, D, v) => OnTheWay(Inside(program, i, k), D, v)
<1>1. Stopped.at = "stopped"
  BY DEF Stopped
<1>2. \A program : Ready(program).at = "ready" /\ Ready(program).program = program
  BY DEF Ready
<1>3. \A program, i : /\ Between(program, i).at = "between files"
                     /\ Between(program, i).program = program /\ Between(program, i).file = i
  BY DEF Between
<1>5. Whole(D) /\ Paired(D) => OnTheWay(Stopped, D, v)
  BY <1>1 DEF OnTheWay
<1>6. \A program \in Programs : Needed(program) \subseteq D => OnTheWay(Ready(program), D, v)
  BY <1>2 DEF OnTheWay
<1>7. \A program \in Programs : \A i :
        BetweenSound(Files(program), i, D, v) => OnTheWay(Between(program, i), D, v)
  BY <1>3 DEF OnTheWay
<1>8. \A program \in Programs : \A i, k :
        InsideSound(Files(program), i, k, D, v) => OnTheWay(Inside(program, i, k), D, v)
  <2>1. SUFFICES ASSUME NEW program \in Programs, NEW i, NEW k,
                        InsideSound(Files(program), i, k, D, v)
                 PROVE  OnTheWay(Inside(program, i, k), D, v)
    OBVIOUS
  <2> DEFINE place == Inside(program, i, k)
  <2>2. place.at = "inside a file"
    BY DEF Inside
  <2>3. place.program = program /\ place.file = i /\ place.next = k
    BY DEF Inside
  <2> HIDE DEF place
  <2>4. InsideSound(Files(place.program), place.file, place.next, D, v)
    BY <2>1, <2>3
  <2> QED
    <3>1. OnTheWay(place, D, v)
      BY <2>2, <2>3, <2>4 DEF OnTheWay
    <3> QED
      BY <3>1 DEF place
<1> QED
  BY <1>5, <1>6, <1>7, <1>8

LEMMA Moves ==
  ASSUME NEW x, DOMAIN runner = {x}, NEW place, Move(x, place)
  PROVE  DOMAIN runner' = {x} /\ runner'[x] = place
BY DEF Move

LEMMA InferenceSound ==
  ASSUME NEW program \in Programs, Whole(schema), Since(userVersion) \subseteq schema,
         userVersion \in 0..7
  PROVE  /\ CurrentVersion(program) \in 0..7 /\ CurrentVersion(program) >= userVersion
         /\ Since(CurrentVersion(program)) \subseteq schema
<1>1. Columns \subseteq schema => Since(5) \subseteq schema
  <2>1. Columns = {"category", "format", "deleted_at", "is_favorite", "rating"}
    BY DEF Columns
  <2>2. Columns \subseteq Kept /\ "category" \in Columns
    BY DEF Columns, Kept
  <2> QED
    BY <2>1, <2>2, Numbers DEF Whole
<1>2. {"category", "deleted_at", "format"} \subseteq schema => Since(2) \subseteq schema
  <2>1. "category" \in Kept
    BY DEF Columns, Kept
  <2> QED
    BY <2>1, Numbers DEF Whole
<1>3. {"prompts", "prompt_versions"} \cap schema # {} => Since(1) \subseteq schema
  <2>1. {"prompts", "prompt_versions"} \subseteq Kept
    BY DEF Tables, Kept
  <2>2. {"prompts", "prompt_versions"} \cap schema # {} => Tables \subseteq schema
    BY <2>1 DEF Whole
  <2> QED
    BY <2>2, Numbers
<1>4. InferSchemaVersion \in {0, 1, 2, 5} /\ Since(InferSchemaVersion) \subseteq schema
  BY <1>1, <1>2, <1>3, Numbers DEF InferSchemaVersion
<1>5. InferNative \in {0, 1, 2, 5} /\ Since(InferNative) \subseteq schema
  BY <1>4, Numbers DEF InferNative
<1>6. CurrentVersion(program) \in
        {Larger(userVersion, InferSchemaVersion), Larger(userVersion, InferNative)}
  BY DEF CurrentVersion
<1>7. ASSUME NEW a \in {0, 1, 2, 5}, Since(a) \subseteq schema
      PROVE  /\ Larger(userVersion, a) \in 0..7 /\ Larger(userVersion, a) >= userVersion
             /\ Since(Larger(userVersion, a)) \subseteq schema
  BY <1>7 DEF Larger
<1> QED
  BY <1>4, <1>5, <1>6, <1>7

LEMMA StartSound ==
  ASSUME NEW x, MigrationInv(x), NEW program \in Programs, Start(x, program)
  PROVE  MigrationInv(x)'
<1> DEFINE pending == {i \in 1..Len(Files(program)) :
                         Files(program)[i].version > CurrentVersion(program)}
<1>1. /\ runner[x] = Stopped
      /\ IF pending = {} THEN Move(x, Ready(program))
         ELSE \E i \in pending : (\A k \in pending : i <= k) /\ Move(x, Between(program, i))
      /\ userVersion' = IF pending = {} \/ program = "native"
                         THEN CurrentVersion(program) ELSE userVersion
      /\ UNCHANGED <<schema, crashes>>
  BY DEF Start
<1>2. Whole(schema) /\ Paired(schema)
  <2>1. Stopped.at = "stopped"
    BY DEF Stopped
  <2> QED
    BY <1>1, <2>1 DEF MigrationInv, OnTheWay
<1>3. /\ CurrentVersion(program) \in 0..7 /\ CurrentVersion(program) >= userVersion
      /\ Since(CurrentVersion(program)) \subseteq schema
  BY <1>2, InferenceSound DEF MigrationInv
<1>4. userVersion' \in {userVersion, CurrentVersion(program)}
  BY <1>1
<1>5. userVersion' \in 0..7 /\ Since(userVersion') \subseteq schema
  BY <1>3, <1>4 DEF MigrationInv
<1>6. Len(Files(program)) \in Nat \ {0} /\ \A i \in 1..Len(Files(program)) : PlaceSound(Files(program), i)
  BY Places
<1>7. CASE pending = {}
  <2>1. Move(x, Ready(program))
    BY <1>1, <1>7
  <2>2. Files(program)[Len(Files(program))].version <= CurrentVersion(program)
        /\ Files(program)[Len(Files(program))].version \in Nat
    <3>1. Len(Files(program)) \in 1..Len(Files(program))
      BY <1>6
    <3>2. Files(program)[Len(Files(program))].version \in 1..7
      BY <1>6, <3>1 DEF PlaceSound
    <3>3. ~(Files(program)[Len(Files(program))].version > CurrentVersion(program))
      BY <1>7, <3>1
    <3> QED
      BY <1>3, <3>2, <3>3
  <2>3. Needed(program) \subseteq schema
    BY <1>3, <2>2, LastPlace, SinceGrows
  <2>4. OnTheWay(Ready(program), schema, userVersion')
    BY <2>3, Arrivals
  <2> QED
    BY <1>1, <1>5, <2>1, <2>4, Moves DEF MigrationInv
<1>8. CASE pending # {}
  <2>1. PICK i \in pending : (\A k \in pending : i <= k) /\ Move(x, Between(program, i))
    BY <1>1, <1>8
  <2>2. i \in 1..Len(Files(program)) /\ Files(program)[i].version > CurrentVersion(program)
    OBVIOUS
  <2>3. Files(program)[i].version \in 1..7
    BY <1>6, <2>2 DEF PlaceSound
  <2>4. userVersion' < 7
    BY <1>3, <1>4, <2>2, <2>3 DEF MigrationInv
  <2>5. Since(Reached(Files(program), i)) \subseteq schema
    <3>1. CASE i = 1
      BY <3>1, Numbers DEF Reached
    <3>2. CASE i # 1
      <4>1. i - 1 \in 1..Len(Files(program)) /\ ~(i <= i - 1)
        BY <1>6, <2>2, <3>2
      <4>2. i - 1 \notin pending
        BY <2>1, <4>1
      <4>3. Files(program)[i - 1].version \in 1..7
        BY <1>6, <4>1 DEF PlaceSound
      <4>4. Files(program)[i - 1].version <= CurrentVersion(program)
        BY <1>3, <4>1, <4>2, <4>3
      <4> QED
        BY <1>3, <3>2, <4>3, <4>4, SinceGrows DEF Reached
    <3> QED
      BY <3>1, <3>2
  <2>6. i \in 1..(Len(Files(program)) + 1)
    BY <1>6, <2>2
  <2>7. BetweenSound(Files(program), i, schema, userVersion')
    BY <1>2, <2>4, <2>5, <2>6 DEF BetweenSound
  <2>8. OnTheWay(Between(program, i), schema, userVersion')
    BY <2>7, Arrivals
  <2> QED
    BY <1>1, <1>5, <2>1, <2>8, Moves DEF MigrationInv
<1> QED
  BY <1>7, <1>8

(* What the invariant says of a runner between two files. *)
LEMMA AtAFile ==
  ASSUME NEW x, MigrationInv(x), runner[x].at = "between files"
  PROVE  /\ runner[x].program \in Programs
         /\ BetweenSound(Files(runner[x].program), runner[x].file, schema, userVersion)
         /\ Len(Files(runner[x].program)) \in Nat \ {0}
         /\ \A i \in 1..Len(Files(runner[x].program)) : PlaceSound(Files(runner[x].program), i)
<1>1. /\ runner[x].program \in Programs
      /\ BetweenSound(Files(runner[x].program), runner[x].file, schema, userVersion)
  BY DEF MigrationInv, OnTheWay
<1> QED
  BY <1>1, Places

LEMMA InAFile ==
  ASSUME NEW x, MigrationInv(x), runner[x].at = "inside a file"
  PROVE  /\ runner[x].program \in Programs
         /\ InsideSound(Files(runner[x].program), runner[x].file, runner[x].next, schema, userVersion)
         /\ Len(Files(runner[x].program)) \in Nat \ {0}
         /\ PlaceSound(Files(runner[x].program), runner[x].file)
<1>1. /\ runner[x].program \in Programs
      /\ InsideSound(Files(runner[x].program), runner[x].file, runner[x].next, schema, userVersion)
  BY DEF MigrationInv, OnTheWay
<1>2. runner[x].file \in 1..Len(Files(runner[x].program))
  BY <1>1 DEF InsideSound
<1> QED
  BY <1>1, <1>2, Places

(* The place after a file that has brought its version. *)
LEMMA NextFileSound ==
  ASSUME NEW F, NEW i \in 1..Len(F), NEW D, Len(F) \in Nat \ {0}, PlaceSound(F, i),
         Since(F[i].version) \subseteq D, Whole(D), Paired(D)
  PROVE  BetweenSound(F, i + 1, D, F[i].version)
<1>1. Reached(F, i + 1) = F[i].version
  <2>1. i + 1 # 1 /\ (i + 1) - 1 = i
    OBVIOUS
  <2> QED
    BY <2>1 DEF Reached
<1>2. i + 1 \in 1..(Len(F) + 1) /\ (i + 1 <= Len(F) => i < Len(F))
  OBVIOUS
<1>3. i < Len(F) => F[i].version < 7
  BY DEF PlaceSound
<1>4. i + 1 <= Len(F) => F[i].version < 7
  BY <1>2, <1>3
<1>5. Since(Reached(F, i + 1)) \subseteq D
  BY <1>1
<1> QED
  BY <1>2, <1>4, <1>5 DEF BetweenSound

LEMMA OpenSound ==
  ASSUME NEW x, MigrationInv(x), OpenFile(x)
  PROVE  MigrationInv(x)'
<1> DEFINE F == Files(runner[x].program)
           i == runner[x].file
           f == F[i]
<1>1. runner[x].at = "between files" /\ ~(i > Len(F)) /\ UNCHANGED <<schema, crashes>>
  BY DEF OpenFile, AllDone
<1>2. /\ runner[x].program \in Programs
      /\ BetweenSound(F, i, schema, userVersion)
      /\ Len(F) \in Nat \ {0}
      /\ \A n \in 1..Len(F) : PlaceSound(F, n)
  BY <1>1, AtAFile
<1>3. i \in 1..Len(F)
  <2>1. i \in 1..(Len(F) + 1)
    BY <1>2 DEF BetweenSound
  <2>2. ~(i > Len(F))
    BY <1>1
  <2> HIDE DEF i, F
  <2> QED
    BY <1>2, <2>1, <2>2
<1>4. PlaceSound(F, i)
  BY <1>2, <1>3
<1>5. Since(Reached(F, i)) \subseteq schema /\ Whole(schema) /\ Paired(schema) /\ userVersion < 7
  BY <1>2, <1>3 DEF BetweenSound
<1>6. CASE \E column \in f.guard : HasColumn(column)
  <2>1. userVersion' = f.version /\ Move(x, Between(runner[x].program, i + 1))
    BY <1>6 DEF OpenFile, FileOf
  <2>2. PICK o \in f.guard : o \in schema
    BY SMTT(60), <1>6 DEF HasColumn
  <2>3. f.version \in 1..7 /\ Skips(f.guard, Reached(F, i), f.version)
    BY ZenonT(60), <1>4 DEF PlaceSound, FileSound
  <2>4. Since(f.version) \subseteq schema
    BY <1>5, <2>2, <2>3, SkipSound
  <2>5. BetweenSound(F, i + 1, schema, f.version)
    BY <1>2, <1>3, <1>4, <1>5, <2>4, NextFileSound
  <2>6. OnTheWay(Between(runner[x].program, i + 1), schema, f.version)
    BY <1>2, <2>5, Arrivals
  <2> QED
    <3>1. DOMAIN runner' = {x} /\ runner'[x] = Between(runner[x].program, i + 1)
      BY <2>1, Moves DEF MigrationInv
    <3> HIDE DEF f, i
    <3>2. schema' = schema
      BY <1>1
    <3>5. userVersion' \in 0..7 /\ Since(userVersion') \subseteq schema'
      BY <2>1, <2>3, <2>4, <3>2
    <3>3. OnTheWay(runner'[x], schema', userVersion')
      BY <1>1, <2>1, <2>6, <3>1
    <3>4. schema' \subseteq Objects /\ crashes' \in 0..MaxCrashes
      BY <1>1 DEF MigrationInv
    <3> QED
      BY <3>1, <3>3, <3>4, <3>5 DEF MigrationInv
<1>7. CASE ~\E column \in f.guard : HasColumn(column)
  <2>1. userVersion' = userVersion /\ Move(x, Inside(runner[x].program, i, 1))
    BY <1>7 DEF OpenFile, FileOf
  <2>2. \A o \in f.guard : o \notin schema
    BY <1>7 DEF HasColumn
  <2>3. Amid(f.statements, Reached(F, i), f.version, f.guard, 1, schema)
    BY <1>5, <2>2 DEF Amid
  <2>4. 1 \in 1..(Len(f.statements) + 1)
    <3>1. FileSound(f.statements, Reached(F, i), f.version, f.guard)
      BY <1>4 DEF PlaceSound
    <3> HIDE DEF f
    <3>2. Len(f.statements) \in Nat
      BY SMTT(60), <3>1 DEF FileSound
    <3> QED
      BY SMTT(60), <3>2
  <2>5. InsideSound(F, i, 1, schema, userVersion)
    BY <1>3, <1>5, <2>3, <2>4 DEF InsideSound
  <2>6. OnTheWay(Inside(runner[x].program, i, 1), schema, userVersion)
    BY <1>2, <2>5, Arrivals
  <2> QED
    BY <1>1, <2>1, <2>6, Moves DEF MigrationInv
<1> QED
  BY <1>6, <1>7

LEMMA ExecuteSound ==
  ASSUME NEW x, MigrationInv(x), ExecuteStatement(x)
  PROVE  MigrationInv(x)'
<1> DEFINE program == runner[x].program
           F == Files(program)
           i == runner[x].file
           k == runner[x].next
           S == F[i].statements
           s == S[k]
<1>1. /\ runner[x].at = "inside a file" /\ k <= Len(S)
      /\ schema' = After(s, schema)
      /\ Move(x, IF Throws(s, schema) THEN Stopped ELSE Inside(program, i, k + 1))
      /\ userVersion' = userVersion /\ crashes' = crashes
  BY ZenonT(60) DEF ExecuteStatement, FileOf, Throws, After
<1>2. /\ program \in Programs /\ InsideSound(F, i, k, schema, userVersion)
      /\ Len(F) \in Nat \ {0} /\ PlaceSound(F, i)
  BY ZenonT(60), <1>1, InAFile
<1>3. /\ FileSound(S, Reached(F, i), F[i].version, F[i].guard)
      /\ Reached(F, i) \in 0..6 /\ F[i].version \in 1..7
      /\ F[i].version = 1 \/ Reached(F, i) # 0
  BY <1>2 DEF PlaceSound
<1>4. /\ i \in 1..Len(F) /\ k \in 1..(Len(S) + 1) /\ userVersion < 7
      /\ Amid(S, Reached(F, i), F[i].version, F[i].guard, k, schema)
  BY SMTT(60), <1>2 DEF InsideSound
<1>5. Len(S) \in Nat \ {0}
  <2> HIDE DEF S
  <2> QED
    BY <1>3 DEF FileSound
<1>6. k \in 1..Len(S) /\ k + 1 \in 1..(Len(S) + 1)
  <2>1. k <= Len(S)
    BY <1>1
  <2>2. k \in 1..(Len(S) + 1)
    BY SMTT(60), <1>4
  <2> HIDE DEF k, S
  <2> QED
    BY SMTT(60), <1>5, <2>1, <2>2
<1>7. s.adds \subseteq Objects /\ s.drops \cap Kept = {}
  <2>1. SparesObjects(S)
    <3> HIDE DEF S
    <3> QED
      BY <1>3 DEF FileSound
  <2> QED
    BY ZenonT(60), <1>6, <2>1 DEF SparesObjects
<1>8. After(s, schema) \subseteq Objects
  <2>1. schema \subseteq Objects
    BY DEF MigrationInv
  <2> HIDE DEF s
  <2> QED
    BY <1>7, <2>1 DEF After
<1>9. Since(userVersion) \subseteq After(s, schema)
  <2>1. Since(userVersion) \subseteq schema /\ userVersion \in 0..6
    BY <1>4 DEF MigrationInv
  <2>2. Since(userVersion) \subseteq Kept
    BY <2>1, SinceIsKept
  <2> HIDE DEF s
  <2> QED
    BY <1>7, <2>1, <2>2, KeptStays
<1>10. OnTheWay(runner'[x], schema', userVersion') /\ DOMAIN runner' = {x}
  <2>1. CASE Throws(s, schema)
    <3>1. Whole(schema) /\ Paired(schema)
      <4> HIDE DEF S, F, i, k
      <4> QED
        BY SMTT(60), <1>3, <1>4, <1>6, <2>1, ThrowSound
    <3>2. Move(x, Stopped)
      BY ZenonT(60), <1>1, <2>1
    <3>3. schema' = schema
      BY <1>1, <2>1 DEF After
    <3>4. OnTheWay(Stopped, schema, userVersion)
      BY <3>1, Arrivals
    <3>5. DOMAIN runner' = {x} /\ runner'[x] = Stopped
      BY SMTT(60), <3>2, Moves DEF MigrationInv
    <3>6. userVersion' = userVersion
      BY ZenonT(60), <1>1
    <3> QED
      BY <3>3, <3>4, <3>5, <3>6
  <2>2. CASE ~Throws(s, schema)
    <3>1. Amid(S, Reached(F, i), F[i].version, F[i].guard, k + 1, After(s, schema))
      <4> HIDE DEF S, F, i, k
      <4> QED
        BY <1>3, <1>4, <1>6, <2>2, StatementSound
    <3>2. Move(x, Inside(program, i, k + 1))
      BY <1>1, <2>2
    <3>3. InsideSound(F, i, k + 1, After(s, schema), userVersion)
      BY ZenonT(60), <1>4, <1>6, <3>1 DEF InsideSound
    <3>4. OnTheWay(Inside(program, i, k + 1), After(s, schema), userVersion)
      BY <1>2, <3>3, Arrivals
    <3>5. DOMAIN runner' = {x} /\ runner'[x] = Inside(program, i, k + 1)
      BY <3>2, Moves DEF MigrationInv
    <3> QED
      BY <1>1, <3>4, <3>5
  <2> QED
    BY <2>1, <2>2
<1>11. userVersion' \in 0..7 /\ crashes' \in 0..MaxCrashes
  BY <1>1 DEF MigrationInv
<1>12. schema' \subseteq Objects /\ Since(userVersion') \subseteq schema'
  BY <1>1, <1>8, <1>9
<1> QED
  BY <1>10, <1>11, <1>12 DEF MigrationInv

LEMMA FinishSound ==
  ASSUME NEW x, MigrationInv(x), FinishFile(x)
  PROVE  MigrationInv(x)'
<1> DEFINE program == runner[x].program
           F == Files(program)
           i == runner[x].file
           k == runner[x].next
           S == F[i].statements
<1>1. /\ runner[x].at = "inside a file" /\ k > Len(S)
      /\ userVersion' = F[i].version
      /\ Move(x, Between(program, i + 1))
      /\ schema' = schema /\ crashes' = crashes
  BY DEF FinishFile, FileOf
<1>2. /\ program \in Programs /\ InsideSound(F, i, k, schema, userVersion)
      /\ Len(F) \in Nat \ {0} /\ PlaceSound(F, i)
  BY ZenonT(60), <1>1, InAFile
<1>3. /\ FileSound(S, Reached(F, i), F[i].version, F[i].guard)
      /\ Reached(F, i) \in 0..6 /\ F[i].version \in 1..7
  BY <1>2 DEF PlaceSound
<1>4. /\ i \in 1..Len(F) /\ k \in 1..(Len(S) + 1)
      /\ Amid(S, Reached(F, i), F[i].version, F[i].guard, k, schema)
  BY SMTT(60), <1>2 DEF InsideSound
<1>5. Len(S) \in Nat \ {0}
  <2> HIDE DEF S
  <2> QED
    BY <1>3 DEF FileSound
<1>6. k = Len(S) + 1
  <2>1. k > Len(S) /\ k \in 1..(Len(S) + 1)
    BY <1>1, <1>4
  <2> HIDE DEF k, S
  <2> QED
    BY <1>5, <2>1
<1>7. Since(F[i].version) \subseteq schema /\ Whole(schema) /\ Paired(schema)
  <2> HIDE DEF S, F, i, k
  <2> QED
    BY <1>3, <1>4, <1>6, FileEnds
<1>8. BetweenSound(F, i + 1, schema, F[i].version)
  BY <1>2, <1>4, <1>7, NextFileSound
<1>9. OnTheWay(Between(program, i + 1), schema, F[i].version)
  BY <1>2, <1>8, Arrivals
<1>10. DOMAIN runner' = {x} /\ runner'[x] = Between(program, i + 1)
  BY <1>1, Moves DEF MigrationInv
<1>11. OnTheWay(runner'[x], schema', userVersion')
  BY <1>1, <1>9, <1>10
<1>12. schema' \subseteq Objects /\ crashes' \in 0..MaxCrashes
  BY <1>1 DEF MigrationInv
<1>13. userVersion' \in 0..7 /\ Since(userVersion') \subseteq schema'
  <2>1. userVersion' = F[i].version /\ schema' = schema
    BY <1>1
  <2> HIDE DEF F, i
  <2> QED
    BY <2>1, <1>3, <1>7
<1> QED
  BY <1>10, <1>11, <1>12, <1>13 DEF MigrationInv

LEMMA FinishAllSound ==
  ASSUME NEW x, MigrationInv(x), FinishAll(x)
  PROVE  MigrationInv(x)'
<1> DEFINE program == runner[x].program
           F == Files(program)
           i == runner[x].file
<1>1. /\ runner[x].at = "between files" /\ i > Len(F)
      /\ Move(x, Ready(program))
      /\ UNCHANGED <<schema, userVersion, crashes>>
  BY DEF FinishAll, AllDone
<1>2. /\ program \in Programs /\ BetweenSound(F, i, schema, userVersion)
      /\ Len(F) \in Nat \ {0}
  BY <1>1, AtAFile
<1>3. i = Len(F) + 1
  <2>1. i \in 1..(Len(F) + 1)
    BY <1>2 DEF BetweenSound
  <2>2. i > Len(F)
    BY <1>1
  <2> HIDE DEF i, F
  <2> QED
    BY <1>2, <2>1, <2>2
<1>4. Reached(F, i) = F[Len(F)].version
  <2> HIDE DEF i, F
  <2>1. i # 1 /\ i - 1 = Len(F)
    BY <1>2, <1>3
  <2> QED
    BY <2>1 DEF Reached
<1>5. Needed(program) \subseteq schema
  <2>1. Since(F[Len(F)].version) \subseteq schema
    BY <1>2, <1>4 DEF BetweenSound
  <2> QED
    BY <1>2, <2>1, LastPlace
<1>6. OnTheWay(Ready(program), schema, userVersion)
  BY <1>2, <1>5, Arrivals
<1> QED
  BY <1>1, <1>6, Moves DEF MigrationInv

LEMMA CrashSound ==
  ASSUME NEW x, MigrationInv(x), CrashFiles \cap {1, 5} = {}, Crash(x)
  PROVE  MigrationInv(x)'
<1>1. /\ MayCrash(x) /\ Move(x, Stopped) /\ crashes < MaxCrashes /\ crashes' = crashes + 1
      /\ UNCHANGED <<schema, userVersion>>
  BY DEF Crash
<1>2. Whole(schema) /\ Paired(schema)
  <2>1. CASE runner[x].at = "between files"
    BY <2>1, AtAFile DEF BetweenSound
  <2>2. CASE /\ runner[x].at = "inside a file"
             /\ \/ runner[x].next \in {1, Len(FileOf(x).statements) + 1}
                \/ FileOf(x).version \in CrashFiles
    <3> DEFINE F == Files(runner[x].program)
               i == runner[x].file
               k == runner[x].next
               S == F[i].statements
    <3>1. k = 1 \/ k = Len(S) + 1 \/ F[i].version \in CrashFiles
      BY <2>2 DEF FileOf
    <3>2. InsideSound(F, i, k, schema, userVersion) /\ PlaceSound(F, i)
      BY ZenonT(60), <2>2, InAFile
    <3>3. /\ FileSound(S, Reached(F, i), F[i].version, F[i].guard)
          /\ Reached(F, i) \in 0..6 /\ F[i].version \in 1..7
          /\ F[i].version = 1 \/ Reached(F, i) # 0
      BY <3>2 DEF PlaceSound
    <3>4. Amid(S, Reached(F, i), F[i].version, F[i].guard, k, schema)
      BY <3>2 DEF InsideSound
    <3> HIDE DEF F, i, k, S
    <3>5. CASE k = 1
      BY <3>4, <3>5 DEF Amid
    <3>6. CASE k = Len(S) + 1
      BY <3>3, <3>4, <3>6, FileEnds
    <3>7. CASE F[i].version \in CrashFiles
      <4>1. F[i].version # 5 /\ Reached(F, i) # 0
        BY <3>3, <3>7
      <4>2. Tables \subseteq schema
        BY <3>3, <3>4, <4>1, SinceHasTables DEF Amid
      <4> QED
        BY <3>4, <4>1, <4>2 DEF Amid, Whole
    <3> QED
      BY <3>1, <3>5, <3>6, <3>7
  <2> QED
    BY <1>1, <2>1, <2>2 DEF MayCrash
<1>3. crashes' \in 0..MaxCrashes
  BY <1>1, CrashesCount DEF MigrationInv
<1>4. OnTheWay(Stopped, schema, userVersion)
  BY <1>2, Arrivals
<1> QED
  BY <1>1, <1>3, <1>4, Moves DEF MigrationInv

LEMMA ReleasedSound ==
  ASSUME NEW v \in 0..7
  PROVE  /\ Released(v) \subseteq Objects /\ Since(v) \subseteq Released(v)
         /\ Whole(Released(v)) /\ Paired(Released(v))
<1>1. CASE v = 0
  <2>1. Released(v) = {}
    BY <1>1 DEF Released
  <2> QED
    BY <1>1, <2>1, Numbers DEF Whole, Paired
<1>2. CASE v # 0
  <2> DEFINE More(A, n) == IF v >= n THEN A ELSE {}
             Search == IF v = 7 THEN {"new fts", "new fts rows"} \cup NewTriggers
                       ELSE {"old fts"} \cup
                            (IF v = 6 THEN (OldTriggers \ DeleteTriggers) \cup {"fts5 delete trigger"}
                             ELSE OldTriggers)
  <2>1. Released(v) = {"prompts", "prompt_versions", "tags", "prompt_tags", "indexes", "view"}
          \cup More({"category", "more indexes"}, 2) \cup More({"format"}, 3)
          \cup More({"deleted_at"}, 4) \cup More({"is_favorite", "rating"}, 5) \cup Search
    BY <1>2, Zenon DEF Released
  <2>2. Tables \subseteq Released(v)
    <3> HIDE DEF More, Search
    <3> QED
      BY <2>1 DEF Tables
  <2>3. Since(v) \subseteq Tables \cup More({"category", "more indexes"}, 2) \cup More({"format"}, 3)
          \cup More({"deleted_at"}, 4) \cup More({"is_favorite", "rating"}, 5) \cup Search
    <3>1. Since(v) \subseteq Tables \cup More({"category"}, 2) \cup More({"format"}, 3)
          \cup More({"deleted_at"}, 4) \cup More({"is_favorite", "rating"}, 5)
          \cup More({"new fts", "new fts rows"} \cup NewTriggers, 7)
      BY DEF Since
    <3>2. More({"new fts", "new fts rows"} \cup NewTriggers, 7) \subseteq Search
      <4>1. CASE v = 7
        BY <4>1
      <4>2. CASE v # 7
        <5>1. ~(v >= 7)
          BY <4>2
        <5> QED
          BY <5>1
      <4> QED
        BY <4>1, <4>2
    <3>3. More({"category"}, 2) \subseteq More({"category", "more indexes"}, 2)
      OBVIOUS
    <3> HIDE DEF More, Search
    <3> QED
      BY <3>1, <3>2, <3>3
  <2>4. Since(v) \subseteq Released(v)
    <3> HIDE DEF More, Search
    <3> QED
      BY <2>1, <2>2, <2>3
  <2>5. Search \subseteq Objects /\ Search \cap Kept = {}
    <3>1. {"new fts", "new fts rows"} \cup NewTriggers \subseteq Index \cup Triggers
      BY TriggersAreObjects DEF Index
    <3>2. {"old fts"} \cup OldTriggers \subseteq Index \cup Triggers
      BY DEF Index, Triggers
    <3>3. "fts5 delete trigger" \in Triggers
      BY DEF DeleteTriggers, Triggers
    <3>4. Search \subseteq Index \cup Triggers
      BY <3>1, <3>2, <3>3
    <3> HIDE DEF Search
    <3> QED
      BY <3>4, TriggersAreObjects
  <2>6. /\ More({"category", "more indexes"}, 2) \subseteq {"category", "more indexes"}
        /\ More({"format"}, 3) \subseteq {"format"}
        /\ More({"deleted_at"}, 4) \subseteq {"deleted_at"}
        /\ More({"is_favorite", "rating"}, 5) \in {{}, {"is_favorite", "rating"}}
    OBVIOUS
  <2>7. Released(v) \subseteq Objects
    <3>1. {"prompts", "prompt_versions", "tags", "prompt_tags", "indexes", "view", "category",
           "more indexes", "format", "deleted_at", "is_favorite", "rating"} \subseteq Objects
      BY DEF Objects, Complete, Columns
    <3> HIDE DEF More, Search
    <3> QED
      BY <2>1, <2>5, <2>6, <3>1
  <2>8. Paired(Released(v))
    <3>1. "is_favorite" \notin Search /\ "rating" \notin Search
      BY <2>5 DEF Kept, Columns
    <3> HIDE DEF More, Search
    <3>2. "is_favorite" \in Released(v) <=> "is_favorite" \in More({"is_favorite", "rating"}, 5)
      BY <2>1, <2>6, <3>1
    <3>3. "rating" \in Released(v) <=> "rating" \in More({"is_favorite", "rating"}, 5)
      BY <2>1, <2>6, <3>1
    <3> QED
      BY <2>6, <3>2, <3>3 DEF Paired
  <2> QED
    BY <2>2, <2>4, <2>7, <2>8 DEF Whole
<1> QED
  BY <1>1, <1>2

LEMMA MigrationStarts ==
  ASSUME NEW x, Runners = {x}, MigrationInit
  PROVE  MigrationInv(x)
<1>1. PICK v \in StartVersions : schema = Released(v) /\ userVersion \in {0, v}
  BY DEF MigrationInit
<1>2. v \in 0..7
  BY VersionsExist
<1>3. /\ schema \subseteq Objects /\ Since(v) \subseteq schema
      /\ Whole(schema) /\ Paired(schema)
  BY <1>1, <1>2, ReleasedSound
<1>4. Since(userVersion) \subseteq schema /\ userVersion \in 0..7
  <2>1. Since(0) = {}
    BY Numbers
  <2>2. userVersion = 0 \/ userVersion = v
    BY <1>1
  <2> QED
    BY <1>2, <1>3, <2>1, <2>2
<1>5. OnTheWay(Stopped, schema, userVersion)
  BY <1>3, Arrivals
<1>6. DOMAIN runner = {x} /\ runner[x] = Stopped
  BY DEF MigrationInit
<1>7. crashes \in 0..MaxCrashes
  BY CrashesCount DEF MigrationInit
<1> QED
  BY <1>3, <1>4, <1>5, <1>6, <1>7 DEF MigrationInv

LEMMA MigrationStepSound ==
  ASSUME NEW x, Runners = {x}, CrashFiles \cap {1, 5} = {}, MigrationInv(x),
         [MigrationNext]_migrationVars
  PROVE  MigrationInv(x)'
<1>1. CASE UNCHANGED migrationVars
  <2>1. /\ schema' = schema /\ userVersion' = userVersion
        /\ runner' = runner /\ crashes' = crashes
    BY <1>1 DEF migrationVars
  <2> QED
    BY <2>1 DEF MigrationInv
<1>2. CASE MigrationNext
  <2>1. Step(x) \/ Crash(x)
    BY <1>2 DEF MigrationNext
  <2>2. CASE \E program \in Programs : Start(x, program)
    BY <2>2, StartSound
  <2>3. CASE OpenFile(x)
    BY <2>3, OpenSound
  <2>4. CASE ExecuteStatement(x)
    BY <2>4, ExecuteSound
  <2>5. CASE FinishFile(x)
    BY <2>5, FinishSound
  <2>6. CASE FinishAll(x)
    BY <2>6, FinishAllSound
  <2>7. CASE Crash(x)
    BY <2>7, CrashSound
  <2> QED
    BY <2>1, <2>2, <2>3, <2>4, <2>5, <2>6, <2>7 DEF Step
<1> QED
  BY <1>1, <1>2

LEMMA InvIsReady ==
  ASSUME NEW x, Runners = {x}, MigrationInv(x)
  PROVE  ReadyIsComplete
<1>1. MigrationTypeOK
  BY DEF MigrationTypeOK, MigrationInv, OnTheWay, Objects
<1>2. ASSUME NEW program \in Programs, runner[x] = Ready(program)
      PROVE  Needed(program) \subseteq schema
  <2>1. Ready(program).at = "ready" /\ Ready(program).program = program
    BY DEF Ready
  <2>2. runner[x].at = "ready" /\ runner[x].program = program
    BY <1>2, <2>1
  <2> QED
    BY <2>2 DEF MigrationInv, OnTheWay
<1> QED
  BY <1>1, <1>2 DEF ReadyIsComplete

(* For one process that opens the file, started again after every failure,  *)
(* whatever released database it finds, however often it crashes between    *)
(* the files or inside any but 001, which creates the tables, and 005,      *)
(* which adds two columns: applyMigrations is through only with every       *)
(* object that the program's queries use there.                             *)
THEOREM OneRunnerIsComplete ==
  ASSUME NEW x, Runners = {x}, CrashFiles \cap {1, 5} = {}
  PROVE  MigrationSpec => []ReadyIsComplete
<1>1. MigrationInit => MigrationInv(x)
  BY MigrationStarts
<1>2. MigrationInv(x) /\ [MigrationNext]_migrationVars => MigrationInv(x)'
  BY MigrationStepSound
<1>3. MigrationInv(x) => ReadyIsComplete
  BY InvIsReady
<1> QED
  BY <1>1, <1>2, <1>3, PTL DEF MigrationSpec

=============================================================================
