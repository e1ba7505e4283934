-------------------------- MODULE VaultService_proofs --------------------------
(***************************************************************************)
(* Proofs about two parts of the service, for every value of the           *)
(* constants.  Recovery: a restore does what its preview announced or      *)
(* nothing, a fresh plan fails only where it must, after a restore only    *)
(* the limits refuse an export, and an export brings its own library back. *)
(* TagService: the tag rows of the sidecar stay unique, and calls that     *)
(* overlap leave the labels they agree on.                                 *)
(***************************************************************************)
EXTENDS Recovery, TagService, RecoveryDomain_proofs, FiniteSetTheorems, SequenceTheorems,
        WellFoundedInduction, TLAPS

-----------------------------------------------------------------------------
(* Documents.                                                              *)

(* What Normalized makes of a file: the same prompts, each once. *)
LEMMA NormalizedIs ==
  ASSUME NEW source, source \in Seq(Source)
  PROVE  /\ Normalized(source) \in Seq(Source)
         /\ WellFormed(source) => WellFormed(Normalized(source))
         /\ TitlesFit(source) => TitlesFit(Normalized(source))
<1>1. source \in Seq(PromptWith(AnyMeta))
  BY DEF Source
<1>2. QED
  BY <1>1, NormalizedOf DEF Source

(* A library as an export sees it, and the document made of it. *)
VisibleOK(visible) ==
  /\ IsFiniteSet(DOMAIN visible) /\ DOMAIN visible \subseteq Slugs
  /\ \A s \in DOMAIN visible :
       visible[s].meta \in AnyMeta /\ visible[s].versions \in Seq(Version)

LEMMA DocumentIs ==
  ASSUME NEW visible, VisibleOK(visible)
  PROVE  /\ Document(visible) \in Seq(Source)
         /\ SlugsOnce(Document(visible))
         /\ \A i \in DOMAIN Document(visible) :
              LET s == Document(visible)[i].slug
              IN /\ s \in DOMAIN visible
                 /\ Document(visible)[i].meta = visible[s].meta
                 /\ Document(visible)[i].versions = VersionsSorted(visible[s].versions)
         /\ \A s \in DOMAIN visible : \E i \in DOMAIN Document(visible) :
              Document(visible)[i].slug = s
<1> DEFINE slugs == InOrder(DOMAIN visible, BySlug(DOMAIN visible))
           n == Cardinality(DOMAIN visible)
           document == Document(visible)
<1>1. IsFiniteSet(DOMAIN visible) /\ n \in Nat
  BY FS_CardinalityType DEF VisibleOK
<1>2. /\ slugs \in [1..n -> DOMAIN visible]
      /\ \A s \in DOMAIN visible : \E i \in 1..n : slugs[i] = s
      /\ \A i, k \in 1..n : slugs[i] = slugs[k] => i = k
  BY <1>1, BySlugIsOrder, InOrderLists DEF VisibleOK
<1>3. document = [i \in 1..n |->
        [slug |-> slugs[i], meta |-> visible[slugs[i]].meta,
         versions |-> VersionsSorted(visible[slugs[i]].versions)]]
  <2>1. DOMAIN slugs = 1..n
    BY <1>2
  <2>2. QED
    BY <2>1 DEF Document
<1> HIDE DEF slugs, document, n
<1>4. ASSUME NEW i \in 1..n
      PROVE  /\ document[i] \in Source /\ document[i].slug = slugs[i]
             /\ document[i].meta = visible[slugs[i]].meta
             /\ document[i].versions = VersionsSorted(visible[slugs[i]].versions)
  <2>1. slugs[i] \in DOMAIN visible /\ slugs[i] \in Slugs
        /\ visible[slugs[i]].meta \in AnyMeta
        /\ VersionsSorted(visible[slugs[i]].versions) \in Seq(Version)
    BY <1>2, VersionsSortedIs DEF VisibleOK
  <2>2. QED
    BY <1>3, <2>1 DEF Source, PromptWith
<1>5. document \in Seq(Source) /\ DOMAIN document = 1..n
  BY <1>1, <1>3, <1>4
<1>6. SlugsOnce(document)
  BY <1>2, <1>4, <1>5 DEF SlugsOnce
<1>7. \A i \in 1..n : slugs[i] \in DOMAIN visible
  BY <1>2
<1>8. \A s \in DOMAIN visible : \E i \in 1..n : document[i].slug = s
  BY <1>2, <1>4
<1>9. QED
  BY ZenonT(60), <1>4, <1>5, <1>6, <1>7, <1>8 DEF document

LEMMA WellFormedDocument ==
  ASSUME NEW visible, VisibleOK(visible)
  PROVE  WellFormed(Document(visible)) <=>
           \A s \in DOMAIN visible : EachOnce(visible[s].versions)
<1> DEFINE document == Document(visible)
<1>1. ASSUME NEW i \in DOMAIN document
      PROVE  LET s == document[i].slug
             IN /\ s \in DOMAIN visible
                /\ EachOnce(document[i].versions) <=> EachOnce(visible[s].versions)
  <2>1. visible[document[i].slug].versions \in Seq(Version)
    BY DocumentIs DEF VisibleOK
  <2>2. QED
    BY <2>1, DocumentIs, VersionsSortedIs
<1>2. \A s \in DOMAIN visible : \E i \in DOMAIN document : document[i].slug = s
  BY DocumentIs
<1>3. SlugsOnce(document)
  BY DocumentIs
<1> HIDE DEF document
<1>4. QED
  BY <1>1, <1>2, <1>3, WellFormedIs DEF document

LEMMA TitlesDocument ==
  ASSUME NEW visible, VisibleOK(visible)
  PROVE  TitlesFit(Document(visible)) <=> \A s \in DOMAIN visible : ~TooLong(visible[s].meta)
<1> DEFINE document == Document(visible)
<1>1. \A i \in DOMAIN document :
        document[i].slug \in DOMAIN visible /\ document[i].meta = visible[document[i].slug].meta
  BY DocumentIs
<1>2. \A s \in DOMAIN visible : \E i \in DOMAIN document : document[i].slug = s
  BY DocumentIs
<1> HIDE DEF document
<1>3. TitlesFit(document) <=> \A s \in DOMAIN visible : ~TooLong(visible[s].meta)
  BY <1>1, <1>2 DEF TitlesFit
<1>4. QED
  BY <1>3 DEF document

-----------------------------------------------------------------------------
(* Plans.                                                                  *)

LEMMA EntriesAre ==
  ASSUME NEW document, document \in Seq(Source), NEW visible
  PROVE  LET entries == Entries(document, visible)
         IN /\ DOMAIN entries = 1..Len(document) /\ Len(entries) = Len(document)
            /\ \A i \in 1..Len(document) :
                 entries[i] = PlanEntry(document[i], visible,
                   DOMAIN visible \cup {Reserved(entries[k]) : k \in 1..(i - 1)})
<1>1. document \in Seq(PromptWith(AnyMeta))
  BY DEF Source
<1>2. QED
  BY ZenonT(60), <1>1, EntriesOf

(* A library of rows as the tables allow them. *)
RowOK(row) ==
  /\ row = [meta |-> row.meta, trashed |-> row.trashed, versions |-> row.versions]
  /\ row.meta \in AnyMeta /\ row.trashed \in BOOLEAN /\ row.versions \in Seq(Version)

LibraryOK(lib) ==
  /\ IsFiniteSet(DOMAIN lib) /\ DOMAIN lib \subseteq Slugs
  /\ lib = [s \in DOMAIN lib |-> lib[s]]
  /\ \A s \in DOMAIN lib : RowOK(lib[s])

LEMMA VisibleIs ==
  ASSUME NEW lib, LibraryOK(lib)
  PROVE  /\ VisibleOK(Visible(lib))
         /\ \A s : s \in DOMAIN Visible(lib) <=> s \in DOMAIN lib /\ ~lib[s].trashed
         /\ \A s \in DOMAIN Visible(lib) :
              /\ Visible(lib)[s].meta = lib[s].meta
              /\ Visible(lib)[s].versions = lib[s].versions
<1> DEFINE seen == {t \in DOMAIN lib : ~lib[t].trashed}
           visible == Visible(lib)
<1>1. visible = [s \in seen |-> [meta |-> lib[s].meta, versions |-> lib[s].versions]]
  BY DEF Visible
<1>2. IsFiniteSet(seen)
  BY FS_Subset DEF LibraryOK
<1>3. \A s \in seen : RowOK(lib[s]) /\ s \in Slugs
  BY DEF LibraryOK
<1> HIDE DEF visible
<1>4. DOMAIN visible = seen
  BY <1>1
<1>5. \A s \in seen : visible[s].meta = lib[s].meta /\ visible[s].versions = lib[s].versions
  BY <1>1
<1>6. VisibleOK(visible)
  BY <1>2, <1>3, <1>4, <1>5 DEF VisibleOK, RowOK
<1>7. QED
  BY <1>4, <1>5, <1>6 DEF visible

(* What an entry does under a policy: it inserts the prompt, or merges it, *)
(* or leaves all as it is.                                                 *)
Fresh(entry) == entry.kind = "new-prompt"
Inserts(policy, entry) == Fresh(entry) \/ policy = "import-as-copy"
Merges(policy, entry) == ~Fresh(entry) /\ policy = "add-missing-versions"

MissingOf(source, entry) ==
  Selected(source.versions,
           {i \in DOMAIN source.versions : Identity(source.versions[i]) \in entry.missing})

NewRow(source, entry) ==
  [meta |-> IF Fresh(entry) THEN source.meta ELSE Copied(source.meta),
   trashed |-> FALSE, versions |-> source.versions]

(* The entry of a source, and the slugs that were taken before it. *)
EntryOf(entry, source, visible, taken) ==
  /\ entry.slug = source.slug
  /\ Fresh(entry) <=> source.slug \notin DOMAIN visible
  /\ Fresh(entry) => Reserved(entry) = source.slug
  /\ ~Fresh(entry) =>
       /\ entry.missing = Identities(source.versions) \ Identities(visible[source.slug].versions)
       /\ entry.copySlug = FreeCopySlug(source.slug, taken)
       /\ Reserved(entry) = entry.copySlug

LEMMA PlanEntryIs ==
  ASSUME NEW source, NEW visible, NEW taken
  PROVE  EntryOf(PlanEntry(source, visible, taken), source, visible, taken)
<1> DEFINE entry == PlanEntry(source, visible, taken)
<1>1. CASE source.slug \notin DOMAIN visible
  <2>1. entry = [slug |-> source.slug, kind |-> "new-prompt",
                 missing |-> Identities(source.versions), copySlug |-> <<>>]
    BY <1>1 DEF PlanEntry
  <2>2. entry.slug = source.slug /\ Fresh(entry) /\ Reserved(entry) = source.slug
    BY <2>1 DEF Fresh, Reserved
  <2> HIDE DEF entry
  <2>3. QED
    BY <1>1, <2>2 DEF EntryOf, entry
<1>2. CASE source.slug \in DOMAIN visible
  <2> DEFINE kind == Kind(source, visible[source.slug])
  <2>1. kind # "new-prompt"
    BY DEF Kind
  <2> HIDE DEF kind
  <2>2. entry = [slug |-> source.slug, kind |-> kind,
                 missing |-> Identities(source.versions)
                               \ Identities(visible[source.slug].versions),
                 copySlug |-> FreeCopySlug(source.slug, taken)]
    BY <1>2 DEF PlanEntry, kind
  <2>3. ~Fresh(entry) /\ Reserved(entry) = entry.copySlug
    BY <2>1, <2>2 DEF Fresh, Reserved
  <2>4. /\ entry.slug = source.slug
        /\ entry.missing = Identities(source.versions) \ Identities(visible[source.slug].versions)
        /\ entry.copySlug = FreeCopySlug(source.slug, taken)
    BY <2>2
  <2> HIDE DEF entry
  <2>5. QED
    BY <1>2, <2>3, <2>4 DEF EntryOf, entry
<1>3. QED
  BY <1>1, <1>2

(* The plan as a whole: no copy meets a prompt in use or an entry before it. *)
PlanOf(entries, document, visible) ==
  /\ Len(entries) = Len(document)
  /\ \A i \in 1..Len(document) :
       /\ EntryOf(entries[i], document[i], visible,
                  DOMAIN visible \cup {Reserved(entries[k]) : k \in 1..(i - 1)})
       /\ Reserved(entries[i]) \in Slugs
       /\ ~Fresh(entries[i]) =>
            /\ Reserved(entries[i]) \notin DOMAIN visible
            /\ \A k \in 1..(i - 1) : Reserved(entries[i]) # Reserved(entries[k])
            /\ Reserved(entries[i]) = CopySlug(document[i].slug, Last(Reserved(entries[i])))

LEMMA PlanIs ==
  ASSUME NEW document, document \in Seq(Source), NEW visible, VisibleOK(visible)
  PROVE  PlanOf(Entries(document, visible), document, visible)
<1> DEFINE entries == Entries(document, visible)
           n == Len(document)
           before(i) == {Reserved(entries[k]) : k \in 1..(i - 1)}
<1>1. /\ Len(entries) = n /\ n \in Nat
      /\ \A i \in 1..n : entries[i] = PlanEntry(document[i], visible, DOMAIN visible \cup before(i))
  <2>1. n \in Nat
    OBVIOUS
  <2>2. Len(entries) = n
    BY EntriesAre
  <2>3. \A i \in 1..n : entries[i] = PlanEntry(document[i], visible, DOMAIN visible \cup before(i))
    BY ZenonT(60), EntriesAre
  <2>4. QED
    BY <2>1, <2>2, <2>3
<1> HIDE DEF entries
<1>2. ASSUME NEW i \in 1..n
      PROVE  /\ EntryOf(entries[i], document[i], visible, DOMAIN visible \cup before(i))
             /\ Reserved(entries[i]) \in Slugs
             /\ ~Fresh(entries[i]) =>
                  /\ Reserved(entries[i]) \notin DOMAIN visible
                  /\ \A k \in 1..(i - 1) : Reserved(entries[i]) # Reserved(entries[k])
                  /\ Reserved(entries[i]) = CopySlug(document[i].slug, Last(Reserved(entries[i])))
  <2>1. EntryOf(entries[i], document[i], visible, DOMAIN visible \cup before(i))
    BY ZenonT(60), <1>1, PlanEntryIs
  <2>2. document[i].slug \in Slugs
    <3>1. document[i] \in Source
      OBVIOUS
    <3>2. QED
      BY <3>1 DEF Source, PromptWith
  <2>3. CASE Fresh(entries[i])
    BY <2>1, <2>2, <2>3 DEF EntryOf
  <2>4. CASE ~Fresh(entries[i])
    <3>1. IsFiniteSet(DOMAIN visible \cup before(i))
      <4> DEFINE f == [k \in 1..(i - 1) |-> Reserved(entries[k])]
      <4>1. i - 1 \in Nat /\ f = [k \in 1..(i - 1) |-> f[k]]
        OBVIOUS
      <4>2. before(i) = {f[k] : k \in 1..(i - 1)}
        OBVIOUS
      <4> HIDE DEF f
      <4>3. IsFiniteSet(before(i))
        BY <4>1, <4>2, ImageFinite
      <4> HIDE DEF before
      <4>4. QED
        BY <4>3, FS_Union DEF VisibleOK
    <3> DEFINE taken == DOMAIN visible \cup before(i)
    <3>2. Reserved(entries[i]) = FreeCopySlug(document[i].slug, taken)
      BY <2>1, <2>4 DEF EntryOf
    <3>3. Reserved(entries[i]) \notin taken
      BY <2>2, <3>1, <3>2, CopyIsFree
    <3>4. PICK m \in Nat \ {0} : Reserved(entries[i]) = CopySlug(document[i].slug, m)
      BY <2>2, <3>1, <3>2, CopyIsFree
    <3>5. Reserved(entries[i]) \in Slugs
          /\ Reserved(entries[i]) = CopySlug(document[i].slug, Last(Reserved(entries[i])))
      BY <2>2, <3>4, CopySlugIs
    <3>6. QED
      BY <2>1, <3>3, <3>5
  <2>5. QED
    BY <2>3, <2>4
<1>3. QED
  BY <1>1, <1>2 DEF PlanOf, entries

-----------------------------------------------------------------------------
(* Carrying a plan out.                                                    *)

Inserted(lib, source, entry) ==
  [s \in DOMAIN lib \cup {Reserved(entry)} |->
    IF s = Reserved(entry) THEN NewRow(source, entry) ELSE lib[s]]

Merged(lib, source, entry) ==
  [lib EXCEPT ![source.slug].versions = @ \o MissingOf(source, entry)]

LEMMA PolicyIs ==
  ASSUME NEW policy \in Policies, NEW entry
  PROVE  \/ Fresh(entry) /\ Inserts(policy, entry) /\ entry.kind = "new-prompt"
         \/ ~Fresh(entry) /\ entry.kind # "new-prompt" /\ policy = "import-as-copy"
              /\ Inserts(policy, entry)
         \/ ~Fresh(entry) /\ entry.kind # "new-prompt" /\ policy = "add-missing-versions"
              /\ ~Inserts(policy, entry) /\ Merges(policy, entry)
         \/ ~Fresh(entry) /\ entry.kind # "new-prompt" /\ policy = "skip-existing"
              /\ ~Inserts(policy, entry) /\ ~Merges(policy, entry)
BY DEF Policies, Fresh, Inserts, Merges

LEMMA ApplyEntryIs ==
  ASSUME NEW policy \in Policies, NEW document, SlugsOnce(document), NEW k \in DOMAIN document,
         NEW visible, NEW taken, NEW entry, EntryOf(entry, document[k], visible, taken), NEW lib
  PROVE  /\ Inserts(policy, entry) =>
              ApplyEntry(policy, document, entry, lib) =
                IF Reserved(entry) \in DOMAIN lib THEN Failure
                ELSE Done(Inserted(lib, document[k], entry))
         /\ Merges(policy, entry) =>
              ApplyEntry(policy, document, entry, lib) = Done(Merged(lib, document[k], entry))
         /\ ~Inserts(policy, entry) /\ ~Merges(policy, entry) =>
              ApplyEntry(policy, document, entry, lib) = Done(lib)
<1> DEFINE source == document[CHOOSE i \in DOMAIN document : document[i].slug = entry.slug]
<1>1. source = document[k]
  <2>1. document[k].slug = entry.slug
    BY DEF EntryOf
  <2>2. \A i \in DOMAIN document : document[i].slug = entry.slug => i = k
    BY <2>1 DEF SlugsOnce
  <2>3. (CHOOSE i \in DOMAIN document : document[i].slug = entry.slug) = k
    BY <2>1, <2>2
  <2>4. QED
    BY <2>3
<1> HIDE DEF source
<1>2. /\ entry.slug = source.slug
      /\ Fresh(entry) => Reserved(entry) = source.slug
      /\ ~Fresh(entry) => Reserved(entry) = entry.copySlug
  BY <1>1 DEF EntryOf
<1>3. ApplyEntry(policy, document, entry, lib) =
        CASE entry.kind = "new-prompt" ->
               InsertCompletePrompt(lib, source, source.slug, source.meta)
          [] entry.kind # "new-prompt" /\ policy = "skip-existing" -> Done(lib)
          [] entry.kind # "new-prompt" /\ policy = "import-as-copy" ->
               InsertCompletePrompt(lib, source, entry.copySlug, Copied(source.meta))
          [] entry.kind # "new-prompt" /\ policy = "add-missing-versions" ->
               MergeVersions(lib, source, entry.missing)
  BY DEF ApplyEntry, source
<1>4. ASSUME Inserts(policy, entry)
      PROVE  ApplyEntry(policy, document, entry, lib) =
                IF Reserved(entry) \in DOMAIN lib THEN Failure
                ELSE Done(Inserted(lib, source, entry))
  <2>1. CASE Fresh(entry)
    <3>1. ApplyEntry(policy, document, entry, lib) =
            InsertCompletePrompt(lib, source, source.slug, source.meta)
      BY <1>3, <2>1 DEF Fresh
    <3>2. QED
      BY <1>2, <2>1, <3>1 DEF InsertCompletePrompt, Inserted, NewRow
  <2>2. CASE ~Fresh(entry)
    <3>1. entry.kind # "new-prompt" /\ policy = "import-as-copy"
      BY <1>4, <2>2 DEF Inserts, Fresh
    <3>2. ApplyEntry(policy, document, entry, lib) =
            InsertCompletePrompt(lib, source, entry.copySlug, Copied(source.meta))
      BY <1>3, <3>1
    <3>3. QED
      BY <1>2, <2>2, <3>2 DEF InsertCompletePrompt, Inserted, NewRow
  <2>3. QED
    BY <2>1, <2>2
<1>5. ASSUME Merges(policy, entry)
      PROVE  ApplyEntry(policy, document, entry, lib) = Done(Merged(lib, source, entry))
  <2>1. entry.kind # "new-prompt" /\ policy = "add-missing-versions"
    BY <1>5 DEF Merges, Fresh
  <2>2. ApplyEntry(policy, document, entry, lib) = MergeVersions(lib, source, entry.missing)
    BY <1>3, <2>1
  <2>3. QED
    BY <2>2 DEF MergeVersions, Merged, MissingOf
<1>6. ASSUME ~Inserts(policy, entry), ~Merges(policy, entry)
      PROVE  ApplyEntry(policy, document, entry, lib) = Done(lib)
  <2>1. entry.kind # "new-prompt" /\ policy = "skip-existing"
    BY <1>6, PolicyIs
  <2>2. QED
    BY <1>3, <2>1
<1>7. QED
  BY <1>1, <1>4, <1>5, <1>6

(* The states between the entries. *)
LEMMA PlanRuns ==
  ASSUME NEW policy, NEW document, NEW entries, NEW lib, Len(entries) \in Nat
  PROVE  \E after :
           /\ after[0] = Done(lib)
           /\ \A i \in 1..Len(entries) :
                after[i] = IF after[i - 1].ok
                           THEN ApplyEntry(policy, document, entries[i], after[i - 1].library)
                           ELSE after[i - 1]
           /\ ApplyPlan(policy, document, entries, lib) = after[Len(entries)]
<1> DEFINE n == Len(entries)
           step(before, i) == IF before.ok
                              THEN ApplyEntry(policy, document, entries[i], before.library)
                              ELSE before
           Are(f, m) == f = [i \in 0..m |-> IF i = 0 THEN Done(lib) ELSE step(f[i - 1], i)]
           S == {m \in 0..n : \E f : Are(f, m)}
<1>1. 0 \in S
  <2>1. Are([i \in 0..0 |-> Done(lib)], 0)
    OBVIOUS
  <2> HIDE DEF Are
  <2>2. QED
    BY <2>1
<1>2. ASSUME NEW m \in 1..n, m - 1 \in S
      PROVE  m \in S
  <2>1. PICK f : Are(f, m - 1)
    BY <1>2
  <2> DEFINE g == [i \in 0..m |-> IF i = m THEN step(f[m - 1], m) ELSE f[i]]
  <2>2. \A i \in 0..(m - 1) : f[i] = IF i = 0 THEN Done(lib) ELSE step(f[i - 1], i)
    BY <2>1
  <2>3. ASSUME NEW i \in 0..m
        PROVE  g[i] = IF i = 0 THEN Done(lib) ELSE step(g[i - 1], i)
    <3> HIDE DEF step
    <3>1. CASE i = m
      <4>1. i # 0 /\ i - 1 \in 0..m /\ i - 1 # m
        BY <3>1
      <4>2. QED
        BY <3>1, <4>1
    <3>2. CASE i # m /\ i # 0
      <4>1. i \in 0..(m - 1) /\ i - 1 \in 0..m /\ i - 1 # m
        BY <3>2
      <4>2. QED
        BY <2>2, <3>2, <4>1
    <3>3. CASE i # m /\ i = 0
      <4>1. i \in 0..(m - 1)
        BY <3>3
      <4>2. QED
        BY <2>2, <3>3, <4>1
    <3>4. QED
      BY <3>1, <3>2, <3>3
  <2>4. DOMAIN g = 0..m /\ g = [i \in 0..m |-> g[i]]
    OBVIOUS
  <2> HIDE DEF g, step
  <2>5. Are(g, m)
    BY <2>3, <2>4
  <2>6. m \in 0..n
    OBVIOUS
  <2> HIDE DEF Are
  <2>7. QED
    BY <2>5, <2>6
<1>3. n \in S
  <2> HIDE DEF S
  <2>1. \A i \in 1..n : i - 1 \in S => i \in S
    BY <1>2
  <2>2. \A i \in 0..n : i \in S
    BY <1>1, <2>1, UpTo
  <2>3. QED
    BY <2>2
<1> DEFINE after == CHOOSE f : Are(f, n)
<1>4. ApplyPlan(policy, document, entries, lib) = after[n]
  BY DEF ApplyPlan
<1>5. Are(after, n)
  <2>1. \E f : Are(f, n)
    BY <1>3
  <2> HIDE DEF Are
  <2>2. QED
    BY <2>1
<1> HIDE DEF after
<1>6. after[0] = Done(lib)
  BY <1>5
<1>7. \A i \in 1..n : after[i] = step(after[i - 1], i)
  <2> HIDE DEF step
  <2>1. \A i \in 0..n : after[i] = IF i = 0 THEN Done(lib) ELSE step(after[i - 1], i)
    BY <1>5
  <2>2. \A i \in 1..n : i \in 0..n /\ i # 0
    OBVIOUS
  <2>3. QED
    BY <2>1, <2>2
<1>8. QED
  BY <1>4, <1>6, <1>7

(* The library after the first m entries of a plan. *)
InsertedUpTo(policy, document, es, lib, m, L) ==
  \A k \in 1..m : Inserts(policy, es[k]) =>
    /\ Reserved(es[k]) \in DOMAIN L /\ Reserved(es[k]) \notin DOMAIN lib
    /\ L[Reserved(es[k])] = NewRow(document[k], es[k])

MergedUpTo(policy, document, es, lib, m, L) ==
  \A k \in 1..m : Merges(policy, es[k]) =>
    /\ es[k].slug \in DOMAIN lib
    /\ L[es[k].slug] = [lib[es[k].slug] EXCEPT !.versions = @ \o MissingOf(document[k], es[k])]

KeptUpTo(policy, es, lib, m, L) ==
  \A s \in DOMAIN lib :
    /\ s \in DOMAIN L
    /\ (\A k \in 1..m : Merges(policy, es[k]) => es[k].slug # s) => L[s] = lib[s]

NoOthersUpTo(policy, es, lib, m, L) ==
  \A s \in DOMAIN L :
    s \in DOMAIN lib \/ \E k \in 1..m : Inserts(policy, es[k]) /\ s = Reserved(es[k])

ApartUpTo(policy, es, m) ==
  \A i, k \in 1..m :
    Inserts(policy, es[i]) /\ Inserts(policy, es[k]) /\ Reserved(es[i]) = Reserved(es[k]) => i = k

Applied(policy, document, es, lib, m, L) ==
  /\ L = [s \in DOMAIN L |-> L[s]]
  /\ InsertedUpTo(policy, document, es, lib, m, L)
  /\ MergedUpTo(policy, document, es, lib, m, L)
  /\ KeptUpTo(policy, es, lib, m, L)
  /\ NoOthersUpTo(policy, es, lib, m, L)
  /\ ApartUpTo(policy, es, m)

LEMMA Splits ==
  ASSUME NEW m \in Nat \ {0}
  PROVE  \A k \in 1..m : k = m \/ k \in 1..(m - 1)
OBVIOUS

LEMMA InsertKeepsApplied ==
  ASSUME NEW policy, NEW document, NEW es, NEW lib, NEW m \in Nat \ {0}, NEW L,
         Applied(policy, document, es, lib, m - 1, L),
         Inserts(policy, es[m]), ~Merges(policy, es[m]),
         Reserved(es[m]) \notin DOMAIN L
  PROVE  Applied(policy, document, es, lib, m, Inserted(L, document[m], es[m]))
<1> DEFINE new == Inserted(L, document[m], es[m])
           r == Reserved(es[m])
<1>1. /\ DOMAIN new = DOMAIN L \cup {r}
      /\ new[r] = NewRow(document[m], es[m])
      /\ \A s \in DOMAIN L : s # r /\ new[s] = L[s]
      /\ new = [s \in DOMAIN new |-> new[s]]
  BY DEF Inserted
<1>2. InsertedUpTo(policy, document, es, lib, m - 1, L)
  BY DEF Applied
<1>3. MergedUpTo(policy, document, es, lib, m - 1, L)
  BY DEF Applied
<1>4. KeptUpTo(policy, es, lib, m - 1, L)
  BY DEF Applied
<1>5. NoOthersUpTo(policy, es, lib, m - 1, L)
  BY DEF Applied
<1>6. ApartUpTo(policy, es, m - 1)
  BY DEF Applied
<1>7. r \notin DOMAIN lib
  BY <1>4 DEF KeptUpTo
<1> HIDE DEF new, r
<1>8. \A k \in 1..m : k = m \/ k \in 1..(m - 1)
  BY Splits
<1>9. InsertedUpTo(policy, document, es, lib, m, new)
  BY SMTT(60), <1>1, <1>2, <1>7, <1>8 DEF InsertedUpTo, r
<1>10. MergedUpTo(policy, document, es, lib, m, new)
  BY <1>1, <1>3, <1>4, <1>8 DEF MergedUpTo, KeptUpTo
<1>11. KeptUpTo(policy, es, lib, m, new)
  <2>1. \A k \in 1..(m - 1) : k \in 1..m
    OBVIOUS
  <2>2. QED
    BY <1>1, <1>4, <2>1 DEF KeptUpTo
<1>12. NoOthersUpTo(policy, es, lib, m, new)
  <2>1. \A k \in 1..(m - 1) : k \in 1..m
    OBVIOUS
  <2>2. m \in 1..m
    OBVIOUS
  <2>3. QED
    BY <1>1, <1>5, <2>1, <2>2 DEF NoOthersUpTo, r
<1>13. ApartUpTo(policy, es, m)
  <2>1. \A k \in 1..(m - 1) : Inserts(policy, es[k]) => Reserved(es[k]) # r
    BY <1>1, <1>2 DEF InsertedUpTo
  <2>2. QED
    BY <1>6, <1>8, <2>1 DEF ApartUpTo, r
<1>14. QED
  BY <1>1, <1>9, <1>10, <1>11, <1>12, <1>13 DEF Applied, new

LEMMA MergeKeepsApplied ==
  ASSUME NEW policy, NEW document, NEW es, NEW lib, NEW m \in Nat \ {0}, NEW L,
         Applied(policy, document, es, lib, m - 1, L),
         ~Inserts(policy, es[m]), Merges(policy, es[m]),
         es[m].slug \in DOMAIN lib, document[m].slug = es[m].slug,
         \A k \in 1..(m - 1) : es[k].slug # es[m].slug
  PROVE  Applied(policy, document, es, lib, m, Merged(L, document[m], es[m]))
<1> DEFINE new == Merged(L, document[m], es[m])
           t == es[m].slug
           added == MissingOf(document[m], es[m])
<1>1. InsertedUpTo(policy, document, es, lib, m - 1, L)
  BY DEF Applied
<1>2. MergedUpTo(policy, document, es, lib, m - 1, L)
  BY DEF Applied
<1>3. KeptUpTo(policy, es, lib, m - 1, L)
  BY DEF Applied
<1>4. NoOthersUpTo(policy, es, lib, m - 1, L)
  BY DEF Applied
<1>5. ApartUpTo(policy, es, m - 1)
  BY DEF Applied
<1>6. t \in DOMAIN L /\ L[t] = lib[t]
  BY <1>3 DEF KeptUpTo
<1>7. /\ DOMAIN new = DOMAIN L
      /\ \A s \in DOMAIN L : s # t => new[s] = L[s]
      /\ new[t] = [lib[t] EXCEPT !.versions = @ \o added]
      /\ new = [s \in DOMAIN new |-> new[s]]
  <2> HIDE DEF added
  <2>1. new = [L EXCEPT ![t].versions = @ \o added]
    BY DEF Merged, added
  <2>2. QED
    BY <1>6, <2>1
<1> HIDE DEF new, t, added
<1>8. \A k \in 1..m : k = m \/ k \in 1..(m - 1)
  BY Splits
<1>9. InsertedUpTo(policy, document, es, lib, m, new)
  BY <1>1, <1>7, <1>8 DEF InsertedUpTo, t
<1>10. MergedUpTo(policy, document, es, lib, m, new)
  <2>1. \A k \in 1..(m - 1) : Merges(policy, es[k]) =>
          new[es[k].slug] = L[es[k].slug]
    BY <1>2, <1>3, <1>7 DEF MergedUpTo, KeptUpTo, t
  <2>2. SUFFICES ASSUME NEW k \in 1..m, Merges(policy, es[k])
                 PROVE  /\ es[k].slug \in DOMAIN lib
                        /\ new[es[k].slug] = [lib[es[k].slug] EXCEPT
                             !.versions = @ \o MissingOf(document[k], es[k])]
    BY DEF MergedUpTo
  <2>3. CASE k = m
    BY <1>7, <2>3 DEF t, added
  <2>4. CASE k \in 1..(m - 1)
    BY <1>2, <2>1, <2>2, <2>4 DEF MergedUpTo
  <2>5. QED
    BY SMTT(60), <1>8, <2>3, <2>4
<1>11. KeptUpTo(policy, es, lib, m, new)
  <2>1. \A k \in 1..(m - 1) : k \in 1..m
    OBVIOUS
  <2>2. m \in 1..m
    OBVIOUS
  <2>3. QED
    BY <1>3, <1>7, <2>1, <2>2 DEF KeptUpTo, t
<1>12. NoOthersUpTo(policy, es, lib, m, new)
  <2>1. \A k \in 1..(m - 1) : k \in 1..m
    OBVIOUS
  <2>2. QED
    BY <1>4, <1>7, <2>1 DEF NoOthersUpTo
<1>13. ApartUpTo(policy, es, m)
  BY <1>5, <1>8 DEF ApartUpTo
<1>14. QED
  BY <1>7, <1>9, <1>10, <1>11, <1>12, <1>13 DEF Applied, new

LEMMA SkipKeepsApplied ==
  ASSUME NEW policy, NEW document, NEW es, NEW lib, NEW m \in Nat \ {0}, NEW L,
         Applied(policy, document, es, lib, m - 1, L),
         ~Inserts(policy, es[m]), ~Merges(policy, es[m])
  PROVE  Applied(policy, document, es, lib, m, L)
<1>1. \A k \in 1..m : k = m \/ k \in 1..(m - 1)
  BY Splits
<1>2. \A k \in 1..(m - 1) : k \in 1..m
  OBVIOUS
<1>3. InsertedUpTo(policy, document, es, lib, m, L)
  BY SMTT(60), <1>1 DEF Applied, InsertedUpTo
<1>4. MergedUpTo(policy, document, es, lib, m, L)
  BY <1>1 DEF Applied, MergedUpTo
<1>5. KeptUpTo(policy, es, lib, m, L)
  BY <1>2 DEF Applied, KeptUpTo
<1>6. NoOthersUpTo(policy, es, lib, m, L)
  BY <1>2 DEF Applied, NoOthersUpTo
<1>7. ApartUpTo(policy, es, m)
  BY <1>1 DEF Applied, ApartUpTo
<1>8. QED
  BY <1>3, <1>4, <1>5, <1>6, <1>7 DEF Applied

(* One entry. *)
LEMMA EntryApplied ==
  ASSUME NEW policy \in Policies, NEW document, NEW es, NEW visible, NEW lib, NEW L,
         Len(document) \in Nat, DOMAIN document = 1..Len(document),
         SlugsOnce(document), PlanOf(es, document, visible),
         DOMAIN visible \subseteq DOMAIN lib,
         NEW m \in 1..Len(document), Applied(policy, document, es, lib, m - 1, L)
  PROVE  LET result == ApplyEntry(policy, document, es[m], L)
         IN IF Inserts(policy, es[m]) /\ Reserved(es[m]) \in DOMAIN L
            THEN result = Failure
            ELSE result.ok = TRUE /\ Applied(policy, document, es, lib, m, result.library)
<1> DEFINE taken == DOMAIN visible \cup {Reserved(es[k]) : k \in 1..(m - 1)}
           result == ApplyEntry(policy, document, es[m], L)
<1>1. EntryOf(es[m], document[m], visible, taken)
  BY DEF PlanOf
<1> HIDE DEF taken
<1>2. m \in DOMAIN document /\ m \in Nat \ {0}
  OBVIOUS
<1>3. CASE Inserts(policy, es[m])
  <2>1. result = IF Reserved(es[m]) \in DOMAIN L THEN Failure
                 ELSE Done(Inserted(L, document[m], es[m]))
    BY <1>1, <1>2, <1>3, ApplyEntryIs
  <2>2. ~Merges(policy, es[m])
    BY <1>3 DEF Inserts, Merges
  <2>3. CASE Reserved(es[m]) \notin DOMAIN L
    <3>1. Applied(policy, document, es, lib, m, Inserted(L, document[m], es[m]))
      BY <1>2, <1>3, <2>2, <2>3, InsertKeepsApplied
    <3>2. QED
      BY <2>1, <2>3, <3>1 DEF Done
  <2>4. CASE Reserved(es[m]) \in DOMAIN L
    BY <1>3, <2>1, <2>4
  <2>5. QED
    BY <2>3, <2>4
<1>4. CASE ~Inserts(policy, es[m]) /\ Merges(policy, es[m])
  <2>1. result = Done(Merged(L, document[m], es[m]))
    BY <1>1, <1>2, <1>4, ApplyEntryIs
  <2>2. es[m].slug = document[m].slug /\ es[m].slug \in DOMAIN lib
    BY <1>1, <1>4 DEF EntryOf, Merges
  <2>3. \A k \in 1..(m - 1) : es[k].slug # es[m].slug
    <3>1. \A k \in 1..(m - 1) : k \in 1..Len(document) /\ k # m
      OBVIOUS
    <3>2. \A k \in 1..(m - 1) : es[k].slug = document[k].slug
      BY <3>1 DEF PlanOf, EntryOf
    <3>3. QED
      BY <1>2, <2>2, <3>1, <3>2 DEF SlugsOnce
  <2>4. Applied(policy, document, es, lib, m, Merged(L, document[m], es[m]))
    BY <1>2, <1>4, <2>2, <2>3, MergeKeepsApplied
  <2>5. QED
    BY <1>4, <2>1, <2>4 DEF Done
<1>5. CASE ~Inserts(policy, es[m]) /\ ~Merges(policy, es[m])
  <2>1. result = Done(L)
    BY <1>1, <1>2, <1>5, ApplyEntryIs
  <2>2. Applied(policy, document, es, lib, m, L)
    BY <1>2, <1>5, SkipKeepsApplied
  <2>3. QED
    BY <1>5, <2>1, <2>2 DEF Done
<1>6. QED
  BY <1>3, <1>4, <1>5

(* The whole plan. *)
Stuck(policy, document, es, lib, n) ==
  \E m \in 1..n : \E L :
    /\ Applied(policy, document, es, lib, m - 1, L)
    /\ Inserts(policy, es[m]) /\ Reserved(es[m]) \in DOMAIN L

LEMMA PlanApplied ==
  ASSUME NEW policy \in Policies, NEW document, NEW es, NEW visible, NEW lib,
         Len(document) \in Nat, DOMAIN document = 1..Len(document),
         SlugsOnce(document), PlanOf(es, document, visible),
         DOMAIN visible \subseteq DOMAIN lib, lib = [s \in DOMAIN lib |-> lib[s]]
  PROVE  LET result == ApplyPlan(policy, document, es, lib)
         IN \/ /\ result.ok = TRUE
               /\ Applied(policy, document, es, lib, Len(document), result.library)
            \/ result.ok = FALSE /\ Stuck(policy, document, es, lib, Len(document))
<1> DEFINE n == Len(document)
<1>1. Len(es) = n
  BY DEF PlanOf
<1>2. PICK after :
        /\ after[0] = Done(lib)
        /\ \A i \in 1..n :
             after[i] = IF after[i - 1].ok
                        THEN ApplyEntry(policy, document, es[i], after[i - 1].library)
                        ELSE after[i - 1]
        /\ ApplyPlan(policy, document, es, lib) = after[n]
  BY <1>1, PlanRuns
<1> DEFINE Good(i) == \/ /\ after[i].ok = TRUE
                         /\ Applied(policy, document, es, lib, i, after[i].library)
                      \/ after[i].ok = FALSE /\ Stuck(policy, document, es, lib, n)
           S == {i \in 0..n : Good(i)}
<1>3. 0 \in S
  <2>1. after[0].ok = TRUE /\ after[0].library = lib
    BY <1>2 DEF Done
  <2>2. Applied(policy, document, es, lib, 0, lib)
    BY DEF Applied, InsertedUpTo, MergedUpTo, KeptUpTo, NoOthersUpTo, ApartUpTo
  <2>3. Good(0)
    BY <2>1, <2>2
  <2> HIDE DEF Good
  <2>4. QED
    BY <2>3
<1>4. ASSUME NEW i \in 1..n, i - 1 \in S
      PROVE  i \in S
  <2>1. Good(i - 1)
    <3> HIDE DEF Good
    <3>1. QED
      BY <1>4
  <2>2. after[i] = IF after[i - 1].ok
                   THEN ApplyEntry(policy, document, es[i], after[i - 1].library)
                   ELSE after[i - 1]
    BY <1>2
  <2>3. CASE after[i - 1].ok = TRUE
    <3> DEFINE L == after[i - 1].library
               result == ApplyEntry(policy, document, es[i], L)
    <3>1. Applied(policy, document, es, lib, i - 1, L)
      BY <2>1, <2>3
    <3> HIDE DEF L
    <3>2. IF Inserts(policy, es[i]) /\ Reserved(es[i]) \in DOMAIN L
          THEN result = Failure
          ELSE result.ok = TRUE /\ Applied(policy, document, es, lib, i, result.library)
      BY <3>1, EntryApplied
    <3>3. after[i] = result
      BY <2>2, <2>3 DEF L
    <3> HIDE DEF result
    <3>4. CASE Inserts(policy, es[i]) /\ Reserved(es[i]) \in DOMAIN L
      <4>1. Stuck(policy, document, es, lib, n)
        BY <3>1, <3>4 DEF Stuck
      <4>2. after[i].ok = FALSE
        BY <3>2, <3>3, <3>4 DEF Failure
      <4>3. Good(i)
        BY <4>1, <4>2
      <4> HIDE DEF Good
      <4>4. QED
        BY <4>3
    <3>5. CASE ~(Inserts(policy, es[i]) /\ Reserved(es[i]) \in DOMAIN L)
      <4>1. after[i].ok = TRUE /\ Applied(policy, document, es, lib, i, after[i].library)
        BY <3>2, <3>3, <3>5
      <4>2. Good(i)
        BY <4>1
      <4> HIDE DEF Good
      <4>3. QED
        BY <4>2
    <3>6. QED
      BY <3>4, <3>5
  <2>4. CASE after[i - 1].ok = FALSE
    <3>1. after[i] = after[i - 1]
      BY <2>2, <2>4
    <3>2. Good(i)
      BY <2>1, <2>4, <3>1
    <3> HIDE DEF Good
    <3>3. QED
      BY <3>2
  <2>5. QED
    BY <2>1, <2>3, <2>4
<1>5. Good(n)
  <2> HIDE DEF S
  <2>1. \A i \in 1..n : i - 1 \in S => i \in S
    BY <1>4
  <2>2. \A i \in 0..n : i \in S
    BY <1>3, <2>1, UpTo
  <2>3. n \in S
    BY <2>2
  <2> HIDE DEF Good
  <2>4. QED
    BY <2>3 DEF S
<1>6. QED
  BY <1>2, <1>5

(* A plan of this library that fails. *)
LEMMA StuckIsBlocked ==
  ASSUME NEW policy \in Policies, NEW document, SlugsOnce(document),
         DOMAIN document = 1..Len(document), Len(document) \in Nat,
         DOMAIN plan.entries = 1..Len(document), LibraryOK(library),
         PlanOf(plan.entries, document, Visible(library)),
         Stuck(policy, document, plan.entries, library, Len(document))
  PROVE  Blocked(policy)
<1> DEFINE es == plan.entries
           n == Len(document)
           visible == Visible(library)
           blocks(e) == IF Fresh(e) THEN e.slug \in DOMAIN library
                        ELSE /\ policy = "import-as-copy"
                             /\ \/ e.copySlug \in DOMAIN library \ DOMAIN visible
                                \/ \E f \in ToSet(es) : Fresh(f) /\ f.slug = e.copySlug
<1>1. (\E e \in ToSet(es) : blocks(e)) => Blocked(policy)
  BY DEF Blocked, Fresh
<1>2. \A k \in 1..n : es[k] \in ToSet(es)
  BY DEF ToSet
<1> HIDE DEF es, visible
<1>3. PICK m \in 1..n : \E L :
        /\ Applied(policy, document, es, library, m - 1, L)
        /\ Inserts(policy, es[m]) /\ Reserved(es[m]) \in DOMAIN L
  BY DEF Stuck, es
<1>4. PICK L :
        /\ Applied(policy, document, es, library, m - 1, L)
        /\ Inserts(policy, es[m]) /\ Reserved(es[m]) \in DOMAIN L
  BY <1>3
<1>5. \/ Reserved(es[m]) \in DOMAIN library
      \/ \E k \in 1..(m - 1) : Inserts(policy, es[k]) /\ Reserved(es[m]) = Reserved(es[k])
  BY <1>4 DEF Applied, NoOthersUpTo
<1>6. \A k \in 1..n :
        /\ es[k].slug = document[k].slug
        /\ Fresh(es[k]) => Reserved(es[k]) = es[k].slug
        /\ ~Fresh(es[k]) =>
             /\ Reserved(es[k]) = es[k].copySlug
             /\ Reserved(es[k]) \notin DOMAIN visible
             /\ \A i \in 1..(k - 1) : Reserved(es[k]) # Reserved(es[i])
  BY DEF PlanOf, EntryOf, es, visible
<1>7. \A k \in 1..n : Inserts(policy, es[k]) /\ ~Fresh(es[k]) => policy = "import-as-copy"
  BY DEF Inserts
<1>8. \A k \in 1..(m - 1) : k \in 1..n /\ k # m
  OBVIOUS
<1>9. CASE Fresh(es[m])
  <2>1. CASE Reserved(es[m]) \in DOMAIN library
    <3>1. blocks(es[m])
      BY <1>6, <1>9, <2>1
    <3> HIDE DEF blocks
    <3>2. QED
      BY <1>1, <1>2, <3>1
  <2>2. CASE \E k \in 1..(m - 1) : Inserts(policy, es[k]) /\ Reserved(es[m]) = Reserved(es[k])
    <3>1. PICK k \in 1..(m - 1) : Inserts(policy, es[k]) /\ Reserved(es[m]) = Reserved(es[k])
      BY <2>2
    <3>2. k \in 1..n /\ k # m
      BY <1>8
    <3>3. ~Fresh(es[k])
      BY <1>6, <1>9, <3>1, <3>2 DEF SlugsOnce
    <3>4. policy = "import-as-copy" /\ es[m].slug = es[k].copySlug
      BY <1>6, <1>7, <1>9, <3>1, <3>2, <3>3
    <3>5. blocks(es[k])
      BY <1>2, <1>9, <3>3, <3>4
    <3> HIDE DEF blocks
    <3>6. QED
      BY <1>1, <1>2, <3>2, <3>5
  <2>3. QED
    BY <1>5, <2>1, <2>2
<1>10. CASE ~Fresh(es[m])
  <2>1. Reserved(es[m]) \in DOMAIN library \ DOMAIN visible
    BY <1>5, <1>6, <1>10
  <2>2. blocks(es[m])
    BY <1>4, <1>6, <1>7, <1>10, <2>1
  <2> HIDE DEF blocks
  <2>3. QED
    BY <1>1, <1>2, <2>2
<1>11. QED
  BY <1>9, <1>10

(* Where the rows of the result come from. *)
Unchanged(lib, L, s) == s \in DOMAIN lib /\ L[s] = lib[s]

MergedBy(policy, document, es, lib, L, s, k) ==
  /\ Merges(policy, es[k]) /\ es[k].slug = s /\ s \in DOMAIN lib
  /\ L[s] = [lib[s] EXCEPT !.versions = @ \o MissingOf(document[k], es[k])]

InsertedBy(policy, document, es, lib, L, s, k) ==
  /\ Inserts(policy, es[k]) /\ Reserved(es[k]) = s /\ s \notin DOMAIN lib
  /\ L[s] = NewRow(document[k], es[k])

LEMMA RowsOf ==
  ASSUME NEW policy, NEW document, NEW es, NEW lib, NEW n, NEW L,
         Applied(policy, document, es, lib, n, L), NEW s \in DOMAIN L
  PROVE  \/ Unchanged(lib, L, s)
         \/ \E k \in 1..n : MergedBy(policy, document, es, lib, L, s, k)
         \/ \E k \in 1..n : InsertedBy(policy, document, es, lib, L, s, k)
<1>1. CASE s \in DOMAIN lib
  <2>1. CASE \E k \in 1..n : Merges(policy, es[k]) /\ es[k].slug = s
    BY ZenonT(60), <1>1, <2>1 DEF Applied, MergedUpTo, MergedBy
  <2>2. CASE \A k \in 1..n : Merges(policy, es[k]) => es[k].slug # s
    BY <1>1, <2>2 DEF Applied, KeptUpTo, Unchanged
  <2>3. QED
    BY <2>1, <2>2
<1>2. CASE s \notin DOMAIN lib
  <2>1. PICK k \in 1..n : Inserts(policy, es[k]) /\ s = Reserved(es[k])
    BY <1>2 DEF Applied, NoOthersUpTo
  <2>2. QED
    BY <1>2, <2>1 DEF Applied, InsertedUpTo, InsertedBy
<1>3. QED
  BY <1>1, <1>2

LEMMA SourceIs ==
  ASSUME NEW document, document \in Seq(Source)
  PROVE  /\ DOMAIN document = 1..Len(document) /\ Len(document) \in Nat
         /\ \A k \in 1..Len(document) :
              /\ document[k] \in Source /\ document[k].slug \in Slugs
              /\ document[k].meta \in AnyMeta /\ document[k].versions \in Seq(Version)
<1>1. DOMAIN document = 1..Len(document) /\ Len(document) \in Nat
  BY DomainFinite
<1>2. \A k \in 1..Len(document) : document[k] \in Source
  OBVIOUS
<1>3. QED
  BY <1>1, <1>2 DEF Source, PromptWith

LEMMA MissingIs ==
  ASSUME NEW source \in Source, NEW entry
  PROVE  /\ MissingOf(source, entry) \in Seq(Version)
         /\ Identities(MissingOf(source, entry)) =
              Identities(source.versions) \cap entry.missing
<1>1. source.versions \in Seq(Version)
  BY DEF Source, PromptWith
<1>2. QED
  BY <1>1, ChosenIs DEF MissingOf

(* No version twice: no two places of a history hold versions alike. *)
LEMMA EachOnceIs ==
  ASSUME NEW vs \in Seq(Version)
  PROVE  EachOnce(vs) <=>
           /\ vs # <<>>
           /\ \A i, k \in DOMAIN vs : Identity(vs[i]) = Identity(vs[k]) => i = k
<1> DEFINE f == [i \in DOMAIN vs |-> Identity(vs[i])]
           T == Identities(vs)
<1>1. IsFiniteSet(DOMAIN vs) /\ Cardinality(DOMAIN vs) = Len(vs)
  BY DomainFinite
<1>2. T = {Identity(vs[i]) : i \in DOMAIN vs}
  BY DEF Identities, ToSet
<1>3. f \in Surjection(DOMAIN vs, T)
  BY <1>2 DEF Surjection
<1>4. Cardinality(T) = Cardinality(DOMAIN vs) <=> f \in Injection(DOMAIN vs, T)
  <2> HIDE DEF f, T
  <2>1. QED
    BY <1>1, <1>3, FS_Surjection
<1>5. f \in Injection(DOMAIN vs, T) <=>
        \A i, k \in DOMAIN vs : Identity(vs[i]) = Identity(vs[k]) => i = k
  <2>1. f \in [DOMAIN vs -> T]
    BY <1>3 DEF Surjection
  <2>2. \A i \in DOMAIN vs : f[i] = Identity(vs[i])
    OBVIOUS
  <2> HIDE DEF f, T
  <2>3. QED
    BY <2>1, <2>2 DEF Injection, IsInjective
<1>6. QED
  BY <1>1, <1>4, <1>5 DEF EachOnce

LEMMA JoinedOnce ==
  ASSUME NEW vs \in Seq(Version), NEW ws \in Seq(Version),
         EachOnce(vs), ws # <<>> => EachOnce(ws), Identities(vs) \cap Identities(ws) = {}
  PROVE  EachOnce(vs \o ws)
<1> DEFINE all == vs \o ws
<1>1. /\ all \in Seq(Version) /\ DOMAIN all = 1..(Len(vs) + Len(ws))
      /\ Len(vs) \in Nat /\ Len(ws) \in Nat
      /\ DOMAIN vs = 1..Len(vs) /\ DOMAIN ws = 1..Len(ws)
      /\ \A i \in 1..Len(vs) : all[i] = vs[i]
      /\ \A i \in 1..Len(ws) : all[Len(vs) + i] = ws[i]
  OBVIOUS
<1>2. all # <<>>
  BY JoinedIs DEF EachOnce
<1> HIDE DEF all
<1>3. \A i \in DOMAIN vs : Identity(vs[i]) \in Identities(vs)
  BY DEF Identities, ToSet
<1>4. \A i \in DOMAIN ws : Identity(ws[i]) \in Identities(ws)
  BY DEF Identities, ToSet
<1>5. \A i, k \in DOMAIN vs : Identity(vs[i]) = Identity(vs[k]) => i = k
  BY EachOnceIs
<1>6. \A i, k \in DOMAIN ws : Identity(ws[i]) = Identity(ws[k]) => i = k
  <2>1. CASE ws = <<>>
    BY <1>1, <2>1
  <2>2. CASE ws # <<>>
    BY <2>2, EachOnceIs
  <2>3. QED
    BY <2>1, <2>2
<1>7. \A i \in DOMAIN all :
        \/ i \in DOMAIN vs /\ all[i] = vs[i]
        \/ i - Len(vs) \in DOMAIN ws /\ all[i] = ws[i - Len(vs)]
  <2>1. SUFFICES ASSUME NEW i \in DOMAIN all, i \notin DOMAIN vs
                 PROVE  i - Len(vs) \in DOMAIN ws /\ all[i] = ws[i - Len(vs)]
    BY <1>1
  <2>2. i - Len(vs) \in 1..Len(ws) /\ Len(vs) + (i - Len(vs)) = i
    BY <1>1, <2>1
  <2>3. QED
    BY <1>1, <2>2
<1>8. ASSUME NEW i \in DOMAIN all, NEW k \in DOMAIN all, Identity(all[i]) = Identity(all[k])
      PROVE  i = k
  <2>1. CASE i \in DOMAIN vs /\ all[i] = vs[i] /\ k \in DOMAIN vs /\ all[k] = vs[k]
    BY <1>5, <1>8, <2>1
  <2>2. CASE /\ i - Len(vs) \in DOMAIN ws /\ all[i] = ws[i - Len(vs)]
             /\ k - Len(vs) \in DOMAIN ws /\ all[k] = ws[k - Len(vs)]
    <3>1. i - Len(vs) = k - Len(vs)
      BY <1>6, <1>8, <2>2
    <3>2. QED
      BY <1>1, <3>1
  <2>3. CASE \/ /\ i \in DOMAIN vs /\ all[i] = vs[i]
                /\ k - Len(vs) \in DOMAIN ws /\ all[k] = ws[k - Len(vs)]
             \/ /\ k \in DOMAIN vs /\ all[k] = vs[k]
                /\ i - Len(vs) \in DOMAIN ws /\ all[i] = ws[i - Len(vs)]
    BY <1>3, <1>4, <1>8, <2>3
  <2>4. QED
    BY <1>7, <2>1, <2>2, <2>3
<1>9. QED
  BY <1>1, <1>2, <1>8, EachOnceIs DEF all

LEMMA MissingOnce ==
  ASSUME NEW source \in Source, NEW entry,
         EachOnce(source.versions), MissingOf(source, entry) # <<>>
  PROVE  EachOnce(MissingOf(source, entry))
<1> DEFINE vs == source.versions
           places == {i \in DOMAIN vs : Identity(vs[i]) \in entry.missing}
           found == MissingOf(source, entry)
<1>1. vs \in Seq(Version)
  BY DEF Source, PromptWith
<1>2. places \in SUBSET DOMAIN vs /\ found = Selected(vs, places)
  BY DEF MissingOf
<1> HIDE DEF vs, places, found
<1>3. PICK order \in [DOMAIN found -> places] :
        /\ \A i \in DOMAIN found : found[i] = vs[order[i]]
        /\ \A i, k \in DOMAIN found : order[i] = order[k] => i = k
  <2>1. \E order \in [DOMAIN Selected(vs, places) -> places] :
          /\ \A i \in DOMAIN Selected(vs, places) : Selected(vs, places)[i] = vs[order[i]]
          /\ \A i, k \in DOMAIN Selected(vs, places) : order[i] = order[k] => i = k
    BY <1>1, <1>2, SelectedIs
  <2>2. QED
    BY <1>2, <2>1
<1>4. \A i, k \in DOMAIN vs : Identity(vs[i]) = Identity(vs[k]) => i = k
  BY <1>1, EachOnceIs DEF vs
<1>5. \A i, k \in DOMAIN found : Identity(found[i]) = Identity(found[k]) => i = k
  BY <1>2, <1>3, <1>4
<1>6. found \in Seq(Version) /\ found # <<>>
  BY MissingIs DEF found
<1>7. QED
  BY <1>5, <1>6, EachOnceIs DEF found

LEMMA MergedRow ==
  ASSUME NEW row, RowOK(row), NEW ws \in Seq(Version),
         NEW new, new = [row EXCEPT !.versions = @ \o ws]
  PROVE  /\ RowOK(new)
         /\ new.meta = row.meta /\ new.trashed = row.trashed
         /\ new.versions = row.versions \o ws
         /\ IsPrefix(row.versions, new.versions)
<1> DEFINE joined == row.versions \o ws
<1>1. joined \in Seq(Version) /\ IsPrefix(row.versions, joined)
  BY JoinedIs DEF RowOK
<1>2. new = [row EXCEPT !.versions = joined]
  OBVIOUS
<1> HIDE DEF joined
<1>3. PICK m, t, v : row = [meta |-> m, trashed |-> t, versions |-> v]
  BY DEF RowOK
<1>4. new = [meta |-> m, trashed |-> t, versions |-> joined]
  BY <1>2, <1>3
<1>5. row.meta = m /\ row.trashed = t
  BY <1>3
<1>6. new.meta = row.meta /\ new.trashed = row.trashed /\ new.versions = joined
  BY <1>4, <1>5
<1>7. new = [meta |-> new.meta, trashed |-> new.trashed, versions |-> new.versions]
  BY <1>4, <1>5, <1>6
<1>8. RowOK(new)
  BY <1>1, <1>6, <1>7 DEF RowOK
<1>9. QED
  BY <1>1, <1>6, <1>8 DEF joined

LEMMA NewRowIs ==
  ASSUME NEW source \in Source, NEW entry
  PROVE  /\ RowOK(NewRow(source, entry))
         /\ NewRow(source, entry).trashed = FALSE
         /\ NewRow(source, entry).versions = source.versions
         /\ Fresh(entry) => NewRow(source, entry).meta = source.meta
         /\ ~Fresh(entry) => NewRow(source, entry).meta = Copied(source.meta)
<1> DEFINE meta == IF Fresh(entry) THEN source.meta ELSE Copied(source.meta)
<1>1. source.meta \in AnyMeta /\ source.versions \in Seq(Version)
  BY DEF Source, PromptWith
<1>2. meta \in AnyMeta
  BY <1>1 DEF AnyMeta, Copied
<1>3. NewRow(source, entry) = [meta |-> meta, trashed |-> FALSE, versions |-> source.versions]
  BY DEF NewRow
<1>4. (Fresh(entry) => meta = source.meta) /\ (~Fresh(entry) => meta = Copied(source.meta))
  OBVIOUS
<1> HIDE DEF meta
<1>5. QED
  BY <1>1, <1>2, <1>3, <1>4 DEF RowOK

(* A row that only gained versions, and one that is new. *)
Grown(old, new) ==
  new.meta = old.meta /\ new.trashed = old.trashed /\ IsPrefix(old.versions, new.versions)

Extends(old, new, added, theirs) ==
  new = old \o added /\ Identities(added) = Identities(theirs) \ Identities(old)

NewVisible(row, versions) == row.trashed = FALSE /\ row.versions = versions

(* What a plan for a library leaves behind. *)
Carried(policy, document, es, lib, L) ==
  /\ policy \in Policies /\ document \in Seq(Source) /\ LibraryOK(lib)
  /\ PlanOf(es, document, Visible(lib))
  /\ Applied(policy, document, es, lib, Len(document), L)

LEMMA MergedFrom ==
  ASSUME NEW policy, NEW document, NEW es, NEW lib, NEW L, NEW s,
         Carried(policy, document, es, lib, L),
         NEW k \in 1..Len(document), MergedBy(policy, document, es, lib, L, s, k)
  PROVE  LET added == MissingOf(document[k], es[k])
         IN /\ added \in Seq(Version)
            /\ Extends(lib[s].versions, L[s].versions, added, document[k].versions)
            /\ RowOK(L[s]) /\ Grown(lib[s], L[s])
            /\ s = document[k].slug /\ s \in DOMAIN Visible(lib)
<1> DEFINE added == MissingOf(document[k], es[k])
           ours == Identities(lib[s].versions)
           theirs == Identities(document[k].versions)
<1>1. document[k] \in Source
  BY SourceIs DEF Carried
<1>2. /\ added \in Seq(Version)
      /\ Identities(added) = theirs \cap es[k].missing
  BY <1>1, MissingIs
<1>3. ~Fresh(es[k]) /\ es[k].slug = s /\ s \in DOMAIN lib
  BY DEF MergedBy, Merges
<1>4. /\ es[k].slug = document[k].slug
      /\ document[k].slug \in DOMAIN Visible(lib)
      /\ es[k].missing = theirs \ Identities(Visible(lib)[document[k].slug].versions)
  BY <1>3 DEF Carried, PlanOf, EntryOf
<1>5. Visible(lib)[s].versions = lib[s].versions
  BY <1>3, <1>4, VisibleIs DEF Carried
<1>6. RowOK(lib[s])
  BY <1>3 DEF Carried, LibraryOK
<1>7. L[s] = [lib[s] EXCEPT !.versions = @ \o added]
  BY DEF MergedBy
<1>8. Identities(added) = theirs \ ours
  BY <1>2, <1>3, <1>4, <1>5
<1>9. /\ RowOK(L[s]) /\ Grown(lib[s], L[s])
      /\ L[s].versions = lib[s].versions \o added
  <2> HIDE DEF added
  <2> DEFINE row == lib[s]
             new == L[s]
  <2>1. RowOK(row) /\ added \in Seq(Version) /\ new = [row EXCEPT !.versions = @ \o added]
    BY <1>2, <1>6, <1>7
  <2> HIDE DEF row, new
  <2>2. /\ RowOK(new) /\ new.meta = row.meta /\ new.trashed = row.trashed
        /\ new.versions = row.versions \o added /\ IsPrefix(row.versions, new.versions)
    BY ZenonT(60), <2>1, MergedRow
  <2>3. Grown(row, new)
    BY <2>2 DEF Grown
  <2>4. QED
    BY <2>2, <2>3 DEF row, new
<1>10. Extends(lib[s].versions, L[s].versions, added, document[k].versions)
  BY <1>8, <1>9 DEF Extends
<1>11. QED
  BY <1>2, <1>3, <1>4, <1>9, <1>10

LEMMA InsertedFrom ==
  ASSUME NEW policy, NEW document, NEW es, NEW lib, NEW L, NEW s,
         Carried(policy, document, es, lib, L),
         NEW k \in 1..Len(document), InsertedBy(policy, document, es, lib, L, s, k)
  PROVE  /\ RowOK(L[s]) /\ NewVisible(L[s], document[k].versions)
         /\ Fresh(es[k]) => s = document[k].slug /\ L[s].meta = document[k].meta
         /\ ~Fresh(es[k]) => /\ L[s].meta = Copied(document[k].meta)
                            /\ document[k].slug \in DOMAIN Visible(lib)
         /\ s \in Slugs
<1>1. document[k] \in Source
  BY SourceIs DEF Carried
<1>2. L[s] = NewRow(document[k], es[k]) /\ s = Reserved(es[k])
  BY DEF InsertedBy
<1>3. s \in Slugs
  BY <1>2 DEF Carried, PlanOf
<1>4. /\ Fresh(es[k]) => s = document[k].slug
      /\ ~Fresh(es[k]) => document[k].slug \in DOMAIN Visible(lib)
  BY <1>2 DEF Carried, PlanOf, EntryOf
<1> DEFINE row == NewRow(document[k], es[k])
<1>5. /\ RowOK(row) /\ row.trashed = FALSE /\ row.versions = document[k].versions
      /\ Fresh(es[k]) => row.meta = document[k].meta
      /\ ~Fresh(es[k]) => row.meta = Copied(document[k].meta)
  BY <1>1, NewRowIs
<1> HIDE DEF row
<1>6. L[s] = row
  BY <1>2 DEF row
<1>7. QED
  BY <1>3, <1>4, <1>5, <1>6 DEF NewVisible

LEMMA ResultRow ==
  ASSUME NEW policy, NEW document, NEW es, NEW lib, NEW L,
         Carried(policy, document, es, lib, L), NEW s \in DOMAIN L
  PROVE  /\ RowOK(L[s]) /\ s \in Slugs
         /\ s \in DOMAIN lib => Grown(lib[s], L[s])
         /\ s \notin DOMAIN lib => NewVisible(L[s], L[s].versions)
<1>1. \/ Unchanged(lib, L, s)
      \/ \E k \in 1..Len(document) : MergedBy(policy, document, es, lib, L, s, k)
      \/ \E k \in 1..Len(document) : InsertedBy(policy, document, es, lib, L, s, k)
  BY RowsOf DEF Carried
<1>2. CASE Unchanged(lib, L, s)
  <2>1. L[s] = lib[s] /\ s \in DOMAIN lib
    BY <1>2 DEF Unchanged
  <2>2. RowOK(lib[s]) /\ s \in Slugs
    BY <2>1 DEF Carried, LibraryOK
  <2>3. IsPrefix(lib[s].versions, lib[s].versions)
    BY <2>2 DEF RowOK, IsPrefix
  <2>4. Grown(lib[s], lib[s])
    BY <2>3 DEF Grown
  <2>5. QED
    BY <2>1, <2>2, <2>4
<1>3. CASE \E k \in 1..Len(document) : MergedBy(policy, document, es, lib, L, s, k)
  <2>1. PICK k \in 1..Len(document) : MergedBy(policy, document, es, lib, L, s, k)
    BY <1>3
  <2>2. s \in DOMAIN lib /\ s \in Slugs
    BY <2>1 DEF MergedBy, Carried, LibraryOK
  <2>3. RowOK(L[s]) /\ Grown(lib[s], L[s])
    BY <2>1, MergedFrom, Zenon
  <2>4. QED
    BY <2>2, <2>3
<1>4. CASE \E k \in 1..Len(document) : InsertedBy(policy, document, es, lib, L, s, k)
  <2>1. PICK k \in 1..Len(document) : InsertedBy(policy, document, es, lib, L, s, k)
    BY <1>4
  <2>2. s \notin DOMAIN lib
    BY <2>1 DEF InsertedBy
  <2>3. RowOK(L[s]) /\ NewVisible(L[s], document[k].versions) /\ s \in Slugs
    BY <2>1, InsertedFrom, Zenon
  <2>4. NewVisible(L[s], L[s].versions)
    BY <2>3 DEF NewVisible
  <2>5. QED
    BY <2>2, <2>3, <2>4
<1>5. QED
  BY <1>1, <1>2, <1>3, <1>4

LEMMA ResultOK ==
  ASSUME NEW policy, NEW document, NEW es, NEW lib, NEW L,
         Carried(policy, document, es, lib, L)
  PROVE  LibraryOK(L) /\ DOMAIN lib \subseteq DOMAIN L
<1> DEFINE n == Len(document)
           f == [k \in 1..n |-> Reserved(es[k])]
           new == {f[k] : k \in 1..n}
<1>1. n \in Nat
  BY SourceIs DEF Carried
<1>2. IsFiniteSet(new)
  <2>1. f = [k \in 1..n |-> f[k]]
    OBVIOUS
  <2> HIDE DEF f
  <2>2. QED
    BY <1>1, <2>1, ImageFinite
<1>3. IsFiniteSet(DOMAIN lib \cup new)
  <2>1. IsFiniteSet(DOMAIN lib)
    BY DEF Carried, LibraryOK
  <2> HIDE DEF new
  <2>2. QED
    BY <1>2, <2>1, FS_Union
<1>4. DOMAIN L \subseteq DOMAIN lib \cup new
  BY DEF Carried, Applied, NoOthersUpTo
<1>5. IsFiniteSet(DOMAIN L)
  <2> HIDE DEF new
  <2>1. QED
    BY <1>3, <1>4, FS_Subset
<1>6. \A s \in DOMAIN L : RowOK(L[s]) /\ s \in Slugs
  BY ResultRow
<1>7. L = [s \in DOMAIN L |-> L[s]]
  BY DEF Carried, Applied
<1>8. DOMAIN lib \subseteq DOMAIN L
  BY DEF Carried, Applied, KeptUpTo
<1>9. QED
  BY <1>5, <1>6, <1>7, <1>8 DEF LibraryOK

LEMMA ResultVisible ==
  ASSUME NEW policy, NEW document, NEW es, NEW lib, NEW L,
         Carried(policy, document, es, lib, L)
  PROVE  /\ \A s \in DOMAIN Visible(L) : s \in DOMAIN L /\ Visible(L)[s].versions = L[s].versions
         /\ \A s \in DOMAIN Visible(lib) : /\ s \in DOMAIN lib
                                           /\ Visible(lib)[s].versions = lib[s].versions
         /\ \A s \in DOMAIN lib : s \in DOMAIN Visible(L) <=> s \in DOMAIN Visible(lib)
         /\ \A s \in DOMAIN L : s \notin DOMAIN lib => s \in DOMAIN Visible(L)
<1>1. LibraryOK(L) /\ DOMAIN lib \subseteq DOMAIN L
  BY ResultOK
<1>2. LibraryOK(lib)
  BY DEF Carried
<1>3. \A s : s \in DOMAIN Visible(L) <=> s \in DOMAIN L /\ ~L[s].trashed
  BY <1>1, VisibleIs
<1>4. \A s : s \in DOMAIN Visible(lib) <=> s \in DOMAIN lib /\ ~lib[s].trashed
  BY <1>2, VisibleIs
<1>5. \A s \in DOMAIN Visible(L) : Visible(L)[s].versions = L[s].versions
  BY <1>1, VisibleIs
<1>6. \A s \in DOMAIN Visible(lib) : Visible(lib)[s].versions = lib[s].versions
  BY <1>2, VisibleIs
<1>7. \A s \in DOMAIN lib : L[s].trashed = lib[s].trashed
  BY <1>1, ResultRow DEF Grown
<1>8. \A s \in DOMAIN L : s \notin DOMAIN lib => L[s].trashed = FALSE
  <2>1. \A s \in DOMAIN L : s \notin DOMAIN lib => NewVisible(L[s], L[s].versions)
    BY ResultRow
  <2>2. QED
    BY <2>1 DEF NewVisible
<1>9. QED
  BY <1>1, <1>3, <1>4, <1>5, <1>6, <1>7, <1>8

(* The versions of a source go to the prompt that its entry writes. *)
Writes(policy, entry, s) ==
  \/ Merges(policy, entry) /\ s = entry.slug
  \/ Inserts(policy, entry) /\ s = Reserved(entry)

Holds(visible, s, id) == s \in DOMAIN visible /\ id \in Identities(visible[s].versions)

LEMMA ResultHolds ==
  ASSUME NEW policy, NEW document, NEW es, NEW lib, NEW L,
         Carried(policy, document, es, lib, L), NEW s, NEW id
  PROVE  Holds(Visible(L), s, id) <=>
           \/ Holds(Visible(lib), s, id)
           \/ \E k \in 1..Len(document) :
                Writes(policy, es[k], s) /\ id \in Identities(document[k].versions)
<1> DEFINE n == Len(document)
<1>1. Applied(policy, document, es, lib, n, L)
  BY DEF Carried
<1>2. DOMAIN lib \subseteq DOMAIN L
  BY ResultOK
<1>3. ASSUME NEW k \in 1..n, MergedBy(policy, document, es, lib, L, s, k)
      PROVE  /\ s \in DOMAIN Visible(lib) /\ s \in DOMAIN Visible(L)
             /\ Identities(Visible(L)[s].versions) =
                  Identities(lib[s].versions) \cup Identities(document[k].versions)
  <2> DEFINE added == MissingOf(document[k], es[k])
  <2>1. s \in DOMAIN Visible(lib) /\ added \in Seq(Version)
    BY <1>3, MergedFrom
  <2>2. Extends(lib[s].versions, L[s].versions, added, document[k].versions)
    BY <1>3, MergedFrom, Zenon
  <2>3. /\ L[s].versions = lib[s].versions \o added
        /\ Identities(added) = Identities(document[k].versions) \ Identities(lib[s].versions)
    BY <2>2 DEF Extends
  <2> HIDE DEF added
  <2>4. s \in DOMAIN lib /\ s \in DOMAIN Visible(L) /\ Visible(L)[s].versions = L[s].versions
    BY <1>2, <2>1, ResultVisible
  <2>5. lib[s].versions \in Seq(Version)
    BY <2>4 DEF Carried, LibraryOK, RowOK
  <2>6. Identities(L[s].versions) = Identities(lib[s].versions) \cup Identities(added)
    BY <2>1, <2>3, <2>5, JoinedIs
  <2>7. QED
    BY <2>1, <2>3, <2>4, <2>6
<1>4. ASSUME NEW k \in 1..n, InsertedBy(policy, document, es, lib, L, s, k), s \in DOMAIN L
      PROVE  s \in DOMAIN Visible(L) /\ Visible(L)[s].versions = document[k].versions
  <2>1. NewVisible(L[s], document[k].versions)
    BY <1>4, InsertedFrom, Zenon
  <2>2. s \in DOMAIN Visible(L) /\ Visible(L)[s].versions = L[s].versions
    BY <1>4, ResultVisible DEF InsertedBy
  <2>3. QED
    BY <2>1, <2>2 DEF NewVisible
<1>5. ASSUME Holds(Visible(L), s, id)
      PROVE  \/ Holds(Visible(lib), s, id)
             \/ \E k \in 1..n : Writes(policy, es[k], s) /\ id \in Identities(document[k].versions)
  <2>1. s \in DOMAIN L /\ s \in DOMAIN Visible(L)
    BY <1>5, ResultVisible DEF Holds
  <2>2. \/ Unchanged(lib, L, s)
        \/ \E k \in 1..n : MergedBy(policy, document, es, lib, L, s, k)
        \/ \E k \in 1..n : InsertedBy(policy, document, es, lib, L, s, k)
    BY <1>1, <2>1, RowsOf
  <2>3. CASE Unchanged(lib, L, s)
    BY <1>5, <2>1, <2>3, ResultVisible DEF Unchanged, Holds
  <2>4. CASE \E k \in 1..n : MergedBy(policy, document, es, lib, L, s, k)
    <3>1. PICK k \in 1..n : MergedBy(policy, document, es, lib, L, s, k)
      BY <2>4
    <3>2. Writes(policy, es[k], s)
      BY <3>1 DEF MergedBy, Writes
    <3>3. Visible(lib)[s].versions = lib[s].versions /\ s \in DOMAIN Visible(lib)
      BY <1>3, <3>1, ResultVisible
    <3>4. id \in Identities(lib[s].versions) \/ id \in Identities(document[k].versions)
      BY <1>3, <1>5, <3>1 DEF Holds
    <3>5. QED
      BY <3>2, <3>3, <3>4 DEF Holds
  <2>5. CASE \E k \in 1..n : InsertedBy(policy, document, es, lib, L, s, k)
    <3>1. PICK k \in 1..n : InsertedBy(policy, document, es, lib, L, s, k)
      BY <2>5
    <3>2. Writes(policy, es[k], s)
      BY <3>1 DEF InsertedBy, Writes
    <3>3. id \in Identities(document[k].versions)
      BY <1>4, <1>5, <2>1, <3>1 DEF Holds
    <3>4. QED
      BY <3>2, <3>3
  <2>6. QED
    BY <2>2, <2>3, <2>4, <2>5
<1>6. ASSUME Holds(Visible(lib), s, id)
      PROVE  Holds(Visible(L), s, id)
  <2>1. /\ s \in DOMAIN lib /\ s \in DOMAIN L /\ s \in DOMAIN Visible(L)
        /\ Visible(lib)[s].versions = lib[s].versions
        /\ Visible(L)[s].versions = L[s].versions
    BY <1>2, <1>6, ResultVisible DEF Holds
  <2>2. id \in Identities(lib[s].versions)
    BY <1>6, <2>1 DEF Holds
  <2>3. CASE L[s] = lib[s]
    BY <2>1, <2>2, <2>3 DEF Holds
  <2>4. CASE L[s] # lib[s]
    <3>1. PICK k \in 1..n : Merges(policy, es[k]) /\ es[k].slug = s
      BY <1>1, <2>1, <2>4 DEF Applied, KeptUpTo
    <3>2. MergedBy(policy, document, es, lib, L, s, k)
      BY <1>1, <2>1, <3>1 DEF Applied, MergedUpTo, MergedBy
    <3>3. QED
      BY <1>3, <2>1, <2>2, <3>2 DEF Holds
  <2>5. QED
    BY <2>3, <2>4
<1>7. ASSUME NEW k \in 1..n, Writes(policy, es[k], s), id \in Identities(document[k].versions)
      PROVE  Holds(Visible(L), s, id)
  <2>1. CASE Merges(policy, es[k]) /\ s = es[k].slug
    <3>1. MergedBy(policy, document, es, lib, L, s, k)
      BY <1>1, <2>1 DEF Applied, MergedUpTo, MergedBy
    <3>2. QED
      BY SMTT(60), <1>3, <1>7, <3>1 DEF Holds
  <2>2. CASE Inserts(policy, es[k]) /\ s = Reserved(es[k])
    <3>1. InsertedBy(policy, document, es, lib, L, s, k) /\ s \in DOMAIN L
      BY <1>1, <2>2 DEF Applied, InsertedUpTo, InsertedBy
    <3>2. QED
      BY <1>4, <1>7, <3>1 DEF Holds
  <2>3. QED
    BY <1>7, <2>1, <2>2 DEF Writes
<1>8. QED
  BY <1>5, <1>6, <1>7

LEMMA CountTo ==
  ASSUME NEW n \in Nat
  PROVE  IsFiniteSet(1..n) /\ Cardinality(1..n) = n
BY FS_Interval

LEMMA ImageCount ==
  ASSUME NEW n \in Nat, NEW f, f = [k \in 1..n |-> f[k]],
         \A i, k \in 1..n : f[i] = f[k] => i = k
  PROVE  Cardinality({f[k] : k \in 1..n}) = n
<1> DEFINE T == {f[k] : k \in 1..n}
<1>1. f \in Injection(1..n, T) /\ f \in Surjection(1..n, T)
  BY DEF Injection, IsInjective, Surjection
<1> HIDE DEF T
<1>2. IsFiniteSet(1..n) /\ Cardinality(1..n) = n
  BY CountTo
<1>3. Cardinality(T) = Cardinality(1..n)
  BY <1>1, <1>2, FS_Surjection
<1>4. QED
  BY <1>2, <1>3 DEF T

LEMMA ContentsIs ==
  ASSUME NEW visible, NEW x
  PROVE  x \in Contents(visible) <=> \E s, id : x = <<s, id>> /\ Holds(visible, s, id)
<1>1. x \in Contents(visible) <=>
        \E s \in DOMAIN visible : x \in {s} \X Identities(visible[s].versions)
  BY DEF Contents
<1>2. \A s : x \in {s} \X Identities(visible[s].versions) <=>
        \E id : x = <<s, id>> /\ id \in Identities(visible[s].versions)
  OBVIOUS
<1>3. QED
  BY <1>1, <1>2 DEF Holds

LEMMA SourceContentsIs ==
  ASSUME NEW sources, NEW x
  PROVE  x \in SourceContents(sources) <=>
           \E d \in sources : \E id \in Identities(d.versions) : x = <<d.slug, id>>
<1>1. x \in SourceContents(sources) <=>
        \E d \in sources : x \in {d.slug} \X Identities(d.versions)
  BY DEF SourceContents
<1>2. \A d : x \in {d.slug} \X Identities(d.versions) <=>
        \E id \in Identities(d.versions) : x = <<d.slug, id>>
  OBVIOUS
<1>3. QED
  BY <1>1, <1>2

(* The entries that write add what their sources hold. *)
WritesThe(written, policy, document, es) ==
  /\ written \subseteq ToSet(document)
  /\ \A k \in 1..Len(document) : \A s :
       Writes(policy, es[k], s) <=> document[k] \in written /\ s = document[k].slug

LEMMA ResultContents ==
  ASSUME NEW policy, NEW document, NEW es, NEW lib, NEW L, NEW written,
         Carried(policy, document, es, lib, L), WritesThe(written, policy, document, es)
  PROVE  Contents(Visible(L)) = Contents(Visible(lib)) \cup SourceContents(written)
<1> DEFINE n == Len(document)
           Added(s, id) == \E d \in written : s = d.slug /\ id \in Identities(d.versions)
<1>0. /\ \A d \in written : d \in ToSet(document)
      /\ \A k \in 1..n : \A s :
           Writes(policy, es[k], s) <=> document[k] \in written /\ s = document[k].slug
  BY DEF WritesThe
<1>1. \A d \in written : \E k \in 1..n : d = document[k]
  <2>1. DOMAIN document = 1..n
    BY SourceIs DEF Carried
  <2>2. QED
    BY <1>0, <2>1 DEF ToSet
<1>2. \A s, id : Added(s, id) <=>
        \E k \in 1..n : Writes(policy, es[k], s) /\ id \in Identities(document[k].versions)
  <2>1. SUFFICES ASSUME NEW s, NEW id
                 PROVE  Added(s, id) <=> \E k \in 1..n :
                          Writes(policy, es[k], s) /\ id \in Identities(document[k].versions)
    OBVIOUS
  <2>2. ASSUME Added(s, id)
        PROVE  \E k \in 1..n : Writes(policy, es[k], s) /\ id \in Identities(document[k].versions)
    <3>1. PICK d \in written : s = d.slug /\ id \in Identities(d.versions)
      BY <2>2
    <3>2. PICK k \in 1..n : d = document[k]
      BY <1>1
    <3>3. QED
      BY <1>0, <3>1, <3>2
  <2>3. QED
    BY <1>0, <2>2
<1>3. \A s, id : Holds(Visible(L), s, id) <=> Holds(Visible(lib), s, id) \/ Added(s, id)
  <2> HIDE DEF Added
  <2>1. QED
    BY <1>2, ResultHolds
<1>4. \A x : x \in SourceContents(written) <=> \E s, id : x = <<s, id>> /\ Added(s, id)
  <2>1. \A x : x \in SourceContents(written) <=>
          \E d \in written : \E id \in Identities(d.versions) : x = <<d.slug, id>>
    BY SourceContentsIs
  <2>2. QED
    BY <2>1
<1> HIDE DEF Added
<1>5. \A x : x \in Contents(Visible(L)) <=>
        x \in Contents(Visible(lib)) \/ x \in SourceContents(written)
  BY <1>3, <1>4, ContentsIs
<1>6. QED
  BY <1>5

(* A copy, or a new prompt, for every source. *)
LEMMA ResultCount ==
  ASSUME NEW policy, NEW document, NEW es, NEW lib, NEW L,
         Carried(policy, document, es, lib, L), SlugsOnce(document),
         \A k \in 1..Len(document) : Inserts(policy, es[k])
  PROVE  Cardinality(DOMAIN Visible(L)) =
           Cardinality(DOMAIN Visible(lib)) + Cardinality(ToSet(document))
<1> DEFINE n == Len(document)
           f == [k \in 1..n |-> Reserved(es[k])]
           g == [k \in 1..n |-> document[k]]
           new == {f[k] : k \in 1..n}
           all == {g[k] : k \in 1..n}
<1>1. n \in Nat /\ DOMAIN document = 1..n
  BY SourceIs DEF Carried
<1>2. Applied(policy, document, es, lib, n, L)
  BY DEF Carried
<1>3. IsFiniteSet(new) /\ Cardinality(new) = n
  <2>1. f = [k \in 1..n |-> f[k]]
    OBVIOUS
  <2>2. \A i, k \in 1..n : f[i] = f[k] => i = k
    BY <1>2 DEF Applied, ApartUpTo
  <2> HIDE DEF f
  <2>3. QED
    BY <1>1, <2>1, <2>2, ImageFinite, ImageCount
<1>4. Cardinality(all) = n
  <2>1. g = [k \in 1..n |-> g[k]]
    OBVIOUS
  <2>2. \A i, k \in 1..n : g[i] = g[k] => i = k
    BY <1>1 DEF SlugsOnce
  <2> HIDE DEF g
  <2>3. QED
    BY <1>1, <2>1, <2>2, ImageCount
<1>5. ToSet(document) = all
  BY <1>1 DEF ToSet
<1>6. IsFiniteSet(DOMAIN Visible(lib))
  BY VisibleIs DEF Carried, VisibleOK
<1>7. \A k \in 1..n : f[k] \in DOMAIN L /\ f[k] \notin DOMAIN lib
  BY <1>2 DEF Applied, InsertedUpTo
<1>8. \A s \in new : s \in DOMAIN L /\ s \notin DOMAIN lib
  BY <1>7
<1>9. \A s \in DOMAIN L : s \in DOMAIN lib \/ s \in new
  BY <1>2 DEF Applied, NoOthersUpTo
<1> HIDE DEF new, all
<1>10. DOMAIN Visible(lib) \subseteq DOMAIN lib
  BY ResultVisible
<1>11. DOMAIN lib \subseteq DOMAIN L
  BY ResultOK
<1>12. DOMAIN Visible(L) = DOMAIN Visible(lib) \cup new
  <2>1. \A s \in DOMAIN Visible(L) : s \in DOMAIN Visible(lib) \/ s \in new
    BY <1>9, ResultVisible
  <2>2. \A s \in DOMAIN Visible(lib) : s \in DOMAIN Visible(L)
    BY <1>10, ResultVisible
  <2>3. \A s \in new : s \in DOMAIN Visible(L)
    BY <1>8, ResultVisible
  <2>4. QED
    BY <2>1, <2>2, <2>3
<1>13. DOMAIN Visible(lib) \cap new = {}
  BY <1>8, <1>10
<1>14. Cardinality({}) = 0
  BY FS_EmptySet
<1>15. Cardinality(DOMAIN Visible(lib) \cup new) =
         Cardinality(DOMAIN Visible(lib)) + Cardinality(new)
  <2>1. /\ Cardinality(DOMAIN Visible(lib)) \in Nat /\ Cardinality(new) \in Nat
    BY <1>3, <1>6, FS_CardinalityType
  <2>2. QED
    BY SMTT(60), <1>3, <1>6, <1>13, <1>14, <2>1, FS_Union
<1>16. QED
  BY <1>3, <1>4, <1>5, <1>12, <1>15

(* The promises of the three policies. *)
LEMMA EntryWrites ==
  ASSUME NEW policy, NEW document, NEW es, NEW lib, NEW L,
         Carried(policy, document, es, lib, L), NEW k \in 1..Len(document)
  PROVE  /\ es[k].slug = document[k].slug
         /\ Fresh(es[k]) <=> document[k].slug \notin DOMAIN Visible(lib)
         /\ Fresh(es[k]) => Reserved(es[k]) = document[k].slug
         /\ ~Fresh(es[k]) =>
              Reserved(es[k]) = CopySlug(document[k].slug, Last(Reserved(es[k])))
BY DEF Carried, PlanOf, EntryOf

LEMMA PromiseKept ==
  ASSUME NEW policy \in Policies, NEW es, NEW lib, NEW L,
         Carried(policy, plan.document, es, lib, L), SlugsOnce(plan.document)
  PROVE  Promised(policy, Visible(lib), Visible(L))
<1> DEFINE document == plan.document
           n == Len(document)
           before == Visible(lib)
           after == Visible(L)
           fresh == {d \in Sources : d.slug \notin DOMAIN before}
<1>1. DOMAIN document = 1..n /\ ToSet(document) = Sources
  BY SourceIs DEF Carried, Sources
<1>2. \A k \in 1..n : document[k] \in Sources
  BY <1>1 DEF ToSet
<1>3. \A k \in 1..n : document[k] \in fresh <=> Fresh(es[k])
  BY <1>2, EntryWrites
<1>4. fresh \in SUBSET ToSet(document) /\ Sources \in SUBSET ToSet(document)
  BY <1>1
<1>5. Carried(policy, document, es, lib, L) /\ SlugsOnce(document)
  OBVIOUS
<1>6. \A d \in Sources : \E k \in 1..n : d = document[k]
  BY <1>1 DEF ToSet
<1>7. \A d \in fresh : d.slug \notin DOMAIN before
  OBVIOUS
<1>8. ASSUME policy = "skip-existing"
      PROVE  Contents(after) = Contents(before) \cup SourceContents(fresh)
  <2> HIDE DEF fresh, document
  <2>1. ASSUME NEW k \in 1..n, NEW s
        PROVE  Writes(policy, es[k], s) <=> document[k] \in fresh /\ s = document[k].slug
    <3>1. Inserts(policy, es[k]) <=> Fresh(es[k])
      BY <1>8 DEF Inserts
    <3>2. ~Merges(policy, es[k])
      BY <1>8 DEF Merges
    <3>3. QED
      BY <1>3, <1>5, <3>1, <3>2, EntryWrites DEF Writes
  <2>2. \A k \in 1..n : \A s :
          Writes(policy, es[k], s) <=> document[k] \in fresh /\ s = document[k].slug
    BY <2>1
  <2>3. WritesThe(fresh, policy, document, es)
    BY <1>4, <2>2 DEF WritesThe
  <2>4. QED
    BY <1>5, <2>3, ResultContents
<1>9. ASSUME policy = "add-missing-versions"
      PROVE  Contents(after) = Contents(before) \cup SourceContents(Sources)
  <2> HIDE DEF fresh, document
  <2>1. ASSUME NEW k \in 1..n, NEW s
        PROVE  Writes(policy, es[k], s) <=> document[k] \in Sources /\ s = document[k].slug
    <3>1. Inserts(policy, es[k]) <=> Fresh(es[k])
      BY <1>9 DEF Inserts
    <3>2. Merges(policy, es[k]) <=> ~Fresh(es[k])
      BY <1>9 DEF Merges
    <3>3. QED
      BY <1>2, <1>5, <3>1, <3>2, EntryWrites DEF Writes
  <2>2. \A k \in 1..n : \A s :
          Writes(policy, es[k], s) <=> document[k] \in Sources /\ s = document[k].slug
    BY <2>1
  <2>3. WritesThe(Sources, policy, document, es)
    BY <1>4, <2>2 DEF WritesThe
  <2>4. QED
    BY <1>5, <2>3, ResultContents
<1>10. ASSUME policy = "import-as-copy"
       PROVE  /\ Cardinality(DOMAIN after) = Cardinality(DOMAIN before) + Cardinality(Sources)
              /\ \A d \in Sources : \E s \in DOMAIN after \ DOMAIN before :
                   /\ IF d \in fresh THEN s = d.slug ELSE s = CopySlug(d.slug, Last(s))
                   /\ after[s].versions = d.versions
  <2> HIDE DEF fresh, document
  <2>1. \A k \in 1..n : Inserts(policy, es[k])
    BY <1>10 DEF Inserts
  <2>2. Cardinality(DOMAIN after) = Cardinality(DOMAIN before) + Cardinality(Sources)
    BY <1>1, <1>5, <2>1, ResultCount
  <2>3. ASSUME NEW d \in Sources
        PROVE  \E s \in DOMAIN after \ DOMAIN before :
                 /\ IF d \in fresh THEN s = d.slug ELSE s = CopySlug(d.slug, Last(s))
                 /\ after[s].versions = d.versions
    <3>1. PICK k \in 1..n : d = document[k]
      BY <1>6
    <3> DEFINE s == Reserved(es[k])
    <3>2. s \in DOMAIN L /\ s \notin DOMAIN lib /\ L[s] = NewRow(document[k], es[k])
      BY <1>5, <2>1 DEF Carried, Applied, InsertedUpTo
    <3>3. InsertedBy(policy, document, es, lib, L, s, k)
      BY <2>1, <3>2 DEF InsertedBy
    <3>4. NewVisible(L[s], document[k].versions)
      BY <1>5, <3>3, InsertedFrom, Zenon
    <3>5. /\ s \in DOMAIN after /\ s \notin DOMAIN before
          /\ after[s].versions = L[s].versions
      BY <1>5, <3>2, ResultVisible
    <3>6. L[s].versions = d.versions
      BY <3>1, <3>4 DEF NewVisible
    <3>7. IF d \in fresh THEN s = d.slug ELSE s = CopySlug(d.slug, Last(s))
      BY <1>3, <1>5, <3>1, EntryWrites
    <3> HIDE DEF s, after, before
    <3>8. QED
      BY <3>5, <3>6, <3>7
  <2>4. QED
    BY <2>2, <2>3
<1>11. QED
  BY <1>8, <1>9, <1>10 DEF Promised, Policies

(* No version comes twice into a history, and no history stays empty. *)
LEMMA ResultOnce ==
  ASSUME NEW policy, NEW document, NEW es, NEW lib, NEW L,
         Carried(policy, document, es, lib, L), WellFormed(document),
         NEW s \in DOMAIN L, s \in DOMAIN Visible(lib) => EachOnce(lib[s].versions),
         s \in DOMAIN Visible(L)
  PROVE  EachOnce(L[s].versions)
<1> DEFINE n == Len(document)
<1>1. \A k \in 1..n : EachOnce(document[k].versions)
  <2>1. DOMAIN document = 1..n
    BY SourceIs DEF Carried
  <2>2. QED
    BY <2>1, WellFormedIs
<1>2. \/ Unchanged(lib, L, s)
      \/ \E k \in 1..n : MergedBy(policy, document, es, lib, L, s, k)
      \/ \E k \in 1..n : InsertedBy(policy, document, es, lib, L, s, k)
  BY RowsOf DEF Carried
<1>3. CASE Unchanged(lib, L, s)
  BY <1>3, ResultVisible DEF Unchanged
<1>4. CASE \E k \in 1..n : MergedBy(policy, document, es, lib, L, s, k)
  <2>1. PICK k \in 1..n : MergedBy(policy, document, es, lib, L, s, k)
    BY <1>4
  <2> DEFINE added == MissingOf(document[k], es[k])
             ours == lib[s].versions
  <2>2. added \in Seq(Version) /\ s \in DOMAIN Visible(lib)
    BY <2>1, MergedFrom
  <2>3. Extends(ours, L[s].versions, added, document[k].versions)
    BY <2>1, MergedFrom, Zenon
  <2>4. added # <<>> => EachOnce(added)
    <3>1. document[k] \in Source
      BY SourceIs DEF Carried
    <3>2. QED
      BY <1>1, <3>1, MissingOnce
  <2>5. EachOnce(ours) /\ ours \in Seq(Version)
    <3>1. s \in DOMAIN lib
      BY <2>1 DEF MergedBy
    <3>2. QED
      BY <2>2, <3>1 DEF Carried, LibraryOK, RowOK
  <2> HIDE DEF added, ours
  <2>6. L[s].versions = ours \o added /\ Identities(ours) \cap Identities(added) = {}
    BY <2>3 DEF Extends
  <2>7. EachOnce(ours \o added)
    BY <2>2, <2>4, <2>5, <2>6, JoinedOnce
  <2>8. QED
    BY <2>6, <2>7
<1>5. CASE \E k \in 1..n : InsertedBy(policy, document, es, lib, L, s, k)
  <2>1. PICK k \in 1..n : InsertedBy(policy, document, es, lib, L, s, k)
    BY <1>5
  <2>2. NewVisible(L[s], document[k].versions)
    BY <2>1, InsertedFrom, Zenon
  <2>3. QED
    BY <1>1, <2>2 DEF NewVisible
<1>6. QED
  BY <1>2, <1>3, <1>4, <1>5

LEMMA ResultFilled ==
  ASSUME NEW policy, NEW document, NEW es, NEW lib, NEW L,
         Carried(policy, document, es, lib, L), WellFormed(document),
         NEW s \in DOMAIN L, s \in DOMAIN lib => lib[s].versions # <<>>
  PROVE  L[s].versions # <<>>
<1> DEFINE n == Len(document)
<1>1. \/ Unchanged(lib, L, s)
      \/ \E k \in 1..n : MergedBy(policy, document, es, lib, L, s, k)
      \/ \E k \in 1..n : InsertedBy(policy, document, es, lib, L, s, k)
  BY RowsOf DEF Carried
<1>2. CASE Unchanged(lib, L, s)
  BY <1>2 DEF Unchanged
<1>3. CASE \E k \in 1..n : MergedBy(policy, document, es, lib, L, s, k)
  <2>1. PICK k \in 1..n : MergedBy(policy, document, es, lib, L, s, k)
    BY <1>3
  <2> DEFINE added == MissingOf(document[k], es[k])
             ours == lib[s].versions
  <2>2. added \in Seq(Version)
    BY <2>1, MergedFrom
  <2>3. Extends(ours, L[s].versions, added, document[k].versions)
    BY <2>1, MergedFrom, Zenon
  <2>4. ours # <<>> /\ ours \in Seq(Version)
    <3>1. s \in DOMAIN lib
      BY <2>1 DEF MergedBy
    <3>2. QED
      BY <3>1 DEF Carried, LibraryOK, RowOK
  <2> HIDE DEF added, ours
  <2>5. QED
    BY <2>2, <2>3, <2>4, JoinedIs DEF Extends
<1>4. CASE \E k \in 1..n : InsertedBy(policy, document, es, lib, L, s, k)
  <2>1. PICK k \in 1..n : InsertedBy(policy, document, es, lib, L, s, k)
    BY <1>4
  <2>2. NewVisible(L[s], document[k].versions)
    BY <2>1, InsertedFrom, Zenon
  <2>3. document[k].versions # <<>>
    <3>1. DOMAIN document = 1..n
      BY SourceIs DEF Carried
    <3>2. QED
      BY <3>1, WellFormedIs DEF EachOnce
  <2>4. QED
    BY <2>2, <2>3 DEF NewVisible
<1>5. QED
  BY <1>1, <1>2, <1>3, <1>4

(* Where the metadata of a result come from. *)
CopyOf(policy, document, visible, k, meta) ==
  /\ policy = "import-as-copy" /\ document[k].slug \in DOMAIN visible
  /\ meta = Copied(document[k].meta)

LEMMA ResultMeta ==
  ASSUME NEW policy, NEW document, NEW es, NEW lib, NEW L,
         Carried(policy, document, es, lib, L), NEW s \in DOMAIN L
  PROVE  \/ s \in DOMAIN lib /\ Grown(lib[s], L[s])
         \/ \E k \in 1..Len(document) : L[s].meta = document[k].meta
         \/ \E k \in 1..Len(document) : CopyOf(policy, document, Visible(lib), k, L[s].meta)
<1>1. CASE s \in DOMAIN lib
  BY <1>1, ResultRow
<1>2. CASE s \notin DOMAIN lib
  <2>1. PICK k \in 1..Len(document) : InsertedBy(policy, document, es, lib, L, s, k)
    <3>1. /\ ~Unchanged(lib, L, s)
          /\ ~\E k \in 1..Len(document) : MergedBy(policy, document, es, lib, L, s, k)
      BY <1>2 DEF Unchanged, MergedBy
    <3>2. QED
      BY <3>1, RowsOf DEF Carried
  <2>2. CASE Fresh(es[k])
    BY <2>1, <2>2, InsertedFrom
  <2>3. CASE ~Fresh(es[k])
    <3>1. L[s].meta = Copied(document[k].meta) /\ document[k].slug \in DOMAIN Visible(lib)
      BY <2>1, <2>3, InsertedFrom
    <3>2. CopyOf(policy, document, Visible(lib), k, L[s].meta)
      BY Zenon, <2>1, <2>3, <3>1 DEF InsertedBy, Inserts, CopyOf
    <3>3. QED
      BY <3>2
  <2>4. QED
    BY <2>2, <2>3
<1>3. QED
  BY <1>1, <1>2

-----------------------------------------------------------------------------
(* What is always so: the rows are complete prompts, none of them without  *)
(* a version, and the chosen file holds prompts.                           *)

LibraryFull(lib) == LibraryOK(lib) /\ \A s \in DOMAIN lib : lib[s].versions # <<>>

Inv == LibraryFull(library) /\ file \in Seq(Source) /\ clock \in 0..MaxClock

LEMMA RowAdded ==
  ASSUME NEW lib, LibraryFull(lib), NEW slug \in Slugs, NEW row, RowOK(row), row.versions # <<>>,
         NEW L, L = [s \in DOMAIN lib \cup {slug} |-> IF s = slug THEN row ELSE lib[s]]
  PROVE  LibraryFull(L)
<1>1. DOMAIN L = DOMAIN lib \cup {slug}
  OBVIOUS
<1>2. \A s \in DOMAIN L : L[s] = row \/ (s \in DOMAIN lib /\ L[s] = lib[s])
  OBVIOUS
<1>3. IsFiniteSet(DOMAIN L)
  BY <1>1, FS_AddElement DEF LibraryFull, LibraryOK
<1>4. DOMAIN L \subseteq Slugs /\ L = [s \in DOMAIN L |-> L[s]]
  BY <1>1 DEF LibraryFull, LibraryOK
<1>5. \A s \in DOMAIN L : RowOK(L[s]) /\ L[s].versions # <<>>
  BY <1>2 DEF LibraryFull, LibraryOK
<1>6. QED
  BY <1>3, <1>4, <1>5 DEF LibraryFull, LibraryOK

LEMMA RowReplaced ==
  ASSUME NEW lib, LibraryFull(lib), NEW slug \in DOMAIN lib, NEW row, RowOK(row),
         row.versions # <<>>, NEW L, L = [lib EXCEPT ![slug] = row]
  PROVE  LibraryFull(L)
<1>1. lib = [s \in DOMAIN lib |-> lib[s]]
  BY DEF LibraryFull, LibraryOK
<1>2. DOMAIN L = DOMAIN lib /\ L = [s \in DOMAIN L |-> L[s]]
  BY <1>1
<1>3. \A s \in DOMAIN L : L[s] = row \/ L[s] = lib[s]
  BY <1>1
<1>4. QED
  BY <1>2, <1>3 DEF LibraryFull, LibraryOK

LEMMA RowRemoved ==
  ASSUME NEW lib, LibraryFull(lib), NEW slug, NEW L, L = [s \in DOMAIN lib \ {slug} |-> lib[s]]
  PROVE  LibraryFull(L)
<1>1. DOMAIN L = DOMAIN lib \ {slug} /\ L = [s \in DOMAIN L |-> L[s]]
  OBVIOUS
<1>2. \A s \in DOMAIN L : s \in DOMAIN lib /\ L[s] = lib[s]
  OBVIOUS
<1>3. IsFiniteSet(DOMAIN L)
  BY <1>1, FS_Subset DEF LibraryFull, LibraryOK
<1>4. QED
  BY <1>1, <1>2, <1>3 DEF LibraryFull, LibraryOK

LEMMA DatedIs ==
  ASSUME Inv, Edit, NEW draft \in Drafts
  PROVE  Dated(draft) \in Version
<1>1. clock' \in Nat
  BY ClockCounts DEF Inv, Edit
<1>2. draft.semver \in Nat /\ draft.body \in Nat
  BY OrderedByNumber
<1>3. QED
  BY <1>1, <1>2 DEF Dated, Version

LEMMA RowParts ==
  ASSUME NEW row, RowOK(row)
  PROVE  /\ \A m \in AnyMeta : /\ RowOK([row EXCEPT !.meta = m])
                               /\ [row EXCEPT !.meta = m].versions = row.versions
         /\ \A t \in BOOLEAN : /\ RowOK([row EXCEPT !.trashed = t])
                               /\ [row EXCEPT !.trashed = t].versions = row.versions
         /\ \A vs \in Seq(Version) : /\ RowOK([row EXCEPT !.versions = vs])
                                     /\ [row EXCEPT !.versions = vs].versions = vs
<1>1. PICK m, t, v : row = [meta |-> m, trashed |-> t, versions |-> v]
  BY DEF RowOK
<1>2. m \in AnyMeta /\ t \in BOOLEAN /\ v \in Seq(Version) /\ row.versions = v
  BY <1>1 DEF RowOK
<1>3. ASSUME NEW a \in AnyMeta, NEW b \in BOOLEAN, NEW c \in Seq(Version)
      PROVE  RowOK([meta |-> a, trashed |-> b, versions |-> c])
  BY DEF RowOK
<1>4. ASSUME NEW a \in AnyMeta
      PROVE  RowOK([row EXCEPT !.meta = a]) /\ [row EXCEPT !.meta = a].versions = row.versions
  <2>1. [row EXCEPT !.meta = a] = [meta |-> a, trashed |-> t, versions |-> v]
    BY <1>1
  <2>2. QED
    BY <1>2, <1>3, <2>1
<1>5. ASSUME NEW b \in BOOLEAN
      PROVE  RowOK([row EXCEPT !.trashed = b]) /\ [row EXCEPT !.trashed = b].versions = row.versions
  <2>1. [row EXCEPT !.trashed = b] = [meta |-> m, trashed |-> b, versions |-> v]
    BY <1>1
  <2>2. QED
    BY <1>2, <1>3, <2>1
<1>6. ASSUME NEW c \in Seq(Version)
      PROVE  RowOK([row EXCEPT !.versions = c]) /\ [row EXCEPT !.versions = c].versions = c
  <2>1. [row EXCEPT !.versions = c] = [meta |-> m, trashed |-> t, versions |-> c]
    BY <1>1
  <2>2. QED
    BY <1>2, <1>3, <2>1
<1>7. QED
  BY <1>4, <1>5, <1>6

(* A restore that matches its preview. *)
LEMMA RestoreCarries ==
  ASSUME Inv, Valid(file), NEW policy \in Policies,
         PlanMatches(plan, Normalized(file), Visible(library))
  PROVE  LET document == Normalized(file)
             result == ApplyPlan(policy, document, plan.entries, library)
         IN /\ plan.document = document /\ plan.library = Visible(library)
            /\ document \in Seq(Source) /\ WellFormed(document) /\ TitlesFit(document)
            /\ DOMAIN plan.entries = 1..Len(document)
            /\ PlanOf(plan.entries, document, Visible(library))
            /\ \/ /\ result.ok = TRUE
                  /\ Carried(policy, document, plan.entries, library, result.library)
               \/ result.ok = FALSE /\ Stuck(policy, document, plan.entries, library, Len(document))
<1> DEFINE document == Normalized(file)
           visible == Visible(library)
           entries == Entries(document, visible)
           result == ApplyPlan(policy, document, entries, library)
<1>1. plan = [entries |-> entries, document |-> document, library |-> visible]
  BY DEF PlanMatches, BuildRestorePlan
<1>2. plan.entries = entries /\ plan.document = document /\ plan.library = visible
  BY <1>1
<1>3. document \in Seq(Source) /\ WellFormed(document) /\ TitlesFit(document)
  BY NormalizedIs, ValidIs DEF Inv
<1>4. LibraryOK(library) /\ VisibleOK(visible)
  BY VisibleIs DEF Inv, LibraryFull
<1> HIDE DEF document
<1>5. DOMAIN entries = 1..Len(document)
  BY <1>3, EntriesAre
<1> HIDE DEF entries
<1>6. PlanOf(entries, document, visible)
  BY <1>3, <1>4, PlanIs DEF entries
<1>7. Len(document) \in Nat /\ DOMAIN document = 1..Len(document) /\ SlugsOnce(document)
  BY <1>3, SourceIs, WellFormedIs
<1>8. DOMAIN visible \subseteq DOMAIN library /\ library = [s \in DOMAIN library |-> library[s]]
  BY <1>4, VisibleIs DEF LibraryOK
<1> HIDE DEF visible
<1>9. \/ /\ result.ok = TRUE
         /\ Applied(policy, document, entries, library, Len(document), result.library)
      \/ result.ok = FALSE /\ Stuck(policy, document, entries, library, Len(document))
  BY <1>6, <1>7, <1>8, PlanApplied
<1> HIDE DEF result
<1>10. result.ok = TRUE => Carried(policy, document, entries, library, result.library)
  BY <1>3, <1>4, <1>6, <1>9 DEF Carried, visible
<1>11. QED
  BY <1>2, <1>3, <1>5, <1>6, <1>9, <1>10 DEF document, visible, result

LEMMA InitInv == Init => Inv
<1> SUFFICES ASSUME Init PROVE Inv
  OBVIOUS
<1>1. library = <<>> /\ file \in Files /\ clock = 0
  BY DEF Init
<1>2. DOMAIN library = {} /\ library = [s \in DOMAIN library |-> library[s]]
  BY <1>1
<1>3. IsFiniteSet(DOMAIN library)
  BY <1>2, FS_EmptySet
<1>4. LibraryFull(library)
  BY <1>2, <1>3 DEF LibraryFull, LibraryOK
<1>5. QED
  BY <1>1, <1>4, FilesHoldPrompts, ClockCounts DEF Inv

LEMMA RestoreInv ==
  ASSUME Inv, NEW policy \in Policies, ExecuteBackupRestore(policy)
  PROVE  Inv'
<1>1. file' = file
  BY DEF ExecuteBackupRestore
<1>2. CASE UNCHANGED <<library, clock>>
  BY <1>1, <1>2 DEF Inv, LibraryFull, LibraryOK
<1>3. CASE ~UNCHANGED <<library, clock>>
  <2> DEFINE document == Normalized(file)
             result == ApplyPlan(policy, document, plan.entries, library)
  <2>1. /\ Valid(file) /\ PlanMatches(plan, document, Visible(library))
        /\ result.ok /\ clock < MaxClock /\ library' = result.library /\ clock' = clock + 1
    BY <1>3 DEF ExecuteBackupRestore
  <2>2. WellFormed(document) /\ Carried(policy, document, plan.entries, library, result.library)
    BY <2>1, RestoreCarries
  <2> HIDE DEF result, document
  <2>3. LibraryOK(result.library)
    BY <2>2, ResultOK
  <2>4. \A s \in DOMAIN library : library[s].versions # <<>>
    BY DEF Inv, LibraryFull
  <2>5. \A s \in DOMAIN result.library : result.library[s].versions # <<>>
    BY <2>2, <2>4, ResultFilled
  <2>6. LibraryFull(result.library)
    BY <2>3, <2>5 DEF LibraryFull
  <2>7. clock' \in 0..MaxClock
    BY <2>1, ClockCounts DEF Inv
  <2>8. QED
    BY <1>1, <2>1, <2>6, <2>7 DEF Inv
<1>4. QED
  BY <1>2, <1>3

LEMMA EditInv ==
  ASSUME Inv, Edit, LibraryFull(library')
  PROVE  Inv'
<1>1. clock' \in 0..MaxClock /\ file' = file
  BY ClockCounts DEF Inv, Edit
<1>2. QED
  BY <1>1 DEF Inv

LEMMA NextInv == Inv /\ [Next]_vars => Inv'
<1> SUFFICES ASSUME Inv, [Next]_vars PROVE Inv'
  OBVIOUS
<1>1. LibraryFull(library)
  BY DEF Inv
<1>2. CASE UNCHANGED vars
  BY <1>2 DEF Inv, vars, LibraryFull, LibraryOK
<1>3. CASE SelectFile
  BY <1>3, FilesHoldPrompts DEF SelectFile, Inv
<1>4. CASE ExportBackupV2
  <2>1. Document(Visible(library)) \in Seq(Source)
    BY <1>1, VisibleIs, DocumentIs DEF LibraryFull
  <2>2. file' \in Seq(Source)
    BY <1>4, <2>1 DEF ExportBackupV2, Inv
  <2>3. library' = library /\ clock' = clock
    BY <1>4 DEF ExportBackupV2
  <2>4. QED
    BY <2>2, <2>3 DEF Inv
<1>5. CASE PreviewBackupRestore
  BY <1>5 DEF PreviewBackupRestore, Inv
<1>6. CASE \E policy \in Policies : ExecuteBackupRestore(policy)
  BY <1>6, RestoreInv
<1>7. CASE \E s \in UserSlugs, m \in Metas, d \in Drafts : CreatePrompt(s, m, d)
  <2>1. PICK s \in UserSlugs, m \in Metas, d \in Drafts : CreatePrompt(s, m, d)
    BY <1>7
  <2> DEFINE row == [meta |-> m, trashed |-> FALSE, versions |-> <<Dated(d)>>]
  <2>2. Edit /\ library' = [t \in DOMAIN library \cup {s} |-> IF t = s THEN row ELSE library[t]]
    BY <2>1 DEF CreatePrompt
  <2>3. Dated(d) \in Version
    BY <2>2, DatedIs
  <2>4. <<Dated(d)>> \in Seq(Version) /\ <<Dated(d)>> # <<>>
    BY <2>3
  <2>5. RowOK(row) /\ row.versions # <<>>
    BY <2>4, FilesHoldPrompts DEF RowOK
  <2> HIDE DEF row
  <2>6. LibraryFull(library')
    BY <1>1, <2>2, <2>5, SlugsAreSequences, RowAdded
  <2>7. QED
    BY <2>2, <2>6, EditInv
<1>8. CASE \E s \in DOMAIN library, d \in Drafts : AddVersion(s, d)
  <2>1. PICK s \in DOMAIN library, d \in Drafts : AddVersion(s, d)
    BY <1>8
  <2> DEFINE vs == Append(library[s].versions, Dated(d))
             row == [library[s] EXCEPT !.versions = vs]
  <2>2. Edit /\ library' = [library EXCEPT ![s] = row]
    BY <2>1 DEF AddVersion
  <2>3. Dated(d) \in Version
    BY <2>2, DatedIs
  <2>4. RowOK(library[s])
    BY <1>1 DEF LibraryFull, LibraryOK
  <2>5. vs \in Seq(Version) /\ vs # <<>>
    <3>1. library[s].versions \in Seq(Version)
      BY <2>4 DEF RowOK
    <3>2. QED
      BY <2>3, <3>1
  <2> HIDE DEF vs
  <2>6. RowOK(row) /\ row.versions # <<>>
    BY <2>4, <2>5, RowParts
  <2> HIDE DEF row
  <2>7. LibraryFull(library')
    BY <1>1, <2>2, <2>6, RowReplaced
  <2>8. QED
    BY <2>2, <2>7, EditInv
<1>9. CASE \E s \in DOMAIN library, m \in Metas : UpdatePrompt(s, m)
  <2>1. PICK s \in DOMAIN library, m \in Metas : UpdatePrompt(s, m)
    BY <1>9
  <2> DEFINE row == [library[s] EXCEPT !.meta = m]
  <2>2. Edit /\ library' = [library EXCEPT ![s] = row]
    BY <2>1 DEF UpdatePrompt
  <2>3. RowOK(library[s]) /\ library[s].versions # <<>> /\ m \in AnyMeta
    BY <1>1, FilesHoldPrompts DEF LibraryFull, LibraryOK
  <2>4. RowOK(row) /\ row.versions # <<>>
    BY <2>3, RowParts
  <2> HIDE DEF row
  <2>5. LibraryFull(library')
    BY <1>1, <2>2, <2>4, RowReplaced
  <2>6. QED
    BY <2>2, <2>5, EditInv
<1>10. CASE \E s \in DOMAIN library, t \in BOOLEAN : SetTrashed(s, t)
  <2>1. PICK s \in DOMAIN library, t \in BOOLEAN : SetTrashed(s, t)
    BY <1>10
  <2> DEFINE row == [library[s] EXCEPT !.trashed = t]
  <2>2. Edit /\ library' = [library EXCEPT ![s] = row]
    BY <2>1 DEF SetTrashed
  <2>3. RowOK(library[s]) /\ library[s].versions # <<>>
    BY <1>1 DEF LibraryFull, LibraryOK
  <2>4. RowOK(row) /\ row.versions # <<>>
    BY <2>3, RowParts
  <2> HIDE DEF row
  <2>5. LibraryFull(library')
    BY <1>1, <2>2, <2>4, RowReplaced
  <2>6. QED
    BY <2>2, <2>5, EditInv
<1>11. CASE \E s \in DOMAIN library : PermanentlyDelete(s)
  <2>1. PICK s \in DOMAIN library : PermanentlyDelete(s)
    BY <1>11
  <2>2. Edit /\ library' = [t \in DOMAIN library \ {s} |-> library[t]]
    BY <2>1 DEF PermanentlyDelete
  <2>3. LibraryFull(library')
    BY <1>1, <2>2, RowRemoved
  <2>4. QED
    BY <2>2, <2>3, EditInv
<1>12. QED
  BY <1>2, <1>3, <1>4, <1>5, <1>6, <1>7, <1>8, <1>9, <1>10, <1>11 DEF Next

LEMMA AlwaysInv == Spec => []Inv
BY InitInv, NextInv, PTL DEF Spec

-----------------------------------------------------------------------------
(* What a step answers. *)

LEMMA OtherReplies ==
  ASSUME Next, \A policy \in Policies : ~ExecuteBackupRestore(policy)
  PROVE  reply'.policy = "none" /\ reply'.answer # "committed" /\ reply'.answer # "failed"
<1>1. CASE SelectFile
  BY <1>1 DEF SelectFile, Silent
<1>2. CASE ExportBackupV2
  BY <1>2 DEF ExportBackupV2, Answer
<1>3. CASE PreviewBackupRestore
  BY <1>3 DEF PreviewBackupRestore, Answer
<1>4. CASE \E s \in UserSlugs, m \in Metas, d \in Drafts : CreatePrompt(s, m, d)
  BY <1>4 DEF CreatePrompt, Edit, Silent
<1>5. CASE \E s \in DOMAIN library, d \in Drafts : AddVersion(s, d)
  BY <1>5 DEF AddVersion, Edit, Silent
<1>6. CASE \E s \in DOMAIN library, m \in Metas : UpdatePrompt(s, m)
  BY <1>6 DEF UpdatePrompt, Edit, Silent
<1>7. CASE \E s \in DOMAIN library, t \in BOOLEAN : SetTrashed(s, t)
  BY <1>7 DEF SetTrashed, Edit, Silent
<1>8. CASE \E s \in DOMAIN library : PermanentlyDelete(s)
  BY <1>8 DEF PermanentlyDelete, Edit, Silent
<1>9. QED
  BY <1>1, <1>2, <1>3, <1>4, <1>5, <1>6, <1>7, <1>8 DEF Next

Commits(policy) ==
  /\ reply' = Answer("committed", policy)
  /\ Valid(file) /\ PlanMatches(plan, Normalized(file), Visible(library))
  /\ ApplyPlan(policy, Normalized(file), plan.entries, library).ok
  /\ library' = ApplyPlan(policy, Normalized(file), plan.entries, library).library

Fails(policy) ==
  /\ reply' = Answer("failed", policy)
  /\ Valid(file) /\ PlanMatches(plan, Normalized(file), Visible(library))
  /\ ~ApplyPlan(policy, Normalized(file), plan.entries, library).ok
  /\ library' = library

Declines(policy) ==
  /\ reply'.policy = policy /\ reply'.answer # "committed" /\ reply'.answer # "failed"
  /\ library' = library

LEMMA ExecuteReplies ==
  ASSUME NEW policy, ExecuteBackupRestore(policy)
  PROVE  Commits(policy) \/ Fails(policy) \/ Declines(policy)
<1> DEFINE document == Normalized(file)
           result == ApplyPlan(policy, document, plan.entries, library)
           matches == PlanMatches(plan, document, Visible(library))
<1>1. \/ reply' = Answer("invalid", policy) /\ library' = library
      \/ reply' = Answer("stale", policy) /\ library' = library
      \/ /\ Valid(file) /\ matches
         /\ \/ result.ok /\ reply' = Answer("committed", policy) /\ library' = result.library
            \/ /\ reply' = Answer(IF result.ok THEN "write failed" ELSE "failed", policy)
               /\ library' = library
  BY DEF ExecuteBackupRestore
<1> HIDE DEF matches, result
<1>2. CASE reply' = Answer("invalid", policy) /\ library' = library
  BY <1>2 DEF Declines, Answer
<1>3. CASE reply' = Answer("stale", policy) /\ library' = library
  BY <1>3 DEF Declines, Answer
<1>4. CASE /\ Valid(file) /\ matches
           /\ result.ok /\ reply' = Answer("committed", policy) /\ library' = result.library
  BY <1>4 DEF Commits, matches, result
<1>5. CASE /\ Valid(file) /\ matches /\ library' = library
           /\ reply' = Answer(IF result.ok THEN "write failed" ELSE "failed", policy)
  <2>1. CASE result.ok
    BY <1>5, <2>1 DEF Declines, Answer
  <2>2. CASE ~result.ok
    BY <1>5, <2>2 DEF Fails, matches, result
  <2>3. QED
    BY <2>1, <2>2
<1>6. QED
  BY <1>1, <1>2, <1>3, <1>4, <1>5

LEMMA CommitIs ==
  ASSUME Inv, NEW policy \in Policies, Commits(policy)
  PROVE  /\ Carried(policy, plan.document, plan.entries, library, library')
         /\ WellFormed(plan.document) /\ TitlesFit(plan.document)
         /\ SlugsOnce(plan.document)
         /\ plan.library = Visible(library)
         /\ Restored /\ reply'.policy = policy
<1> DEFINE document == Normalized(file)
           result == ApplyPlan(policy, document, plan.entries, library)
<1>1. /\ Valid(file) /\ PlanMatches(plan, document, Visible(library))
      /\ result.ok /\ library' = result.library
  BY DEF Commits
<1>2. /\ plan.document = document /\ plan.library = Visible(library)
      /\ WellFormed(document) /\ TitlesFit(document)
  BY <1>1, RestoreCarries
<1>3. Carried(policy, document, plan.entries, library, result.library)
  BY <1>1, RestoreCarries
<1>4. Restored /\ reply'.policy = policy
  BY DEF Commits, Restored, Answer
<1>5. SlugsOnce(document)
  BY <1>2, WellFormedIs
<1> HIDE DEF document, result
<1>6. QED
  BY <1>1, <1>2, <1>3, <1>4, <1>5

LEMMA CommitPromise ==
  ASSUME Inv, NEW policy \in Policies, Commits(policy)
  PROVE  RestoreStep
<1>1. /\ Carried(policy, plan.document, plan.entries, library, library')
      /\ SlugsOnce(plan.document) /\ plan.library = Visible(library)
      /\ Restored /\ reply'.policy = policy
  BY CommitIs
<1>2. Promised(policy, Visible(library), Visible(library'))
  BY <1>1, PromiseKept
<1>3. \A s \in DOMAIN library : s \in DOMAIN library' /\ Grown(library[s], library'[s])
  BY <1>1, ResultOK, ResultRow
<1>4. QED
  BY <1>1, <1>2, <1>3 DEF RestoreStep, Grown

LEMMA CommitExports ==
  ASSUME Inv, NEW policy \in Policies, Commits(policy)
  PROVE  ExportStep
<1>1. /\ Carried(policy, plan.document, plan.entries, library, library')
      /\ WellFormed(plan.document) /\ TitlesFit(plan.document)
  BY CommitIs
<1>2. LibraryOK(library) /\ LibraryOK(library')
  BY <1>1, ResultOK DEF Carried
<1>3. SUFFICES ASSUME Valid(Document(Visible(library)))
               PROVE  /\ WellFormed(Document(Visible(library')))
                      /\ TitlesFit(Document(Visible(library'))) \/ CopiesLongTitle
  BY DEF ExportStep
<1>4. WellFormed(Document(Visible(library')))
  <2>1. \A s \in DOMAIN Visible(library) : EachOnce(Visible(library)[s].versions)
    BY <1>2, <1>3, VisibleIs, WellFormedDocument, ValidIs
  <2>2. \A s \in DOMAIN Visible(library) : EachOnce(library[s].versions)
    BY <1>1, <2>1, ResultVisible
  <2>3. \A s \in DOMAIN Visible(library') :
          s \in DOMAIN library' /\ Visible(library')[s].versions = library'[s].versions
    BY <1>1, ResultVisible
  <2>4. \A s \in DOMAIN Visible(library') : EachOnce(library'[s].versions)
    BY <1>1, <2>2, <2>3, ResultOnce
  <2>5. QED
    BY <1>2, <2>3, <2>4, VisibleIs, WellFormedDocument
<1>5. ASSUME ~TitlesFit(Document(Visible(library')))
      PROVE  CopiesLongTitle
  <2>1. PICK s \in DOMAIN Visible(library') : TooLong(Visible(library')[s].meta)
    BY <1>2, <1>5, VisibleIs, TitlesDocument
  <2>2. s \in DOMAIN library' /\ TooLong(library'[s].meta) /\ ~library'[s].trashed
    BY <1>2, <2>1, VisibleIs
  <2>3. DOMAIN plan.document = 1..Len(plan.document)
    BY <1>1, SourceIs DEF Carried
  <2>4. CASE s \in DOMAIN library /\ Grown(library[s], library'[s])
    <3>1. s \in DOMAIN Visible(library) /\ TooLong(Visible(library)[s].meta)
      BY <1>2, <2>2, <2>4, VisibleIs DEF Grown
    <3>2. QED
      BY <1>2, <1>3, <3>1, VisibleIs, TitlesDocument, ValidIs
  <2>5. CASE \E k \in 1..Len(plan.document) : library'[s].meta = plan.document[k].meta
    BY <1>1, <2>2, <2>3, <2>5 DEF TitlesFit
  <2>6. CASE \E k \in 1..Len(plan.document) :
               CopyOf(policy, plan.document, Visible(library), k, library'[s].meta)
    <3>1. PICK k \in 1..Len(plan.document) :
            CopyOf(policy, plan.document, Visible(library), k, library'[s].meta)
      BY <2>6
    <3>2. /\ plan.document[k].slug \in DOMAIN plan.library
          /\ TooLong(Copied(plan.document[k].meta))
      BY <2>2, <3>1, CommitIs DEF CopyOf
    <3>3. plan.document[k] \in Sources
      BY <2>3 DEF Sources, ToSet
    <3>4. reply'.policy = "import-as-copy"
      BY <3>1, CommitIs DEF CopyOf
    <3>5. QED
      BY <3>2, <3>3, <3>4 DEF CopiesLongTitle
  <2>7. QED
    BY <1>1, <2>2, <2>4, <2>5, <2>6, ResultMeta
<1>6. QED
  BY <1>4, <1>5

LEMMA FailBlocked ==
  ASSUME Inv, NEW policy \in Policies, Fails(policy)
  PROVE  Blocked(policy) /\ reply'.policy = policy /\ ~Restored
<1> DEFINE document == Normalized(file)
           result == ApplyPlan(policy, document, plan.entries, library)
<1>1. /\ Valid(file) /\ PlanMatches(plan, document, Visible(library)) /\ ~result.ok
  BY DEF Fails
<1>2. /\ document \in Seq(Source) /\ WellFormed(document)
      /\ DOMAIN plan.entries = 1..Len(document)
      /\ PlanOf(plan.entries, document, Visible(library))
  BY <1>1, RestoreCarries
<1>3. Stuck(policy, document, plan.entries, library, Len(document))
  BY <1>1, RestoreCarries
<1> HIDE DEF document, result
<1>4. SlugsOnce(document) /\ DOMAIN document = 1..Len(document) /\ Len(document) \in Nat
  BY <1>2, WellFormedIs, SourceIs
<1>5. LibraryOK(library)
  BY DEF Inv, LibraryFull
<1>6. Blocked(policy)
  BY <1>2, <1>3, <1>4, <1>5, StuckIsBlocked
<1>7. reply'.policy = policy /\ ~Restored
  BY DEF Fails, Restored, Answer
<1>8. QED
  BY <1>6, <1>7

LEMMA StepReplies ==
  ASSUME Inv, Next
  PROVE  RestoreStep /\ ExportStep /\ FreshPlanStep
<1>1. CASE \A policy \in Policies : ~ExecuteBackupRestore(policy)
  BY <1>1, OtherReplies DEF RestoreStep, ExportStep, FreshPlanStep, Restored
<1>2. CASE \E policy \in Policies : ExecuteBackupRestore(policy)
  <2>1. PICK policy \in Policies : ExecuteBackupRestore(policy)
    BY <1>2
  <2>2. CASE Commits(policy)
    <3>1. RestoreStep /\ ExportStep
      BY <2>2, CommitPromise, CommitExports
    <3>2. FreshPlanStep
      BY <2>2 DEF Commits, FreshPlanStep, Answer
    <3>3. QED
      BY <3>1, <3>2
  <2>3. CASE Fails(policy)
    <3>1. Blocked(policy) /\ reply'.policy = policy /\ ~Restored
      BY <2>3, FailBlocked
    <3>2. library' = library
      BY <2>3 DEF Fails
    <3>3. RestoreStep
      BY <3>1, <3>2 DEF RestoreStep
    <3>4. ExportStep
      BY <3>1 DEF ExportStep
    <3>5. FreshPlanStep
      BY <3>1 DEF FreshPlanStep
    <3>6. QED
      BY <3>3, <3>4, <3>5
  <2>4. CASE Declines(policy)
    BY <2>4 DEF Declines, RestoreStep, ExportStep, FreshPlanStep, Restored
  <2>5. QED
    BY <2>1, <2>2, <2>3, <2>4, ExecuteReplies
<1>3. QED
  BY <1>1, <1>2

(* The rows of the library are complete prompts. *)
LEMMA FullLibrary == Inv => TypeOK
<1> SUFFICES ASSUME Inv PROVE TypeOK
  OBVIOUS
<1>1. ASSUME NEW s \in DOMAIN library
      PROVE  /\ s \in Slugs /\ library[s].meta \in AnyMeta /\ library[s].trashed \in BOOLEAN
             /\ library[s].versions \in Seq(Version) /\ library[s].versions # <<>>
  <2>1. s \in Slugs /\ RowOK(library[s]) /\ library[s].versions # <<>>
    BY DEF Inv, LibraryFull, LibraryOK
  <2> DEFINE row == library[s]
  <2> HIDE DEF row
  <2>2. RowOK(row) =>
          /\ row.meta \in AnyMeta /\ row.trashed \in BOOLEAN
          /\ row.versions \in Seq(Version)
    BY DEF RowOK
  <2>3. QED
    BY <2>1, <2>2 DEF row
<1>2. QED
  BY <1>1 DEF TypeOK, Inv

(* An export asks its own library for nothing. *)
LEMMA ExportIsDuplicate ==
  ASSUME NEW visible, VisibleOK(visible)
  PROVE  \A e \in ToSet(BuildRestorePlan(Document(visible), visible).entries) :
           e.kind = "existing-exact-duplicate"
<1> DEFINE document == Document(visible)
           entries == Entries(document, visible)
           n == Len(document)
<1>1. document \in Seq(Source)
  BY DocumentIs
<1>2. ASSUME NEW i \in DOMAIN document
      PROVE  /\ document[i].slug \in DOMAIN visible
             /\ document[i].meta = visible[document[i].slug].meta
             /\ document[i].versions = VersionsSorted(visible[document[i].slug].versions)
  <2>1. document[i].slug \in DOMAIN visible
    BY DocumentIs
  <2>2. document[i].meta = visible[document[i].slug].meta
    BY DocumentIs
  <2>3. document[i].versions = VersionsSorted(visible[document[i].slug].versions)
    BY DocumentIs
  <2>4. QED
    BY <2>1, <2>2, <2>3
<1> HIDE DEF document
<1>3. DOMAIN document = 1..n
  BY <1>1, SourceIs
<1>4. DOMAIN entries = 1..n
  BY <1>1, EntriesAre
<1>5. \A i \in 1..n : entries[i] = PlanEntry(document[i], visible,
        DOMAIN visible \cup {Reserved(entries[k]) : k \in 1..(i - 1)})
  BY ZenonT(60), <1>1, EntriesAre
<1> HIDE DEF entries
<1>6. ASSUME NEW i \in 1..n
      PROVE  entries[i].kind = "existing-exact-duplicate"
  <2> DEFINE source == document[i]
             current == visible[document[i].slug]
             taken == DOMAIN visible \cup {Reserved(entries[k]) : k \in 1..(i - 1)}
  <2>1. source.slug \in DOMAIN visible /\ source.meta = current.meta
        /\ source.versions = VersionsSorted(current.versions)
    BY <1>2, <1>3
  <2>2. current.versions \in Seq(Version)
    BY <2>1 DEF VisibleOK
  <2>3. Identities(source.versions) = Identities(current.versions)
    BY <2>1, <2>2, VersionsSortedIs
  <2>4. Kind(source, current) = "existing-exact-duplicate"
    BY <2>1, <2>3 DEF Kind
  <2>5. entries[i] = PlanEntry(source, visible, taken)
    BY <1>5
  <2> HIDE DEF taken
  <2>6. PlanEntry(source, visible, taken).kind = Kind(source, current)
    BY <2>1 DEF PlanEntry
  <2>7. QED
    BY <2>4, <2>5, <2>6
<1>7. BuildRestorePlan(document, visible).entries = entries
  BY DEF BuildRestorePlan, entries
<1>8. \A e \in ToSet(entries) : e.kind = "existing-exact-duplicate"
  BY <1>4, <1>6 DEF ToSet
<1>9. QED
  BY <1>7, <1>8 DEF document

(* Into an empty library, an export brings its own library back. *)
LEMMA ExportRestores ==
  ASSUME NEW visible, VisibleOK(visible), NEW policy \in Policies
  PROVE  LET result == ApplyPlan(policy, Document(visible),
                                 BuildRestorePlan(Document(visible), <<>>).entries, <<>>)
         IN /\ result.ok
            /\ Contents(Visible(result.library)) = Contents(visible)
            /\ \A s \in DOMAIN visible : result.library[s].meta = visible[s].meta
<1> DEFINE document == Document(visible)
           none == <<>>
           es == Entries(document, none)
           n == Len(document)
           result == ApplyPlan(policy, document, es, none)
           L == result.library
<1>1. document \in Seq(Source) /\ SlugsOnce(document)
  BY DocumentIs
<1>2. ASSUME NEW i \in DOMAIN document
      PROVE  /\ document[i].slug \in DOMAIN visible
             /\ document[i].meta = visible[document[i].slug].meta
             /\ document[i].versions = VersionsSorted(visible[document[i].slug].versions)
  <2>1. document[i].slug \in DOMAIN visible
    BY DocumentIs
  <2>2. document[i].meta = visible[document[i].slug].meta
    BY DocumentIs
  <2>3. document[i].versions = VersionsSorted(visible[document[i].slug].versions)
    BY DocumentIs
  <2>4. QED
    BY <2>1, <2>2, <2>3
<1>3. \A s \in DOMAIN visible : \E i \in DOMAIN document : document[i].slug = s
  BY DocumentIs
<1> HIDE DEF document
<1>4. DOMAIN document = 1..n /\ n \in Nat
  BY <1>1, SourceIs
<1>5. LibraryOK(none) /\ DOMAIN none = {} /\ none = [s \in DOMAIN none |-> none[s]]
  BY FS_EmptySet DEF LibraryOK
<1>6. Visible(none) = none
  BY DEF Visible
<1> HIDE DEF none
<1>7. VisibleOK(none)
  BY <1>5, <1>6, VisibleIs
<1>8. PlanOf(es, document, none)
  BY <1>1, <1>7, PlanIs
<1> HIDE DEF es
<1>9. \A k \in 1..n : /\ es[k].slug = document[k].slug
                      /\ Fresh(es[k]) /\ Reserved(es[k]) = document[k].slug
  BY <1>5, <1>8 DEF PlanOf, EntryOf
<1>10. \/ result.ok = TRUE /\ Applied(policy, document, es, none, n, L)
       \/ result.ok = FALSE /\ Stuck(policy, document, es, none, n)
  <2>1. DOMAIN none \subseteq DOMAIN none
    OBVIOUS
  <2>2. QED
    BY <1>1, <1>4, <1>5, <1>8, <2>1, PlanApplied
<1> HIDE DEF result
<1>11. ~Stuck(policy, document, es, none, n)
  <2>1. SUFFICES ASSUME NEW m \in 1..n, NEW M,
                        Applied(policy, document, es, none, m - 1, M),
                        Reserved(es[m]) \in DOMAIN M
                 PROVE  FALSE
    BY DEF Stuck
  <2>2. PICK k \in 1..(m - 1) : Reserved(es[m]) = Reserved(es[k])
    BY <1>5, <2>1 DEF Applied, NoOthersUpTo
  <2>3. k \in 1..n /\ k # m
    OBVIOUS
  <2>4. document[m].slug = document[k].slug
    BY <1>9, <2>2, <2>3
  <2>5. QED
    BY <1>1, <1>4, <2>3, <2>4 DEF SlugsOnce
<1>12. result.ok = TRUE /\ Applied(policy, document, es, none, n, L)
  BY <1>10, <1>11
<1>13. Carried(policy, document, es, none, L)
  BY <1>1, <1>5, <1>6, <1>8, <1>12 DEF Carried
<1>14. WritesThe(ToSet(document), policy, document, es)
  <2>1. \A k \in 1..n : document[k] \in ToSet(document)
    BY <1>4 DEF ToSet
  <2>2. \A k \in 1..n : Inserts(policy, es[k]) /\ ~Merges(policy, es[k])
    BY <1>9 DEF Inserts, Merges
  <2>3. QED
    BY <1>9, <2>1, <2>2 DEF WritesThe, Writes
<1>15. Contents(Visible(L)) = Contents(none) \cup SourceContents(ToSet(document))
  BY <1>6, <1>13, <1>14, ResultContents
<1>16. \A x : x \notin Contents(none)
  BY <1>5, ContentsIs DEF Holds
<1>17. ASSUME NEW x
       PROVE  x \in SourceContents(ToSet(document)) <=> x \in Contents(visible)
  <2>1. \A i \in DOMAIN document :
          Identities(document[i].versions) = Identities(visible[document[i].slug].versions)
    BY <1>2, VersionsSortedIs DEF VisibleOK
  <2>2. x \in SourceContents(ToSet(document)) <=>
          \E i \in DOMAIN document : \E id \in Identities(document[i].versions) :
            x = <<document[i].slug, id>>
    BY SourceContentsIs DEF ToSet
  <2>3. x \in Contents(visible) <=>
          \E s \in DOMAIN visible : \E id \in Identities(visible[s].versions) : x = <<s, id>>
    BY ContentsIs DEF Holds
  <2>4. QED
    BY <1>2, <1>3, <2>1, <2>2, <2>3
<1>18. Contents(Visible(L)) = Contents(visible)
  BY <1>15, <1>16, <1>17
<1>19. ASSUME NEW s \in DOMAIN visible
       PROVE  L[s].meta = visible[s].meta
  <2>1. PICK k \in 1..n : document[k].slug = s
    BY <1>3, <1>4
  <2>2. L[s] = NewRow(document[k], es[k])
    <3>1. Inserts(policy, es[k])
      BY <1>9 DEF Inserts
    <3>2. QED
      BY <1>9, <1>12, <2>1, <3>1 DEF Applied, InsertedUpTo
  <2>3. document[k] \in Source /\ Fresh(es[k])
    BY <1>1, <1>9, SourceIs
  <2>4. NewRow(document[k], es[k]).meta = document[k].meta
    BY <2>3, NewRowIs
  <2>5. document[k].meta = visible[s].meta
    BY <1>2, <1>4, <2>1
  <2>6. QED
    BY <2>2, <2>4, <2>5
<1>20. result.ok /\ BuildRestorePlan(document, <<>>).entries = es
  BY <1>12 DEF BuildRestorePlan, es, none
<1>21. QED
  BY <1>18, <1>19, <1>20 DEF result, document, none

LEMMA InvExport == Inv => ExportRestoresItself
<1> SUFFICES ASSUME Inv PROVE ExportRestoresItself
  OBVIOUS
<1>1. TypeOK
  BY FullLibrary
<1>2. VisibleOK(Visible(library))
  BY VisibleIs DEF Inv, LibraryFull
<1>3. \A e \in ToSet(BuildRestorePlan(Document(Visible(library)), Visible(library)).entries) :
        e.kind = "existing-exact-duplicate"
  BY <1>2, ExportIsDuplicate
<1>4. SUFFICES ASSUME Valid(Document(Visible(library))), NEW policy \in Policies
               PROVE  LET result == ApplyPlan(policy, Document(Visible(library)),
                            BuildRestorePlan(Document(Visible(library)), <<>>).entries, <<>>)
                      IN /\ result.ok
                         /\ Contents(Visible(result.library)) = Contents(Visible(library))
                         /\ \A s \in DOMAIN Visible(library) :
                              result.library[s].meta = Visible(library)[s].meta
  BY <1>1, <1>3 DEF ExportRestoresItself
<1> DEFINE visible == Visible(library)
<1>5. VisibleOK(visible)
  BY <1>2
<1> HIDE DEF visible
<1>6. LET result == ApplyPlan(policy, Document(visible),
                              BuildRestorePlan(Document(visible), <<>>).entries, <<>>)
      IN /\ result.ok
         /\ Contents(Visible(result.library)) = Contents(visible)
         /\ \A s \in DOMAIN visible : result.library[s].meta = visible[s].meta
  BY <1>5, ExportRestores
<1>7. QED
  BY <1>6 DEF visible

-----------------------------------------------------------------------------
(* The theorems. *)

(* The library holds complete prompts only, whatever is restored into it. *)
THEOREM TypesHold == Spec => []TypeOK
BY AlwaysInv, FullLibrary, PTL

(* An export previewed against its own library asks for nothing; restored  *)
(* into an empty one it brings the same prompts and histories.             *)
THEOREM ExportsRestore == Spec => []ExportRestoresItself
BY AlwaysInv, InvExport, PTL

(* A restore call changes nothing, or leaves what the preview announced on *)
(* the very library that was previewed.                                    *)
THEOREM RestoresAsPreviewed == Spec => RestoreAsPreviewed
<1>1. Inv /\ [Next]_vars => [RestoreStep]_vars
  BY StepReplies
<1>2. QED
  BY <1>1, AlwaysInv, PTL DEF Spec, RestoreAsPreviewed

(* After a restore, an export is refused for the size of the library or    *)
(* for the title of a copy only.                                           *)
THEOREM OnlyLimitsRefuse == Spec => OnlyLimitsRefuseExport
<1>1. Inv /\ [Next]_vars => [ExportStep]_vars
  BY StepReplies
<1>2. QED
  BY <1>1, AlwaysInv, PTL DEF Spec, OnlyLimitsRefuseExport

(* A fresh plan fails only over a slug in the trash, or over a copy that   *)
(* took the slug of a new prompt of the same file.                         *)
THEOREM FreshPlansCommit == Spec => FreshPlanCommits
<1>1. Inv /\ [Next]_vars => [FreshPlanStep]_vars
  BY StepReplies
<1>2. QED
  BY <1>1, AlwaysInv, PTL DEF Spec, FreshPlanCommits

-----------------------------------------------------------------------------
(*****************************************************************************)
(* Tags                                                                    *)
(*****************************************************************************)

Labels == Names \ ProjectNames

Tags == [id : Nat, name : Labels, kind : {"label"}]
          \cup [id : Nat, name : ProjectNames, kind : {"project"}]

(* A call that knows the tags of `ids' and no others. *)
Calls(ids) ==
  [op : {"create", "update", "tag", "untag"}, prompt : Prompts, names : SUBSET Labels,
   project : ProjectIds \cup {None}, at : {"list", "ensure", "edit"},
   missing : SUBSET Labels, chosen : SUBSET ids, adds : SUBSET ids, drops : SUBSET ids]

MainTyped == DOMAIN prompts \subseteq Prompts /\ stored \subseteq Prompts \X AllKeys

TagsTyped ==
  /\ tags \subseteq Tags
  /\ taggings \subseteq Prompts \X Ids(tags)

(* The number that CreateTag takes next is above all ids there are.        *)
IdsCounted == IsFiniteSet(tags) /\ Ids(tags) \subseteq 1..Cardinality(tags)

Distinct ==
  \A t, u \in tags :
    t.id = u.id \/ (t.kind = u.kind /\ Lower[t.name] = Lower[u.name]) => t = u

CallsTyped == call \in [Callers -> {Idle} \cup Calls(Ids(tags))]

IInv == MainTyped /\ TagsTyped /\ IdsCounted /\ Distinct /\ CallsTyped

-----------------------------------------------------------------------------
(* Calls *)

(* A caller that waits at a statement is in a call.                        *)
LEMMA Waiting ==
  ASSUME CallsTyped, NEW x \in Callers, call[x].at # "idle"
  PROVE  call[x] \in Calls(Ids(tags))
BY DEF CallsTyped, Idle

(* More tags do not make a call wrong.                                     *)
LEMMA CallsGrow ==
  ASSUME NEW S, NEW T, S \subseteq T, NEW c \in Calls(S)
  PROVE  c \in Calls(T)
BY DEF Calls

(* A call that begins is one, with the tags that it found to remove.       *)
LEMMA CallBegins ==
  ASSUME NEW ids, NEW op \in {"create", "update", "tag", "untag"}, NEW p \in Prompts,
         NEW ns \in SUBSET Labels, NEW j \in ProjectIds \cup {None},
         NEW at \in {"list", "ensure", "edit"}, NEW D \in SUBSET ids
  PROVE  /\ Call(op, p, ns, j, at) \in Calls(ids)
         /\ [Call(op, p, ns, j, at) EXCEPT !.drops = D] \in Calls(ids)
BY DEF Call, Calls

(* What a step of one caller needs to show, if it leaves the tags alone.   *)
LEMMA TagsStay ==
  ASSUME IInv, tags' = tags, NEW x \in Callers, NEW c \in {Idle} \cup Calls(Ids(tags)), Go(x, c),
         MainTyped', taggings' \subseteq Prompts \X Ids(tags)
  PROVE  IInv'
<1>1. Ids(tags)' = Ids(tags)
  BY DEF Ids
<1>2. CallsTyped'
  BY <1>1 DEF IInv, CallsTyped, Go
<1>3. TagsTyped'
  BY <1>1 DEF IInv, TagsTyped
<1>4. IdsCounted'
  BY <1>1 DEF IInv, IdsCounted
<1>5. Distinct'
  BY DEF IInv, Distinct
<1> QED
  BY <1>2, <1>3, <1>4, <1>5 DEF IInv

(* The tags that calls name are tags.                                      *)
LEMMA IdsOfSome ==
  ASSUME NEW S \in SUBSET tags
  PROVE  Ids(S) \subseteq Ids(tags)
BY DEF Ids

(* And so is the one that a listing gives for a label.                     *)
LEMMA ChosenIsTag ==
  ASSUME NEW known \in SUBSET tags, NEW k \in TagKeys(known)
  PROVE  (CHOOSE t \in known : Lower[t.name] = k).id \in Ids(tags)
<1>1. \E t \in known : Lower[t.name] = k
  BY DEF TagKeys, Keys
<1> DEFINE u == CHOOSE t \in known : Lower[t.name] = k
<1>2. u \in known
  BY <1>1
<1> QED
  BY <1>2 DEF Ids

-----------------------------------------------------------------------------
(* The steps *)

LEMMA BeginningIInv ==
  ASSUME IInv, NEW x \in Callers, NEW p \in Prompts, NEW ns \in LabelSets,
         NEW j \in ProjectIds \cup {None},
         \/ BeginCreate(x, p, ns, j)
         \/ BeginUpdate(x, p, ns, j)
         \/ BeginTag(x, p, ns)
         \/ BeginUntag(x, p, ns)
  PROVE  IInv'
<1>1. ns \in SUBSET Labels
  BY ProjectsApart DEF Labels
<1>2. None \in ProjectIds \cup {None}
  OBVIOUS
<1>3. taggings \subseteq Prompts \X Ids(tags)
  BY DEF IInv, TagsTyped
<1>4. MainTyped
  BY DEF IInv
<1>5. CASE BeginCreate(x, p, ns, j)
  <2>1. MainTyped'
    BY <1>4, <1>5 DEF MainTyped, BeginCreate, AllKeys
  <2>2. Call("create", p, ns, j, "list") \in Calls(Ids(tags))
    BY <1>1, CallBegins
  <2> QED
    BY <1>3, <1>5, <2>1, <2>2, TagsStay DEF BeginCreate
<1>6. CASE BeginUpdate(x, p, ns, j)
  <2>1. MainTyped'
    BY <1>4, <1>6 DEF MainTyped, BeginUpdate
  <2>2. Call("update", p, ns, j, "list") \in Calls(Ids(tags))
    BY <1>1, CallBegins
  <2> QED
    BY <1>3, <1>6, <2>1, <2>2, TagsStay DEF BeginUpdate
<1>7. CASE BeginTag(x, p, ns)
  <2>1. MainTyped'
    BY <1>4, <1>7 DEF MainTyped, BeginTag
  <2>2. Call("tag", p, ns, None, "list") \in Calls(Ids(tags))
    BY <1>1, <1>2, CallBegins
  <2> QED
    BY <1>3, <1>7, <2>1, <2>2, TagsStay DEF BeginTag
<1>8. CASE BeginUntag(x, p, ns)
  <2> DEFINE found == {t \in Current(p) : Lower[t.name] \in Keys(ns)}
  <2>1. MainTyped'
    BY <1>4, <1>8 DEF MainTyped, BeginUntag
  <2>2. Ids(found) \in SUBSET Ids(tags)
    <3>1. found \in SUBSET tags
      BY DEF Current
    <3> QED
      BY <3>1, IdsOfSome
  <2>3. [Call("untag", p, ns, None, "edit") EXCEPT !.drops = Ids(found)] \in Calls(Ids(tags))
    BY <1>1, <1>2, <2>2, CallBegins
  <2>4. Go(x, [Call("untag", p, ns, None, "edit") EXCEPT !.drops = Ids(found)])
    BY <1>8 DEF BeginUntag
  <2>5. tags' = tags /\ taggings' = taggings
    BY <1>8 DEF BeginUntag
  <2> HIDE DEF found
  <2> QED
    BY <1>3, <2>1, <2>3, <2>4, <2>5, TagsStay
<1> QED
  BY <1>5, <1>6, <1>7, <1>8

LEMMA BeginUpdateOfProjectIInv ==
  ASSUME IInv, NEW x \in Callers, NEW p \in Prompts, NEW j \in ProjectIds,
         BeginUpdateOfProject(x, p, j)
  PROVE  IInv'
<1>1. MainTyped' /\ taggings \subseteq Prompts \X Ids(tags)
  BY DEF BeginUpdateOfProject, IInv, MainTyped, TagsTyped
<1>2. Call("update", p, {}, j, "edit") \in Calls(Ids(tags))
  BY CallBegins
<1> QED
  BY <1>1, <1>2, TagsStay DEF BeginUpdateOfProject

LEMMA ListTagsIInv ==
  ASSUME IInv, NEW x \in Callers, ListTags(x)
  PROVE  IInv'
<1> DEFINE known == {t \in tags : Lower[t.name] \in Keys(call[x].names)}
           missing == {n \in call[x].names : Lower[n] \notin TagKeys(known)}
           chosen == {(CHOOSE t \in known : Lower[t.name] = k).id : k \in TagKeys(known)}
           next == [call[x] EXCEPT !.at = "ensure", !.missing = missing, !.chosen = chosen]
<1>1. call[x] \in Calls(Ids(tags))
  BY Waiting DEF IInv, ListTags
<1>2. chosen \subseteq Ids(tags)
  <2>1. known \in SUBSET tags
    OBVIOUS
  <2> HIDE DEF known
  <2>2. \A k \in TagKeys(known) :
          (CHOOSE t \in known : Lower[t.name] = k).id \in Ids(tags)
    BY <2>1, ChosenIsTag
  <2> QED
    BY <2>2
<1>3. missing \subseteq Labels
  BY <1>1 DEF Calls
<1>4. Go(x, next)
  BY DEF ListTags
<1> HIDE DEF known, missing, chosen
<1>5. next \in Calls(Ids(tags))
  BY <1>1, <1>2, <1>3 DEF Calls
<1>6. MainTyped' /\ tags' = tags /\ taggings' = taggings
  BY DEF ListTags, IInv, MainTyped
<1> HIDE DEF next
<1> QED
  BY <1>4, <1>5, <1>6, TagsStay DEF IInv, TagsTyped

LEMMA CreateTagIInv ==
  ASSUME IInv, NEW x \in Callers, NEW name \in Names, CreateTag(x, name)
  PROVE  IInv'
<1> DEFINE same == {t \in tags : t.kind = "label" /\ Lower[t.name] = Lower[name]}
           id == Cardinality(tags) + 1
           new == [id |-> id, name |-> name, kind |-> "label"]
<1>1. call[x] \in Calls(Ids(tags))
  BY Waiting DEF IInv, CreateTag
<1>2. MainTyped' /\ taggings' = taggings
  BY DEF CreateTag, IInv, MainTyped
<1>3. CASE same # {}
  <2>1. PICK t \in same : tags' = tags /\ Made(x, name, t.id)
    BY <1>3 DEF CreateTag
  <2> DEFINE next == [call[x] EXCEPT !.missing = @ \ {name}, !.chosen = @ \cup {t.id}]
  <2>2. t.id \in Ids(tags)
    BY DEF Ids
  <2>3. next \in Calls(Ids(tags))
    BY <1>1, <2>2 DEF Calls
  <2>4. Go(x, next)
    BY <2>1 DEF Made
  <2> HIDE DEF next
  <2> QED
    BY <1>2, <2>1, <2>3, <2>4, TagsStay DEF IInv, TagsTyped
<1>4. CASE same = {}
  <2> DEFINE next == [call[x] EXCEPT !.missing = @ \ {name}, !.chosen = @ \cup {id}]
  <2>1. tags' = tags \cup {new} /\ Go(x, next)
    BY <1>4 DEF CreateTag, Made
  <2>2. IsFiniteSet(tags) /\ Cardinality(tags) \in Nat
    BY FS_CardinalityType DEF IInv, IdsCounted
  <2>3. \A t \in tags : t.id \in 1..Cardinality(tags)
    BY DEF IInv, IdsCounted, Ids
  <2>4. new \notin tags
    BY <2>2, <2>3
  <2>5. IsFiniteSet(tags') /\ Cardinality(tags') = id
    BY <2>1, <2>2, <2>4, FS_AddElement
  <2>6. Ids(tags') = Ids(tags) \cup {id}
    <3>1. Ids(tags \cup {new}) = Ids(tags) \cup Ids({new})
      BY DEF Ids
    <3>2. Ids({new}) = {id}
      BY DEF Ids
    <3> QED
      BY <2>1, <3>1, <3>2
  <2>7. IdsCounted'
    BY <2>2, <2>5, <2>6 DEF IInv, IdsCounted
  <2>8. TagsTyped'
    <3>1. name \in Labels
      BY <1>1 DEF Calls, CreateTag
    <3>2. new \in Tags
      BY <2>2, <3>1 DEF Tags
    <3> HIDE DEF new, next
    <3> QED
      BY <1>2, <2>1, <2>6, <3>2 DEF IInv, TagsTyped
  <2>9. Distinct'
    <3> SUFFICES ASSUME NEW t \in tags', NEW u \in tags',
                        t.id = u.id \/ (t.kind = u.kind /\ Lower[t.name] = Lower[u.name])
                 PROVE  t = u
      BY DEF Distinct
    <3>1. CASE t \in tags /\ u \in tags
      BY <3>1 DEF IInv, Distinct
    <3>2. \A v \in tags : v.id # new.id
      BY <2>2, <2>3
    <3>3. \A v \in tags : ~(v.kind = new.kind /\ Lower[v.name] = Lower[new.name])
      BY <1>4
    <3> QED
      BY <2>1, <3>1, <3>2, <3>3
  <2>10. CallsTyped'
    <3>1. Calls(Ids(tags)) \subseteq Calls(Ids(tags'))
      BY <2>6, CallsGrow
    <3>2. next \in Calls(Ids(tags'))
      BY <1>1, <2>6 DEF Calls
    <3> HIDE DEF next
    <3> QED
      BY <2>1, <3>1, <3>2 DEF IInv, CallsTyped, Go
  <2> QED
    BY <1>2, <2>7, <2>8, <2>9, <2>10 DEF IInv
<1> QED
  BY <1>3, <1>4

LEMMA CompareTagsIInv ==
  ASSUME IInv, NEW x \in Callers, CompareTags(x)
  PROVE  IInv'
<1> DEFINE c == call[x]
           current == Ids(Current(c.prompt))
           adds == IF c.op = "create" THEN c.chosen ELSE c.chosen \ current
           drops == IF c.op = "update" THEN current \ c.chosen ELSE {}
           next == [c EXCEPT !.at = "edit", !.adds = adds, !.drops = drops]
<1>1. c \in Calls(Ids(tags))
  BY Waiting DEF IInv, CompareTags
<1>2. current \subseteq Ids(tags)
  <2>1. Current(c.prompt) \in SUBSET tags
    BY DEF Current
  <2> QED
    BY <2>1, IdsOfSome
<1>3. adds \subseteq Ids(tags) /\ drops \subseteq Ids(tags)
  BY <1>1, <1>2 DEF Calls
<1>4. Go(x, next)
  BY DEF CompareTags
<1> HIDE DEF adds, drops
<1>5. next \in Calls(Ids(tags))
  BY <1>1, <1>3 DEF Calls
<1>6. MainTyped' /\ tags' = tags /\ taggings' = taggings
  BY DEF CompareTags, IInv, MainTyped
<1> HIDE DEF next
<1> QED
  BY <1>4, <1>5, <1>6, TagsStay DEF IInv, TagsTyped

LEMMA LinkingIInv ==
  ASSUME IInv, NEW x \in Callers, Link(x) \/ Unlink(x)
  PROVE  IInv'
<1>1. call[x] \in Calls(Ids(tags))
  BY Waiting DEF IInv, Link, Unlink
<1>2. MainTyped' /\ tags' = tags
  BY DEF Link, Unlink, IInv, MainTyped
<1>3. taggings \subseteq Prompts \X Ids(tags)
  BY DEF IInv, TagsTyped
<1>4. CASE Link(x)
  <2>1. PICK id \in call[x].adds :
          /\ taggings' = taggings \cup {<<call[x].prompt, id>>}
          /\ Go(x, [call[x] EXCEPT !.adds = @ \ {id}])
    BY <1>4 DEF Link
  <2>2. [call[x] EXCEPT !.adds = @ \ {id}] \in Calls(Ids(tags))
    BY <1>1 DEF Calls
  <2>3. <<call[x].prompt, id>> \in Prompts \X Ids(tags)
    BY <1>1 DEF Calls
  <2> QED
    BY <1>2, <1>3, <2>1, <2>2, <2>3, TagsStay
<1>5. CASE Unlink(x)
  <2>1. PICK id \in call[x].drops :
          /\ taggings' = taggings \ {<<call[x].prompt, id>>}
          /\ Go(x, [call[x] EXCEPT !.drops = @ \ {id}])
    BY <1>5 DEF Unlink
  <2>2. [call[x] EXCEPT !.drops = @ \ {id}] \in Calls(Ids(tags))
    BY <1>1 DEF Calls
  <2> QED
    BY <1>2, <1>3, <2>1, <2>2, TagsStay
<1> QED
  BY <1>4, <1>5

LEMMA EndingIInv ==
  ASSUME IInv, NEW x \in Callers, SetProject(x) \/ Return(x) \/ Fail(x)
  PROVE  IInv'
<1>1. MainTyped' /\ tags' = tags
  BY DEF SetProject, Return, Fail, IInv, MainTyped
<1>2. taggings \subseteq Prompts \X Ids(tags)
  BY DEF IInv, TagsTyped
<1>3. CASE Go(x, Idle) /\ taggings' = taggings
  BY <1>1, <1>2, <1>3, TagsStay
<1>4. CASE SetProject(x) /\ IsProject(call[x].project)
  <2>1. call[x] \in Calls(Ids(tags))
    BY <1>4, Waiting DEF IInv, SetProject, Edited
  <2>2. call[x].project \in Ids(tags)
    BY <1>4 DEF IsProject, Ids
  <2>3. <<call[x].prompt, call[x].project>> \in Prompts \X Ids(tags)
    BY <2>1, <2>2 DEF Calls
  <2>4. taggings' = taggings \cup {<<call[x].prompt, call[x].project>>}
    BY <1>4 DEF SetProject
  <2>5. Go(x, [call[x] EXCEPT !.project = None])
    BY <1>4 DEF SetProject
  <2>6. [call[x] EXCEPT !.project = None] \in Calls(Ids(tags))
    BY <2>1 DEF Calls
  <2> QED
    BY <1>1, <1>2, <2>3, <2>4, <2>5, <2>6, TagsStay
<1> QED
  BY <1>3, <1>4 DEF SetProject, Return, Fail

LEMMA MainIInv ==
  ASSUME IInv, NEW p \in Prompts,
         \/ \E trashed \in BOOLEAN : SetPromptTrashed(p, trashed)
         \/ PermanentlyDeletePrompt(p)
         \/ \E ns \in BackupLabels : RestoreBackup(p, ns)
  PROVE  IInv'
<1>1. tags' = tags /\ taggings' = taggings /\ call' = call
  BY DEF SetPromptTrashed, PermanentlyDeletePrompt, RestoreBackup
<1>2. MainTyped'
  <2>1. CASE \E trashed \in BOOLEAN : SetPromptTrashed(p, trashed)
    BY <2>1 DEF SetPromptTrashed, IInv, MainTyped
  <2>2. CASE PermanentlyDeletePrompt(p)
    BY <2>2 DEF PermanentlyDeletePrompt, IInv, MainTyped
  <2>3. CASE \E ns \in BackupLabels : RestoreBackup(p, ns)
    <3>1. \A ns \in BackupLabels : Keys(ns) \subseteq AllKeys
      BY BackupLabelsAreNames DEF Keys, AllKeys
    <3> QED
      BY <2>3, <3>1 DEF RestoreBackup, IInv, MainTyped
  <2> QED
    BY <2>1, <2>2, <2>3
<1>3. Ids(tags)' = Ids(tags)
  BY <1>1 DEF Ids
<1> QED
  BY <1>1, <1>2, <1>3 DEF IInv, TagsTyped, IdsCounted, Distinct, CallsTyped

-----------------------------------------------------------------------------
(* The project tags of the beginning *)

LEMMA InitIInv ==
  ASSUME TagInit
  PROVE  IInv
<1>1. PICK number \in [ProjectNames -> 1..Cardinality(ProjectNames)] :
        /\ \A m, n \in ProjectNames : number[m] = number[n] => m = n
        /\ tags = {[id |-> number[n], name |-> n, kind |-> "project"] : n \in ProjectNames}
  BY DEF TagInit
<1> DEFINE row == [n \in ProjectNames |-> [id |-> number[n], name |-> n, kind |-> "project"]]
<1>2. row \in Bijection(ProjectNames, tags)
  <2>1. row \in [ProjectNames -> tags]
    BY <1>1
  <2>2. \A m, n \in ProjectNames : row[m] = row[n] => m = n
    OBVIOUS
  <2>3. \A t \in tags : \E n \in ProjectNames : row[n] = t
    BY <1>1
  <2> HIDE DEF row
  <2> QED
    BY <2>1, <2>2, <2>3 DEF Bijection, Injection, Surjection, IsInjective
<1>3. /\ IsFiniteSet(tags)
      /\ Cardinality(tags) = Cardinality(ProjectNames)
      /\ Cardinality(ProjectNames) \in Nat
  BY <1>2, FewProjects, FS_Bijection, FS_CardinalityType DEF ExistsBijection
<1>4. ProjectNames \subseteq Names
  BY ProjectsApart
<1>5. IdsCounted
  BY <1>1, <1>3 DEF IdsCounted, Ids
<1>6. TagsTyped
  BY <1>1, <1>3, <1>4 DEF TagsTyped, Tags, TagInit
<1>7. Distinct
  <2>1. \A m, n \in ProjectNames : Lower[m] = Lower[n] => m = n
    BY <1>4, ProjectsApart
  <2> QED
    BY <1>1, <2>1 DEF Distinct
<1>8. MainTyped /\ CallsTyped
  BY DEF TagInit, MainTyped, CallsTyped
<1> QED
  BY <1>5, <1>6, <1>7, <1>8 DEF IInv

LEMMA NextIInv ==
  ASSUME IInv, [TagNext]_tagVars
  PROVE  IInv'
<1>1. CASE UNCHANGED tagVars
  BY <1>1 DEF tagVars, IInv, MainTyped, TagsTyped, IdsCounted, Distinct, CallsTyped, Ids
<1>2. CASE \E x \in Callers, p \in Prompts, ns \in LabelSets, j \in ProjectIds \cup {None} :
             BeginCreate(x, p, ns, j) \/ BeginUpdate(x, p, ns, j)
  BY <1>2, BeginningIInv
<1>3. CASE \E x \in Callers, p \in Prompts, j \in ProjectIds : BeginUpdateOfProject(x, p, j)
  BY <1>3, BeginUpdateOfProjectIInv
<1>4. CASE \E x \in Callers, p \in Prompts, ns \in LabelSets :
             BeginTag(x, p, ns) \/ BeginUntag(x, p, ns)
  BY <1>4, BeginningIInv
<1>5. CASE \E x \in Callers : ListTags(x) \/ CompareTags(x) \/ Link(x) \/ Unlink(x)
  BY <1>5, ListTagsIInv, CompareTagsIInv, LinkingIInv
<1>6. CASE \E x \in Callers, n \in Names : CreateTag(x, n)
  BY <1>6, CreateTagIInv
<1>7. CASE \E x \in Callers : SetProject(x) \/ Return(x) \/ Fail(x)
  BY <1>7, EndingIInv
<1>8. CASE \/ \E p \in Prompts, trashed \in BOOLEAN : SetPromptTrashed(p, trashed)
           \/ \E p \in Prompts : PermanentlyDeletePrompt(p)
           \/ \E p \in Prompts, ns \in BackupLabels : RestoreBackup(p, ns)
  BY <1>8, MainIInv
<1> QED
  BY <1>1, <1>2, <1>3, <1>4, <1>5, <1>6, <1>7, <1>8 DEF TagNext

(* Calls that overlap, list at one time and create at another, and fail    *)
(* anywhere, never leave two tags that one label could mean, two tags of   *)
(* one id or a tagging of a tag that is not there.                         *)
THEOREM TagsStayUnique == TagSpec => []TagNamesUnique
<1>1. TagInit => IInv
  BY InitIInv
<1>2. IInv /\ [TagNext]_tagVars => IInv'
  BY NextIInv
<1>3. IInv => TagNamesUnique
  <2>1. Tags \subseteq [id : Nat, name : Names, kind : {"label", "project"}]
    BY ProjectsApart DEF Tags, Labels
  <2> QED
    BY <2>1 DEF IInv, MainTyped, TagsTyped, Distinct, TagNamesUnique, TagTypeOK
<1> QED
  BY <1>1, <1>2, <1>3, PTL DEF TagSpec

-----------------------------------------------------------------------------
(* What the calls under way will still do *)

(* One spelling of one kind stands for a key.                              *)
LEMMA KeyIsOneTag ==
  ASSUME IInv, NEW t \in tags, NEW u \in tags, Lower[t.name] = Lower[u.name]
  PROVE  t = u
<1>1. t \in Tags /\ u \in Tags
  BY DEF IInv, TagsTyped
<1>2. CASE t.kind = u.kind
  BY <1>2 DEF IInv, Distinct
<1>3. CASE t.kind # u.kind
  BY <1>1, <1>3, ProjectsApart DEF Tags, Labels
<1> QED
  BY <1>2, <1>3

(* Whether tags of these ids have the key k.                               *)
Have(ts, ids, k) == \E t \in ts : t.id \in ids /\ Lower[t.name] = k

(* A call will still link a tag of the key k, or unlink one.               *)
WillLink(ts, c, k) ==
  \/ \E t \in ts : t.id = c.project /\ t.kind = "project" /\ Lower[t.name] = k
  \/ c.at = "edit" /\ Have(ts, c.adds, k)
  \/ c.at # "edit" /\ k \in Keys(c.names)

WillUnlink(ts, c, k) ==
  \/ c.at = "edit" /\ Have(ts, c.drops, k)
  \/ c.at # "edit" /\ c.op = "update" /\ k \notin Keys(c.names)

(* What ensureSharedTags has found or still has to create is what it was   *)
(* asked for, and no tag is both linked and unlinked.                      *)
Coherent(ts, c) ==
  /\ c.at = "ensure" =>
       \A k \in AllKeys : k \in Keys(c.names) <=> k \in Keys(c.missing) \/ Have(ts, c.chosen, k)
  /\ c.at = "edit" => c.adds \cap c.drops = {}

Marked(ts, gs, p, k) == \E t \in ts : <<p, t.id>> \in gs /\ Lower[t.name] = k

On(c, p) == c.at # "idle" /\ c.prompt = p

Linkers(ts, calls, p, k) == {x \in Callers : On(calls[x], p) /\ WillLink(ts, calls[x], k)}
Unlinkers(ts, calls, p, k) == {x \in Callers : On(calls[x], p) /\ WillUnlink(ts, calls[x], k)}

(* A label that the calls agree to have is there or will be linked, and a  *)
(* call that unlinks it links it again; one that they agree not to have    *)
(* will be unlinked if it is there; nobody touches the others.             *)
Kept(opinion, marked, linkers, unlinkers) ==
  /\ opinion = "in" => (marked \/ linkers # {}) /\ unlinkers \subseteq linkers
  /\ opinion = "out" => (marked => unlinkers # {}) /\ linkers = {}
  /\ opinion = "was in" => marked /\ linkers = {} /\ unlinkers = {}
  /\ opinion = "was out" => ~marked /\ linkers = {} /\ unlinkers = {}

Promises ==
  \A p \in Prompts, k \in AllKeys :
    Kept(burst[p][k], Marked(tags, taggings, p, k),
         Linkers(tags, call, p, k), Unlinkers(tags, call, p, k))

BurstTyped ==
  burst \in [Prompts -> [AllKeys -> {"in", "out", "was in", "was out", "open"}]]

CallsCoherent == \A x \in Callers : call[x].at # "idle" => Coherent(tags, call[x])

PInv == BurstTyped /\ CallsCoherent /\ Promises

LEMMA TagKeysAre ==
  ASSUME NEW S, NEW k
  PROVE  k \in TagKeys(S) <=> \E t \in S : Lower[t.name] = k
BY DEF TagKeys, Keys

LEMMA MarkedIsCurrent ==
  ASSUME NEW p, NEW k
  PROVE  k \in TagKeys(Current(p)) <=> Marked(tags, taggings, p, k)
<1>1. k \in TagKeys(Current(p)) <=> \E t \in Current(p) : Lower[t.name] = k
  BY TagKeysAre
<1> QED
  BY <1>1 DEF Current, Marked

(* The step of one caller that leaves the tags alone.                      *)
LEMMA OneCaller ==
  ASSUME CallsTyped, NEW x \in Callers, NEW c, Go(x, c), tags' = tags
  PROVE  /\ call'[x] = c
         /\ \A y \in Callers \ {x} : call'[y] = call[y]
         /\ \A p, k : Linkers(tags', call', p, k) =
              (Linkers(tags, call, p, k) \ {x})
                \cup {y \in {x} : On(c, p) /\ WillLink(tags, c, k)}
         /\ \A p, k : Unlinkers(tags', call', p, k) =
              (Unlinkers(tags, call, p, k) \ {x})
                \cup {y \in {x} : On(c, p) /\ WillUnlink(tags, c, k)}
         /\ CallsCoherent /\ (c.at # "idle" => Coherent(tags, c)) => CallsCoherent'
<1>1. call'[x] = c /\ \A y \in Callers \ {x} : call'[y] = call[y]
  BY DEF CallsTyped, Go
<1>2. \A p, k : Linkers(tags', call', p, k) =
              (Linkers(tags, call, p, k) \ {x})
                \cup {y \in {x} : On(c, p) /\ WillLink(tags, c, k)}
  BY <1>1 DEF Linkers
<1>3. \A p, k : Unlinkers(tags', call', p, k) =
              (Unlinkers(tags, call, p, k) \ {x})
                \cup {y \in {x} : On(c, p) /\ WillUnlink(tags, c, k)}
  BY <1>1 DEF Unlinkers
<1>4. CallsCoherent /\ (c.at # "idle" => Coherent(tags, c)) => CallsCoherent'
  BY <1>1 DEF CallsCoherent
<1> QED
  BY <1>1, <1>2, <1>3, <1>4

(* Another call that is to add a label, or to remove one.                  *)
LEMMA KeptIn ==
  ASSUME NEW b, NEW m \in BOOLEAN, NEW L, NEW U, Kept(b, m, L, U),
         NEW x, NEW X \in SUBSET {x}
  PROVE  Kept(Agreed(b, "in"), m, L \cup {x}, U \cup X)
BY DEF Kept, Agreed

LEMMA KeptOut ==
  ASSUME NEW b, NEW m \in BOOLEAN, NEW L, NEW U, Kept(b, m, L, U),
         NEW X, m => X # {}
  PROVE  Kept(Agreed(b, "out"), m, L, U \cup X)
BY DEF Kept, Agreed

(* A call that begins agrees with the others, or makes the label open.     *)
LEMMA BeginningKeeps ==
  ASSUME IInv, PInv, NEW x \in Callers, call[x] = Idle,
         NEW p \in Prompts, NEW adds, NEW drops, Asked(x, p, adds, drops),
         NEW c, On(c, p), Coherent(tags, c), Go(x, c),
         UNCHANGED <<tags, taggings>>,
         \A k \in AllKeys : k \in adds <=> WillLink(tags, c, k),
         \A k \in AllKeys : WillUnlink(tags, c, k) => k \in adds \cup drops,
         \A k \in drops : ~WillLink(tags, c, k),
         \A k \in drops : Marked(tags, taggings, p, k) => WillUnlink(tags, c, k)
  PROVE  PInv'
<1> DEFINE before == IF Others(x, p) THEN burst[p]
                     ELSE [k \in AllKeys |->
                             IF k \in TagKeys(Current(p)) THEN "was in" ELSE "was out"]
           after(k) == IF k \in adds THEN Agreed(before[k], "in")
                       ELSE IF k \in drops THEN Agreed(before[k], "out") ELSE before[k]
<1>1. burst' = [burst EXCEPT ![p] = [k \in AllKeys |-> after(k)]]
  BY DEF Asked
<1>2. before \in [AllKeys -> {"in", "out", "was in", "was out", "open"}]
  BY DEF PInv, BurstTyped
<1>3. \A k \in AllKeys : after(k) \in {"in", "out", "was in", "was out", "open"}
  BY <1>2 DEF Agreed
<1>4. BurstTyped'
  BY <1>1, <1>3 DEF PInv, BurstTyped
<1>5. x \notin {y \in Callers : call[y].at # "idle"}
  BY DEF Idle
<1>6. CallsCoherent'
  BY OneCaller DEF IInv, PInv
<1>7. \A q \in Prompts, k \in AllKeys :
        /\ Linkers(tags', call', q, k) =
             Linkers(tags, call, q, k) \cup {y \in {x} : q = p /\ WillLink(tags, c, k)}
        /\ Unlinkers(tags', call', q, k) =
             Unlinkers(tags, call, q, k) \cup {y \in {x} : q = p /\ WillUnlink(tags, c, k)}
  <2> SUFFICES ASSUME NEW q \in Prompts, NEW k \in AllKeys
               PROVE  /\ Linkers(tags', call', q, k) = Linkers(tags, call, q, k)
                            \cup {y \in {x} : q = p /\ WillLink(tags, c, k)}
                      /\ Unlinkers(tags', call', q, k) = Unlinkers(tags, call, q, k)
                            \cup {y \in {x} : q = p /\ WillUnlink(tags, c, k)}
    OBVIOUS
  <2>1. x \notin Linkers(tags, call, q, k) /\ x \notin Unlinkers(tags, call, q, k)
    BY <1>5 DEF Linkers, Unlinkers, On
  <2>2. On(c, q) <=> q = p
    BY DEF On
  <2> QED
    BY <2>1, <2>2, OneCaller DEF IInv
<1>8. \A k \in AllKeys :
        Kept(before[k], Marked(tags, taggings, p, k),
             Linkers(tags, call, p, k), Unlinkers(tags, call, p, k))
  <2> SUFFICES ASSUME NEW k \in AllKeys
               PROVE  Kept(before[k], Marked(tags, taggings, p, k),
                           Linkers(tags, call, p, k), Unlinkers(tags, call, p, k))
    OBVIOUS
  <2>1. CASE Others(x, p)
    BY <2>1 DEF PInv, Promises
  <2>2. CASE ~Others(x, p)
    <3>1. Linkers(tags, call, p, k) = {} /\ Unlinkers(tags, call, p, k) = {}
      BY <1>5, <2>2 DEF Others, Linkers, Unlinkers, On
    <3>2. before[k] = IF Marked(tags, taggings, p, k) THEN "was in" ELSE "was out"
      BY <2>2, MarkedIsCurrent
    <3> HIDE DEF before
    <3> QED
      BY <3>1, <3>2 DEF Kept
  <2> QED
    BY <2>1, <2>2
<1>9. Promises'
  <2> SUFFICES ASSUME NEW q \in Prompts, NEW k \in AllKeys
               PROVE  Kept(burst'[q][k], Marked(tags, taggings, q, k),
                           Linkers(tags', call', q, k), Unlinkers(tags', call', q, k))
    BY DEF Promises
  <2>1. CASE q # p
    <3>1. burst'[q] = burst[q]
      BY <1>1, <2>1 DEF PInv, BurstTyped
    <3>2. /\ {y \in {x} : q = p /\ WillLink(tags, c, k)} = {}
          /\ {y \in {x} : q = p /\ WillUnlink(tags, c, k)} = {}
      BY <2>1
    <3>3. /\ Linkers(tags', call', q, k) = Linkers(tags, call, q, k)
          /\ Unlinkers(tags', call', q, k) = Unlinkers(tags, call, q, k)
      <4>1. /\ Linkers(tags', call', q, k) = Linkers(tags, call, q, k)
                 \cup {y \in {x} : q = p /\ WillLink(tags, c, k)}
            /\ Unlinkers(tags', call', q, k) = Unlinkers(tags, call, q, k)
                 \cup {y \in {x} : q = p /\ WillUnlink(tags, c, k)}
        BY <1>7
      <4> QED
        BY <3>2, <4>1
    <3> QED
      BY <3>1, <3>3 DEF PInv, Promises
  <2>2. CASE q = p
    <3>1. burst'[q][k] = after(k)
      BY <1>1, <2>2 DEF PInv, BurstTyped
    <3>2. /\ Linkers(tags', call', q, k) = Linkers(tags, call, p, k)
               \cup {y \in {x} : WillLink(tags, c, k)}
          /\ Unlinkers(tags', call', q, k) = Unlinkers(tags, call, p, k)
               \cup {y \in {x} : WillUnlink(tags, c, k)}
      BY <1>7, <2>2
    <3>3. Kept(before[k], Marked(tags, taggings, p, k),
               Linkers(tags, call, p, k), Unlinkers(tags, call, p, k))
      BY <1>8
    <3> Marked(tags, taggings, p, k) \in BOOLEAN
      BY DEF Marked
    <3>4. CASE k \in adds
      <4>1. after(k) = Agreed(before[k], "in")
        BY <3>4
      <4> DEFINE unlinkers == {y \in {x} : WillUnlink(tags, c, k)}
      <4>2. {y \in {x} : WillLink(tags, c, k)} = {x} /\ unlinkers \subseteq {x}
        BY <3>4
      <4> HIDE DEF before, after, unlinkers
      <4>3. Kept(Agreed(before[k], "in"), Marked(tags, taggings, p, k),
                 Linkers(tags, call, p, k) \cup {x},
                 Unlinkers(tags, call, p, k) \cup unlinkers)
        BY <3>3, <4>2, KeptIn
      <4> QED
        BY <2>2, <3>1, <3>2, <4>1, <4>2, <4>3 DEF unlinkers
    <3>5. CASE k \notin adds /\ k \in drops
      <4>1. after(k) = Agreed(before[k], "out")
        BY <3>5
      <4>2. /\ {y \in {x} : WillLink(tags, c, k)} = {}
            /\ Marked(tags, taggings, p, k) => {y \in {x} : WillUnlink(tags, c, k)} # {}
        BY <3>5
      <4> HIDE DEF before, after
      <4> QED
        BY <2>2, <3>1, <3>2, <3>3, <4>1, <4>2, KeptOut
    <3>6. CASE k \notin adds /\ k \notin drops
      <4>1. after(k) = before[k]
        BY <3>6
      <4>2. /\ {y \in {x} : WillLink(tags, c, k)} = {}
            /\ {y \in {x} : WillUnlink(tags, c, k)} = {}
        BY <3>6
      <4> HIDE DEF before, after
      <4> QED
        BY <2>2, <3>1, <3>2, <3>3, <4>1, <4>2
    <3> QED
      BY <3>4, <3>5, <3>6
  <2> QED
    BY <2>1, <2>2
<1> QED
  BY <1>4, <1>6, <1>9 DEF PInv

LEMMA ProjectKeysAre ==
  ASSUME NEW j, NEW k
  PROVE  k \in ProjectKeys(j) <=>
           \E t \in tags : t.id = j /\ t.kind = "project" /\ Lower[t.name] = k
<1> DEFINE S == {t \in tags : t.id = j /\ t.kind = "project"}
<1>1. k \in TagKeys(S) <=> \E t \in S : Lower[t.name] = k
  BY TagKeysAre
<1> QED
  BY <1>1 DEF ProjectKeys

(* No tag is meant by an argument that is left out.                        *)
LEMMA NoneIsNoTag ==
  ASSUME IInv
  PROVE  \A t \in tags : t.id # None
BY NoneIsNoId DEF IInv, TagsTyped, Tags

LEMMA BeginCreatePromises ==
  ASSUME IInv, PInv, NEW x \in Callers, NEW p \in Prompts, NEW ns \in LabelSets,
         NEW j \in ProjectIds \cup {None}, BeginCreate(x, p, ns, j)
  PROVE  PInv'
<1> DEFINE c == Call("create", p, ns, j, "list")
           adds == Keys(ns) \cup ProjectKeys(j)
<1>1. call[x] = Idle /\ Go(x, c) /\ Asked(x, p, adds, {}) /\ UNCHANGED <<tags, taggings>>
  BY DEF BeginCreate
<1>2. On(c, p) /\ Coherent(tags, c)
  BY DEF On, Coherent, Call
<1>3. \A k \in AllKeys : k \in adds <=> WillLink(tags, c, k)
  BY ProjectKeysAre DEF WillLink, Call
<1>4. \A k \in AllKeys : ~WillUnlink(tags, c, k)
  BY DEF WillUnlink, Call
<1> HIDE DEF c, adds
<1> QED
  BY <1>1, <1>2, <1>3, <1>4, BeginningKeeps

LEMMA BeginUpdatePromises ==
  ASSUME IInv, PInv, NEW x \in Callers, NEW p \in Prompts, NEW ns \in LabelSets,
         NEW j \in ProjectIds \cup {None}, BeginUpdate(x, p, ns, j)
  PROVE  PInv'
<1> DEFINE c == Call("update", p, ns, j, "list")
           adds == Keys(ns) \cup ProjectKeys(j)
           drops == AllKeys \ adds
<1>1. call[x] = Idle /\ Go(x, c) /\ Asked(x, p, adds, drops) /\ UNCHANGED <<tags, taggings>>
  BY DEF BeginUpdate
<1>2. On(c, p) /\ Coherent(tags, c)
  BY DEF On, Coherent, Call
<1>3. \A k \in AllKeys : k \in adds <=> WillLink(tags, c, k)
  BY ProjectKeysAre DEF WillLink, Call
<1>4. \A k \in drops : k \in AllKeys /\ k \notin adds /\ k \notin Keys(ns)
  OBVIOUS
<1>5. \A k \in drops : WillUnlink(tags, c, k)
  BY <1>4 DEF WillUnlink, Call
<1>6. \A k \in AllKeys : k \in adds \cup drops
  OBVIOUS
<1> HIDE DEF c, adds, drops
<1> QED
  BY <1>1, <1>2, <1>3, <1>4, <1>5, <1>6, BeginningKeeps

LEMMA BeginUpdateOfProjectPromises ==
  ASSUME IInv, PInv, NEW x \in Callers, NEW p \in Prompts, NEW j \in ProjectIds,
         BeginUpdateOfProject(x, p, j)
  PROVE  PInv'
<1> DEFINE c == Call("update", p, {}, j, "edit")
<1>1. /\ call[x] = Idle /\ Go(x, c) /\ Asked(x, p, ProjectKeys(j), {})
      /\ UNCHANGED <<tags, taggings>>
  BY DEF BeginUpdateOfProject
<1>2. On(c, p) /\ Coherent(tags, c)
  BY DEF On, Coherent, Call
<1>3. \A k \in AllKeys : k \in ProjectKeys(j) <=> WillLink(tags, c, k)
  BY ProjectKeysAre DEF WillLink, Call, Have
<1>4. \A k \in AllKeys : ~WillUnlink(tags, c, k)
  BY DEF WillUnlink, Call, Have
<1> HIDE DEF c
<1> QED
  BY <1>1, <1>2, <1>3, <1>4, BeginningKeeps

LEMMA BeginTagPromises ==
  ASSUME IInv, PInv, NEW x \in Callers, NEW p \in Prompts, NEW ns \in LabelSets,
         BeginTag(x, p, ns)
  PROVE  PInv'
<1> DEFINE c == Call("tag", p, ns, None, "list")
<1>1. /\ call[x] = Idle /\ Go(x, c) /\ Asked(x, p, Keys(ns), {})
      /\ UNCHANGED <<tags, taggings>>
  BY DEF BeginTag
<1>2. On(c, p) /\ Coherent(tags, c)
  BY DEF On, Coherent, Call
<1>3. \A k \in AllKeys : k \in Keys(ns) <=> WillLink(tags, c, k)
  BY NoneIsNoTag DEF WillLink, Call
<1>4. \A k \in AllKeys : ~WillUnlink(tags, c, k)
  BY DEF WillUnlink, Call
<1> HIDE DEF c
<1> QED
  BY <1>1, <1>2, <1>3, <1>4, BeginningKeeps

LEMMA BeginUntagPromises ==
  ASSUME IInv, PInv, NEW x \in Callers, NEW p \in Prompts, NEW ns \in LabelSets,
         BeginUntag(x, p, ns)
  PROVE  PInv'
<1> DEFINE found == {t \in Current(p) : Lower[t.name] \in Keys(ns)}
           c == [Call("untag", p, ns, None, "edit") EXCEPT !.drops = Ids(found)]
<1>1. /\ call[x] = Idle /\ Go(x, c) /\ Asked(x, p, {}, Keys(ns))
      /\ UNCHANGED <<tags, taggings>>
  BY DEF BeginUntag
<1>2. /\ c.at = "edit" /\ c.prompt = p /\ c.project = None
      /\ c.adds = {} /\ c.drops = Ids(found)
  BY DEF Call
<1> HIDE DEF c, found
<1>3. On(c, p) /\ Coherent(tags, c)
  BY <1>2 DEF On, Coherent
<1>4. \A k : ~WillLink(tags, c, k)
  BY <1>2, NoneIsNoTag DEF WillLink, Have
<1>5. \A t \in tags : t.id \in Ids(found) <=> t \in found
  <2>1. \A t, u \in tags : t.id = u.id => t = u
    BY DEF IInv, Distinct
  <2>2. found \subseteq tags
    BY DEF found, Current
  <2> QED
    BY <2>1, <2>2 DEF Ids
<1>6. \A k : WillUnlink(tags, c, k) <=> \E t \in tags : t \in found /\ Lower[t.name] = k
  BY <1>2, <1>5 DEF WillUnlink, Have
<1>7. \A k : WillUnlink(tags, c, k) => k \in Keys(ns)
  BY <1>6 DEF found
<1>8. \A k \in Keys(ns) : Marked(tags, taggings, p, k) => WillUnlink(tags, c, k)
  BY <1>6 DEF Marked, found, Current
<1> QED
  BY <1>1, <1>3, <1>4, <1>7, <1>8, BeginningKeeps

-----------------------------------------------------------------------------
(* The steps of a call *)

(* What a step may do to one label of the prompt of its call: m is whether *)
(* the label is there; X and Y are {x} if the call will link and unlink it *)
(* after the step, and empty otherwise.                                    *)
LEMMA KeptByStep ==
  ASSUME NEW b, NEW L, NEW U, NEW x, NEW X \in SUBSET {x}, NEW Y \in SUBSET {x},
         NEW m0 \in BOOLEAN, NEW m1 \in BOOLEAN, Kept(b, m0, L, U),
         X \subseteq L, Y \subseteq U,
         x \in L /\ x \notin X => m1 /\ x \notin Y,
         x \in U /\ x \notin Y => ~m1,
         m1 /\ ~m0 => x \in L,
         m0 /\ ~m1 => x \in U /\ (x \in L => x \in X)
  PROVE  Kept(b, m1, (L \ {x}) \cup X, (U \ {x}) \cup Y)
<1> DEFINE M == (L \ {x}) \cup X
           V == (U \ {x}) \cup Y
<1>1. /\ \A y : y \in M <=> (y # x /\ y \in L) \/ (y = x /\ x \in X)
      /\ \A y : y \in V <=> (y # x /\ y \in U) \/ (y = x /\ x \in Y)
  OBVIOUS
<1> HIDE DEF M, V
<1>2. b = "in" => (m1 \/ M # {}) /\ V \subseteq M
  BY <1>1 DEF Kept
<1>3. b = "out" => (m1 => V # {}) /\ M = {}
  BY <1>1 DEF Kept
<1>4. b = "was in" => m1 /\ M = {} /\ V = {}
  BY <1>1 DEF Kept
<1>5. b = "was out" => ~m1 /\ M = {} /\ V = {}
  BY <1>1 DEF Kept
<1> QED
  BY <1>2, <1>3, <1>4, <1>5 DEF Kept, M, V

Linking(c, k) == On(c, c.prompt) /\ WillLink(tags, c, k)
Unlinking(c, k) == On(c, c.prompt) /\ WillUnlink(tags, c, k)

(* The calls on other prompts do not see a step.                           *)
LEMMA StepKeeps ==
  ASSUME IInv, PInv, NEW x \in Callers, NEW p \in Prompts, On(call[x], p),
         NEW c, Go(x, c), tags' = tags, burst' = burst,
         c.at # "idle" => c.prompt = p /\ Coherent(tags, c),
         \A q \in Prompts \ {p}, k \in AllKeys :
           Marked(tags, taggings', q, k) <=> Marked(tags, taggings, q, k),
         \A k \in AllKeys :
           /\ Linking(c, k) => Linking(call[x], k)
           /\ Unlinking(c, k) => Unlinking(call[x], k)
           /\ Linking(call[x], k) /\ ~Linking(c, k) =>
                Marked(tags, taggings', p, k) /\ ~Unlinking(c, k)
           /\ Unlinking(call[x], k) /\ ~Unlinking(c, k) => ~Marked(tags, taggings', p, k)
           /\ Marked(tags, taggings', p, k) /\ ~Marked(tags, taggings, p, k) =>
                Linking(call[x], k)
           /\ Marked(tags, taggings, p, k) /\ ~Marked(tags, taggings', p, k) =>
                Unlinking(call[x], k) /\ (Linking(call[x], k) => Linking(c, k))
  PROVE  PInv'
<1>1. BurstTyped' /\ CallsCoherent'
  BY OneCaller DEF IInv, PInv, BurstTyped
<1>2. CallsTyped
  BY DEF IInv
<1>3. Promises'
  <2> SUFFICES ASSUME NEW q \in Prompts, NEW k \in AllKeys
               PROVE  Kept(burst[q][k], Marked(tags, taggings', q, k),
                           Linkers(tags', call', q, k), Unlinkers(tags', call', q, k))
    BY DEF Promises
  <2> DEFINE L == Linkers(tags, call, q, k)
             U == Unlinkers(tags, call, q, k)
             link == On(c, q) /\ WillLink(tags, c, k)
             unlink == On(c, q) /\ WillUnlink(tags, c, k)
  <2>1. /\ Linkers(tags', call', q, k) = (L \ {x}) \cup {y \in {x} : link}
        /\ Unlinkers(tags', call', q, k) = (U \ {x}) \cup {y \in {x} : unlink}
    BY <1>2, OneCaller
  <2>2. Kept(burst[q][k], Marked(tags, taggings, q, k), L, U)
    BY DEF PInv, Promises
  <2>3. CASE q # p
    <3>1. x \notin L /\ x \notin U
      BY <2>3 DEF Linkers, Unlinkers, On
    <3>2. ~link /\ ~unlink
      BY <2>3 DEF On
    <3>3. Marked(tags, taggings', q, k) = Marked(tags, taggings, q, k)
      BY ZenonT(60), <2>3 DEF Marked
    <3> HIDE DEF L, U, link, unlink
    <3>4. (L \ {x}) \cup {y \in {x} : link} = L /\ (U \ {x}) \cup {y \in {x} : unlink} = U
      BY <3>1, <3>2
    <3> QED
      BY <2>1, <2>2, <3>3, <3>4
  <2>4. CASE q = p
    <3> DEFINE m0 == Marked(tags, taggings, q, k)
               m1 == Marked(tags, taggings', q, k)
               X == {y \in {x} : link}
               Y == {y \in {x} : unlink}
    <3>1. (x \in L <=> Linking(call[x], k)) /\ (x \in U <=> Unlinking(call[x], k))
      BY <2>4 DEF Linkers, Unlinkers, Linking, Unlinking, On
    <3>2. (x \in X <=> Linking(c, k)) /\ (x \in Y <=> Unlinking(c, k))
      BY <2>4 DEF Linking, Unlinking, On
    <3>3. /\ x \in X => x \in L
          /\ x \in Y => x \in U
          /\ x \in L /\ x \notin X => m1 /\ x \notin Y
          /\ x \in U /\ x \notin Y => ~m1
          /\ m1 /\ ~m0 => x \in L
          /\ m0 /\ ~m1 => x \in U /\ (x \in L => x \in X)
      <4> HIDE DEF L, U, X, Y
      <4> QED
        BY <2>4, <3>1, <3>2
    <3>4. m0 \in BOOLEAN /\ m1 \in BOOLEAN /\ X \subseteq {x} /\ Y \subseteq {x}
      BY DEF Marked
    <3>5. Kept(burst[q][k], m0, L, U)
      BY <2>2
    <3>6. Kept(burst[q][k], m1, (L \ {x}) \cup X, (U \ {x}) \cup Y)
      <4> HIDE DEF L, U, X, Y, m0, m1
      <4>1. X \subseteq L /\ Y \subseteq U
        BY <3>3, <3>4
      <4> QED
        BY <3>3, <3>4, <3>5, <4>1, KeptByStep
    <3> QED
      BY <2>1, <3>6
  <2> QED
    BY <2>3, <2>4
<1> QED
  BY <1>1, <1>3 DEF PInv

(* A call that fails promises nothing more.                                *)
LEMMA SpoiltKeeps ==
  ASSUME IInv, PInv, NEW x \in Callers, NEW p \in Prompts, On(call[x], p),
         Go(x, Idle), Spoilt(p), UNCHANGED <<tags, taggings>>
  PROVE  PInv'
<1>1. CallsTyped
  BY DEF IInv
<1>2. CallsCoherent'
  BY <1>1, OneCaller DEF PInv, Idle
<1>3. BurstTyped'
  BY DEF PInv, BurstTyped, Spoilt, Quiet
<1>4. Promises'
  <2> SUFFICES ASSUME NEW q \in Prompts, NEW k \in AllKeys
               PROVE  Kept(burst'[q][k], Marked(tags, taggings, q, k),
                           Linkers(tags', call', q, k), Unlinkers(tags', call', q, k))
    BY DEF Promises
  <2>1. CASE q = p
    <3>1. burst'[q][k] = "open"
      BY <2>1 DEF PInv, BurstTyped, Spoilt, Quiet
    <3> QED
      BY <3>1 DEF Kept
  <2>2. CASE q # p
    <3>1. burst'[q] = burst[q]
      BY <2>2 DEF PInv, BurstTyped, Spoilt
    <3>2. /\ \A y \in Callers \ {x} : call'[y] = call[y]
          /\ ~On(call'[x], q) /\ ~On(call[x], q)
      BY <1>1, <2>2, OneCaller DEF On, Idle
    <3>3. /\ Linkers(tags', call', q, k) = Linkers(tags, call, q, k)
          /\ Unlinkers(tags', call', q, k) = Unlinkers(tags, call, q, k)
      BY <3>2 DEF Linkers, Unlinkers
    <3> QED
      BY <3>1, <3>3 DEF PInv, Promises
  <2> QED
    BY <2>1, <2>2
<1> QED
  BY <1>2, <1>3, <1>4 DEF PInv

(* A step that links and unlinks nothing and leaves as much to do.         *)
LEMMA QuietStepKeeps ==
  ASSUME IInv, PInv, NEW x \in Callers, call[x].at # "idle",
         NEW c, Go(x, c), UNCHANGED <<tags, taggings, burst>>,
         On(c, call[x].prompt), Coherent(tags, c),
         \A k \in AllKeys : WillLink(tags, c, k) <=> WillLink(tags, call[x], k),
         \A k \in AllKeys : WillUnlink(tags, c, k) <=> WillUnlink(tags, call[x], k)
  PROVE  PInv'
<1>1. call[x].prompt \in Prompts
  BY Waiting DEF IInv, Calls
<1>2. On(call[x], call[x].prompt)
  BY DEF On
<1>3. c.at # "idle" /\ c.prompt = call[x].prompt
  BY DEF On
<1>4. \A k \in AllKeys :
        /\ Linking(c, k) <=> Linking(call[x], k)
        /\ Unlinking(c, k) <=> Unlinking(call[x], k)
  BY <1>2, <1>3 DEF Linking, Unlinking
<1> QED
  BY <1>1, <1>2, <1>3, <1>4, StepKeeps

LEMMA ListTagsPromises ==
  ASSUME IInv, PInv, NEW x \in Callers, ListTags(x)
  PROVE  PInv'
<1> DEFINE known == {t \in tags : Lower[t.name] \in Keys(call[x].names)}
           missing == {n \in call[x].names : Lower[n] \notin TagKeys(known)}
           chosen == {(CHOOSE t \in known : Lower[t.name] = k).id : k \in TagKeys(known)}
           c == [call[x] EXCEPT !.at = "ensure", !.missing = missing, !.chosen = chosen]
<1>1. call[x] \in Calls(Ids(tags)) /\ call[x].at = "list"
  BY Waiting DEF IInv, ListTags
<1>2. Go(x, c) /\ UNCHANGED <<tags, taggings, burst>>
  BY DEF ListTags
<1> HIDE DEF missing, chosen
<1>3. /\ c.at = "ensure" /\ c.missing = missing /\ c.chosen = chosen
      /\ c.prompt = call[x].prompt /\ c.names = call[x].names /\ c.op = call[x].op
      /\ c.project = call[x].project
  BY <1>1 DEF Calls
<1> HIDE DEF c
<1>4. \A k \in TagKeys(known) : \E t \in tags : t.id \in chosen /\ Lower[t.name] = k
  <2> SUFFICES ASSUME NEW k \in TagKeys(known)
               PROVE  \E t \in tags : t.id \in chosen /\ Lower[t.name] = k
    OBVIOUS
  <2>1. \E t \in known : Lower[t.name] = k
    BY TagKeysAre
  <2> DEFINE u == CHOOSE t \in known : Lower[t.name] = k
  <2>2. u \in known /\ Lower[u.name] = k
    BY <2>1
  <2>3. u.id \in chosen
    BY DEF chosen
  <2> QED
    BY <2>2, <2>3
<1>5. \A t \in tags : t.id \in chosen => t \in known
  <2> SUFFICES ASSUME NEW t \in tags, t.id \in chosen
               PROVE  t \in known
    OBVIOUS
  <2>1. PICK k \in TagKeys(known) : t.id = (CHOOSE v \in known : Lower[v.name] = k).id
    BY DEF chosen
  <2>2. \E v \in known : Lower[v.name] = k
    BY TagKeysAre
  <2> DEFINE u == CHOOSE v \in known : Lower[v.name] = k
  <2>3. u \in known
    BY <2>2
  <2>4. u = t
    BY <2>1, <2>3 DEF IInv, Distinct
  <2> QED
    BY <2>3, <2>4
<1>6. \A k \in AllKeys :
        k \in Keys(call[x].names) <=> k \in Keys(missing) \/ Have(tags, chosen, k)
  <2> SUFFICES ASSUME NEW k \in AllKeys
               PROVE  k \in Keys(call[x].names) <=> k \in Keys(missing) \/ Have(tags, chosen, k)
    OBVIOUS
  <2>1. Have(tags, chosen, k) => k \in Keys(call[x].names)
    BY <1>5 DEF Have
  <2>2. k \in Keys(missing) => k \in Keys(call[x].names)
    BY DEF Keys, missing
  <2>3. ASSUME k \in Keys(call[x].names), k \in TagKeys(known)
        PROVE  Have(tags, chosen, k)
    BY <1>4, <2>3 DEF Have
  <2>4. ASSUME k \in Keys(call[x].names), k \notin TagKeys(known)
        PROVE  k \in Keys(missing)
    BY <2>4 DEF Keys, missing
  <2> QED
    BY <2>1, <2>2, <2>3, <2>4
<1>7. Coherent(tags, c) /\ On(c, call[x].prompt)
  BY <1>3, <1>6 DEF Coherent, On
<1>8. \A k \in AllKeys :
        /\ WillLink(tags, c, k) <=> WillLink(tags, call[x], k)
        /\ WillUnlink(tags, c, k) <=> WillUnlink(tags, call[x], k)
  BY <1>1, <1>3 DEF WillLink, WillUnlink
<1> QED
  BY <1>1, <1>2, <1>7, <1>8, QuietStepKeeps

(* A call waits for a tag with the key of the name that it creates.        *)
LEMMA MadeIsCoherent ==
  ASSUME NEW ts, NEW c, c.at = "ensure", Coherent(ts, c), NEW name \in c.missing,
         NEW t \in ts, Lower[t.name] = Lower[name], \A u \in ts : u.id = t.id => u = t,
         NEW d, d.at = "ensure", d.names = c.names, d.missing = c.missing \ {name},
         d.chosen = c.chosen \cup {t.id}
  PROVE  Coherent(ts, d)
<1> SUFFICES ASSUME NEW k \in AllKeys
             PROVE  k \in Keys(d.names) <=> k \in Keys(d.missing) \/ Have(ts, d.chosen, k)
  BY DEF Coherent
<1>1. k \in Keys(c.names) <=> k \in Keys(c.missing) \/ Have(ts, c.chosen, k)
  BY DEF Coherent
<1>2. k \in Keys(c.missing) <=> k \in Keys(d.missing) \/ k = Lower[name]
  BY DEF Keys
<1>3. Have(ts, d.chosen, k) <=> Have(ts, c.chosen, k) \/ k = Lower[name]
  BY DEF Have
<1> QED
  BY <1>1, <1>2, <1>3

(* A tag that is new changes nothing that was said of the others.          *)
LEMMA NewTag ==
  ASSUME IInv, NEW new, new.id \notin Ids(tags), new.kind = "label"
  PROVE  /\ \A ids, k : ids \subseteq Ids(tags) =>
              (Have(tags \cup {new}, ids, k) <=> Have(tags, ids, k))
         /\ \A p, k : Marked(tags \cup {new}, taggings, p, k) <=> Marked(tags, taggings, p, k)
         /\ \A c, k : c \in Calls(Ids(tags)) =>
              /\ WillLink(tags \cup {new}, c, k) <=> WillLink(tags, c, k)
              /\ WillUnlink(tags \cup {new}, c, k) <=> WillUnlink(tags, c, k)
         /\ \A c : c \in Calls(Ids(tags)) =>
              (Coherent(tags \cup {new}, c) <=> Coherent(tags, c))
<1>1. \A ids, k : ids \subseteq Ids(tags) =>
         (Have(tags \cup {new}, ids, k) <=> Have(tags, ids, k))
  BY DEF Have
<1>2. \A p, k : Marked(tags \cup {new}, taggings, p, k) <=> Marked(tags, taggings, p, k)
  BY DEF Marked, IInv, TagsTyped
<1>3. \A c : c \in Calls(Ids(tags)) =>
        /\ c.adds \subseteq Ids(tags) /\ c.drops \subseteq Ids(tags)
        /\ c.chosen \subseteq Ids(tags)
  BY DEF Calls
<1>4. \A c, k : c \in Calls(Ids(tags)) =>
        /\ WillLink(tags \cup {new}, c, k) <=> WillLink(tags, c, k)
        /\ WillUnlink(tags \cup {new}, c, k) <=> WillUnlink(tags, c, k)
  BY <1>1, <1>3 DEF WillLink, WillUnlink
<1>5. \A c : c \in Calls(Ids(tags)) => (Coherent(tags \cup {new}, c) <=> Coherent(tags, c))
  BY <1>1, <1>3 DEF Coherent
<1> QED
  BY <1>1, <1>2, <1>4, <1>5

LEMMA CreateTagPromises ==
  ASSUME IInv, PInv, IInv', NEW x \in Callers, NEW name \in Names, CreateTag(x, name)
  PROVE  PInv'
<1> DEFINE same == {t \in tags : t.kind = "label" /\ Lower[t.name] = Lower[name]}
           id == Cardinality(tags) + 1
           new == [id |-> id, name |-> name, kind |-> "label"]
<1>1. /\ call[x] \in Calls(Ids(tags)) /\ call[x].at = "ensure" /\ name \in call[x].missing
      /\ UNCHANGED <<taggings, burst>>
  BY Waiting DEF IInv, CreateTag
<1>2. Coherent(tags, call[x])
  BY <1>1 DEF PInv, CallsCoherent
<1>3. CASE same # {}
  <2>1. PICK t \in same : tags' = tags /\ Made(x, name, t.id)
    BY <1>3 DEF CreateTag
  <2> DEFINE c == [call[x] EXCEPT !.missing = @ \ {name}, !.chosen = @ \cup {t.id}]
  <2>2. Go(x, c)
    BY <2>1 DEF Made
  <2>3. /\ c.at = "ensure" /\ c.missing = call[x].missing \ {name}
        /\ c.chosen = call[x].chosen \cup {t.id}
        /\ c.prompt = call[x].prompt /\ c.names = call[x].names /\ c.op = call[x].op
        /\ c.project = call[x].project
    BY <1>1 DEF Calls
  <2> HIDE DEF c
  <2>4. t \in tags /\ Lower[t.name] = Lower[name] /\ \A u \in tags : u.id = t.id => u = t
    BY DEF IInv, Distinct
  <2>5. Coherent(tags, c)
    BY <1>1, <1>2, <2>3, <2>4, MadeIsCoherent
  <2>6. \A k \in AllKeys :
          /\ WillLink(tags, c, k) <=> WillLink(tags, call[x], k)
          /\ WillUnlink(tags, c, k) <=> WillUnlink(tags, call[x], k)
    BY <1>1, <2>3 DEF WillLink, WillUnlink
  <2>7. On(c, call[x].prompt)
    BY <2>3 DEF On
  <2> QED
    BY <1>1, <2>1, <2>2, <2>5, <2>6, <2>7, QuietStepKeeps
<1>4. CASE same = {}
  <2> DEFINE c == [call[x] EXCEPT !.missing = @ \ {name}, !.chosen = @ \cup {id}]
  <2>1. tags' = tags \cup {new} /\ Go(x, c)
    BY <1>4 DEF CreateTag, Made
  <2>2. id \notin Ids(tags)
    BY FS_CardinalityType DEF IInv, IdsCounted
  <2>3. /\ c.at = "ensure" /\ c.missing = call[x].missing \ {name}
        /\ c.chosen = call[x].chosen \cup {id}
        /\ c.prompt = call[x].prompt /\ c.names = call[x].names /\ c.op = call[x].op
        /\ c.project = call[x].project
    BY <1>1 DEF Calls
  <2>4. new.id = id /\ new.kind = "label" /\ new.name = name
    OBVIOUS
  <2> HIDE DEF c, id, new
  <2>5. call'[x] = c /\ \A y \in Callers \ {x} : call'[y] = call[y]
    BY <2>1 DEF IInv, CallsTyped, Go
  <2>6. \A y \in Callers : call[y].at # "idle" => call[y] \in Calls(Ids(tags))
    BY Waiting DEF IInv
  <2>7. CallsCoherent'
    <3>1. Coherent(tags', call[x])
      BY <1>1, <1>2, <2>1, <2>2, <2>4, NewTag
    <3>2. new \in tags' /\ \A u \in tags' : u.id = new.id => u = new
      BY <2>1 DEF IInv, Distinct
    <3>3. Coherent(tags', c)
      BY <1>1, <2>3, <2>4, <3>1, <3>2, MadeIsCoherent
    <3>4. \A y \in Callers \ {x} : call[y].at # "idle" => Coherent(tags', call[y])
      BY <2>1, <2>2, <2>4, <2>6, NewTag DEF PInv, CallsCoherent
    <3> QED
      BY <2>5, <3>3, <3>4 DEF CallsCoherent
  <2>8. \A y \in Callers : \A p, k :
          /\ On(call'[y], p) <=> On(call[y], p)
          /\ On(call[y], p) => (WillLink(tags', call'[y], k) <=> WillLink(tags, call[y], k))
          /\ On(call[y], p) => (WillUnlink(tags', call'[y], k) <=> WillUnlink(tags, call[y], k))
    <3> SUFFICES ASSUME NEW y \in Callers, NEW p, NEW k
                 PROVE  /\ On(call'[y], p) <=> On(call[y], p)
                        /\ On(call[y], p) =>
                             (WillLink(tags', call'[y], k) <=> WillLink(tags, call[y], k))
                        /\ On(call[y], p) =>
                             (WillUnlink(tags', call'[y], k) <=> WillUnlink(tags, call[y], k))
      OBVIOUS
    <3>1. On(call[y], p) =>
            /\ WillLink(tags', call[y], k) <=> WillLink(tags, call[y], k)
            /\ WillUnlink(tags', call[y], k) <=> WillUnlink(tags, call[y], k)
      BY <2>1, <2>2, <2>4, <2>6, NewTag DEF On
    <3>2. CASE y # x
      BY <2>5, <3>1, <3>2
    <3>3. CASE y = x
      <4>1. /\ WillLink(tags', c, k) <=> WillLink(tags', call[x], k)
            /\ WillUnlink(tags', c, k) <=> WillUnlink(tags', call[x], k)
        BY <1>1, <2>3 DEF WillLink, WillUnlink
      <4>2. On(c, p) <=> On(call[x], p)
        BY <1>1, <2>3 DEF On
      <4> QED
        BY <2>5, <3>1, <3>3, <4>1, <4>2
    <3> QED
      BY <3>2, <3>3
  <2>9. \A p, k :
          /\ Linkers(tags', call', p, k) = Linkers(tags, call, p, k)
          /\ Unlinkers(tags', call', p, k) = Unlinkers(tags, call, p, k)
    BY <2>8 DEF Linkers, Unlinkers
  <2>10. \A p, k : Marked(tags', taggings', p, k) = Marked(tags, taggings, p, k)
    <3>1. \A p, k : Marked(tags', taggings', p, k) <=> Marked(tags, taggings, p, k)
      BY <1>1, <2>1, <2>2, <2>4, NewTag
    <3> QED
      BY <3>1 DEF Marked
  <2> QED
    BY ZenonT(60), <1>1, <2>7, <2>9, <2>10 DEF PInv, Promises, BurstTyped
<1> QED
  BY <1>3, <1>4

LEMMA CompareTagsPromises ==
  ASSUME IInv, PInv, NEW x \in Callers, CompareTags(x)
  PROVE  PInv'
<1> DEFINE c0 == call[x]
           p == c0.prompt
           current == Ids(Current(p))
           adds == IF c0.op = "create" THEN c0.chosen ELSE c0.chosen \ current
           drops == IF c0.op = "update" THEN current \ c0.chosen ELSE {}
           c == [c0 EXCEPT !.at = "edit", !.adds = adds, !.drops = drops]
<1>1. c0 \in Calls(Ids(tags)) /\ c0.at = "ensure" /\ c0.missing = {}
  BY Waiting DEF IInv, CompareTags
<1>2. Go(x, c) /\ UNCHANGED <<tags, taggings, burst>>
  BY DEF CompareTags
<1> HIDE DEF adds, drops
<1>3. /\ c.at = "edit" /\ c.adds = adds /\ c.drops = drops
      /\ c.prompt = p /\ c.project = c0.project
  BY <1>1 DEF Calls
<1>4. p \in Prompts /\ On(c0, p) /\ On(c, p)
  BY <1>1, <1>3 DEF Calls, On
<1> HIDE DEF c
<1>5. \A k \in AllKeys : k \in Keys(c0.names) <=> Have(tags, c0.chosen, k)
  <2>1. Coherent(tags, c0)
    BY <1>1 DEF PInv, CallsCoherent
  <2>2. Keys(c0.missing) = {}
    BY <1>1 DEF Keys
  <2> QED
    BY <1>1, <2>1, <2>2 DEF Coherent
<1>6. \A t \in tags : t.id \in current <=> <<p, t.id>> \in taggings
  BY DEF IInv, Distinct, Current, Ids
<1>7. Coherent(tags, c)
  BY <1>3 DEF Coherent, adds, drops
<1>8. ASSUME NEW k \in AllKeys
      PROVE  /\ WillLink(tags, c, k) => WillLink(tags, c0, k)
             /\ WillUnlink(tags, c, k) => WillUnlink(tags, c0, k)
             /\ WillLink(tags, c0, k) /\ ~WillLink(tags, c, k) =>
                  Marked(tags, taggings, p, k) /\ ~WillUnlink(tags, c, k)
             /\ WillUnlink(tags, c0, k) /\ ~WillUnlink(tags, c, k) =>
                  ~Marked(tags, taggings, p, k)
  <2> DEFINE ofProject ==
        \E t \in tags : t.id = c0.project /\ t.kind = "project" /\ Lower[t.name] = k
  <2>1. WillLink(tags, c0, k) <=> ofProject \/ Have(tags, c0.chosen, k)
    BY <1>1, <1>5 DEF WillLink
  <2>2. WillLink(tags, c, k) <=> ofProject \/ Have(tags, adds, k)
    BY <1>3 DEF WillLink
  <2>3. WillUnlink(tags, c0, k) <=> c0.op = "update" /\ ~Have(tags, c0.chosen, k)
    BY <1>1, <1>5 DEF WillUnlink
  <2>4. WillUnlink(tags, c, k) <=> Have(tags, drops, k)
    BY <1>3 DEF WillUnlink
  <2> HIDE DEF ofProject
  <2>5. Have(tags, adds, k) => Have(tags, c0.chosen, k)
    BY DEF Have, adds
  <2>6. Have(tags, c0.chosen, k) /\ ~Have(tags, adds, k) => Marked(tags, taggings, p, k)
    BY <1>6 DEF Have, adds, Marked
  <2>7. Have(tags, drops, k) => c0.op = "update" /\ ~Have(tags, c0.chosen, k)
    BY KeyIsOneTag DEF Have, drops
  <2>8. c0.op = "update" /\ ~Have(tags, c0.chosen, k) /\ Marked(tags, taggings, p, k) =>
          Have(tags, drops, k)
    BY <1>6 DEF Have, drops, Marked
  <2> QED
    BY <2>1, <2>2, <2>3, <2>4, <2>5, <2>6, <2>7, <2>8
<1>9. \A k : /\ Linking(c, k) <=> WillLink(tags, c, k)
             /\ Unlinking(c, k) <=> WillUnlink(tags, c, k)
             /\ Linking(c0, k) <=> WillLink(tags, c0, k)
             /\ Unlinking(c0, k) <=> WillUnlink(tags, c0, k)
  BY <1>3, <1>4 DEF Linking, Unlinking
<1>10. c.at # "idle"
  BY <1>3
<1>11. taggings' = taggings
  BY <1>2
<1> QED
  BY <1>2, <1>3, <1>4, <1>7, <1>8, <1>9, <1>10, <1>11, StepKeeps

(* One tag more, or one less.                                              *)
LEMMA MarkedByLink ==
  ASSUME IInv, NEW t \in tags, NEW p
  PROVE  /\ \A q, k : Marked(tags, taggings \cup {<<p, t.id>>}, q, k) <=>
              Marked(tags, taggings, q, k) \/ (q = p /\ k = Lower[t.name])
         /\ \A q, k : Marked(tags, taggings \ {<<p, t.id>>}, q, k) <=>
              Marked(tags, taggings, q, k) /\ ~(q = p /\ k = Lower[t.name])
<1>1. \A u \in tags : u.id = t.id => u = t
  BY DEF IInv, Distinct
<1>2. \A u \in tags : Lower[u.name] = Lower[t.name] => u = t
  BY KeyIsOneTag
<1>3. \A q, k : Marked(tags, taggings \cup {<<p, t.id>>}, q, k) <=>
         Marked(tags, taggings, q, k) \/ (q = p /\ k = Lower[t.name])
  BY <1>1 DEF Marked
<1>4. \A q, k : Marked(tags, taggings \ {<<p, t.id>>}, q, k) <=>
         Marked(tags, taggings, q, k) /\ ~(q = p /\ k = Lower[t.name])
  BY <1>1, <1>2 DEF Marked
<1> QED
  BY <1>3, <1>4

LEMMA LinkPromises ==
  ASSUME IInv, PInv, NEW x \in Callers, Link(x)
  PROVE  PInv'
<1> DEFINE c0 == call[x]
           p == c0.prompt
<1>1. c0 \in Calls(Ids(tags)) /\ c0.at = "edit" /\ UNCHANGED <<tags, burst>>
  BY Waiting DEF IInv, Link
<1>2. PICK id \in c0.adds :
        /\ taggings' = taggings \cup {<<p, id>>}
        /\ Go(x, [c0 EXCEPT !.adds = @ \ {id}])
  BY DEF Link
<1> DEFINE c == [c0 EXCEPT !.adds = @ \ {id}]
<1>3. /\ c.at = "edit" /\ c.adds = c0.adds \ {id} /\ c.drops = c0.drops
      /\ c.prompt = p /\ c.project = c0.project
  BY <1>1 DEF Calls
<1>4. p \in Prompts /\ On(c0, p) /\ On(c, p) /\ c.at # "idle"
  BY <1>1, <1>3 DEF Calls, On
<1>5. Go(x, c)
  BY <1>2
<1> HIDE DEF c
<1>6. PICK t \in tags : t.id = id
  BY <1>1, <1>2 DEF Calls, Ids
<1>7. Coherent(tags, c) /\ id \notin c0.drops
  BY <1>1, <1>2, <1>3 DEF PInv, CallsCoherent, Coherent
<1>8. \A q, k : Marked(tags, taggings', q, k) <=>
         Marked(tags, taggings, q, k) \/ (q = p /\ k = Lower[t.name])
  BY <1>2, <1>6, MarkedByLink
<1>9. ASSUME NEW k \in AllKeys
      PROVE  /\ WillLink(tags, c, k) => WillLink(tags, c0, k)
             /\ WillLink(tags, c0, k) /\ ~WillLink(tags, c, k) => k = Lower[t.name]
             /\ WillUnlink(tags, c, k) <=> WillUnlink(tags, c0, k)
             /\ WillUnlink(tags, c, k) => k # Lower[t.name]
             /\ k = Lower[t.name] => WillLink(tags, c0, k)
  <2> DEFINE ofProject ==
        \E u \in tags : u.id = c0.project /\ u.kind = "project" /\ Lower[u.name] = k
  <2>1. WillLink(tags, c0, k) <=> ofProject \/ Have(tags, c0.adds, k)
    BY <1>1 DEF WillLink
  <2>2. WillLink(tags, c, k) <=> ofProject \/ Have(tags, c.adds, k)
    BY <1>3 DEF WillLink
  <2>3. /\ WillUnlink(tags, c0, k) <=> Have(tags, c0.drops, k)
        /\ WillUnlink(tags, c, k) <=> Have(tags, c0.drops, k)
    BY <1>1, <1>3 DEF WillUnlink
  <2> HIDE DEF ofProject
  <2>4. Have(tags, c.adds, k) => Have(tags, c0.adds, k)
    BY <1>3 DEF Have
  <2>5. Have(tags, c0.adds, k) /\ ~Have(tags, c.adds, k) => k = Lower[t.name]
    BY <1>3, <1>6 DEF Have, IInv, Distinct
  <2>6. Have(tags, c0.drops, k) => k # Lower[t.name]
    BY <1>6, <1>7, KeyIsOneTag DEF Have
  <2>7. k = Lower[t.name] => Have(tags, c0.adds, k)
    BY <1>2, <1>6 DEF Have
  <2> QED
    BY <2>1, <2>2, <2>3, <2>4, <2>5, <2>6, <2>7
<1>10. \A k : /\ Linking(c, k) <=> WillLink(tags, c, k)
              /\ Unlinking(c, k) <=> WillUnlink(tags, c, k)
              /\ Linking(c0, k) <=> WillLink(tags, c0, k)
              /\ Unlinking(c0, k) <=> WillUnlink(tags, c0, k)
  BY <1>3, <1>4 DEF Linking, Unlinking
<1>11. tags' = tags /\ burst' = burst
  BY <1>1
<1> QED
  BY <1>3, <1>4, <1>5, <1>7, <1>8, <1>9, <1>10, <1>11, StepKeeps

LEMMA UnlinkPromises ==
  ASSUME IInv, PInv, NEW x \in Callers, Unlink(x)
  PROVE  PInv'
<1> DEFINE c0 == call[x]
           p == c0.prompt
<1>1. /\ c0 \in Calls(Ids(tags)) /\ c0.at = "edit" /\ c0.adds = {}
      /\ UNCHANGED <<tags, burst>>
  BY Waiting DEF IInv, Unlink
<1>2. PICK id \in c0.drops :
        /\ taggings' = taggings \ {<<p, id>>}
        /\ Go(x, [c0 EXCEPT !.drops = @ \ {id}])
  BY DEF Unlink
<1> DEFINE c == [c0 EXCEPT !.drops = @ \ {id}]
<1>3. /\ c.at = "edit" /\ c.adds = {} /\ c.drops = c0.drops \ {id}
      /\ c.prompt = p /\ c.project = c0.project
  BY <1>1 DEF Calls
<1>4. p \in Prompts /\ On(c0, p) /\ On(c, p) /\ c.at # "idle"
  BY <1>1, <1>3 DEF Calls, On
<1>5. Go(x, c)
  BY <1>2
<1> HIDE DEF c
<1>6. PICK t \in tags : t.id = id
  BY <1>1, <1>2 DEF Calls, Ids
<1>7. Coherent(tags, c)
  BY <1>3 DEF Coherent
<1>8. \A q, k : Marked(tags, taggings', q, k) <=>
         Marked(tags, taggings, q, k) /\ ~(q = p /\ k = Lower[t.name])
  BY <1>2, <1>6, MarkedByLink
<1>9. ASSUME NEW k \in AllKeys
      PROVE  /\ WillLink(tags, c, k) <=> WillLink(tags, c0, k)
             /\ WillUnlink(tags, c, k) => WillUnlink(tags, c0, k)
             /\ WillUnlink(tags, c0, k) /\ ~WillUnlink(tags, c, k) => k = Lower[t.name]
             /\ k = Lower[t.name] => WillUnlink(tags, c0, k)
  <2>1. WillLink(tags, c, k) <=> WillLink(tags, c0, k)
    BY <1>1, <1>3 DEF WillLink
  <2>2. /\ WillUnlink(tags, c0, k) <=> Have(tags, c0.drops, k)
        /\ WillUnlink(tags, c, k) <=> Have(tags, c.drops, k)
    BY <1>1, <1>3 DEF WillUnlink
  <2>3. Have(tags, c.drops, k) => Have(tags, c0.drops, k)
    BY <1>3 DEF Have
  <2>4. Have(tags, c0.drops, k) /\ ~Have(tags, c.drops, k) => k = Lower[t.name]
    BY <1>3, <1>6 DEF Have, IInv, Distinct
  <2>5. k = Lower[t.name] => Have(tags, c0.drops, k)
    BY <1>2, <1>6 DEF Have
  <2> QED
    BY <2>1, <2>2, <2>3, <2>4, <2>5
<1>10. \A k : /\ Linking(c, k) <=> WillLink(tags, c, k)
              /\ Unlinking(c, k) <=> WillUnlink(tags, c, k)
              /\ Linking(c0, k) <=> WillLink(tags, c0, k)
              /\ Unlinking(c0, k) <=> WillUnlink(tags, c0, k)
  BY <1>3, <1>4 DEF Linking, Unlinking
<1>11. tags' = tags /\ burst' = burst
  BY <1>1
<1> QED
  BY <1>3, <1>4, <1>5, <1>7, <1>8, <1>9, <1>10, <1>11, StepKeeps

LEMMA SetProjectPromises ==
  ASSUME IInv, PInv, NEW x \in Callers, SetProject(x)
  PROVE  PInv'
<1> DEFINE c0 == call[x]
           p == c0.prompt
           c == [c0 EXCEPT !.project = None]
<1>1. /\ c0 \in Calls(Ids(tags)) /\ c0.at = "edit" /\ c0.adds = {} /\ c0.drops = {}
      /\ tags' = tags
  BY Waiting DEF IInv, SetProject, Edited
<1>2. p \in Prompts /\ On(c0, p)
  BY <1>1 DEF Calls, On
<1>3. CASE ~IsProject(c0.project)
  BY <1>1, <1>2, <1>3, SpoiltKeeps DEF SetProject
<1>4. CASE IsProject(c0.project)
  <2>1. Go(x, c) /\ burst' = burst /\ taggings' = taggings \cup {<<p, c0.project>>}
    BY <1>4 DEF SetProject
  <2>2. PICK t \in tags : t.id = c0.project /\ t.kind = "project"
    BY <1>4 DEF IsProject
  <2>3. /\ c.at = "edit" /\ c.adds = {} /\ c.drops = {} /\ c.prompt = p /\ c.project = None
    BY <1>1 DEF Calls
  <2> HIDE DEF c
  <2>4. On(c, p) /\ Coherent(tags, c)
    BY <2>3 DEF On, Coherent
  <2>5. \A q, k : Marked(tags, taggings', q, k) <=>
           Marked(tags, taggings, q, k) \/ (q = p /\ k = Lower[t.name])
    BY ZenonT(60), <2>1, <2>2, MarkedByLink
  <2>6. \A k : ~WillLink(tags, c, k) /\ ~WillUnlink(tags, c, k) /\ ~WillUnlink(tags, c0, k)
    BY <1>1, <2>3, NoneIsNoTag DEF WillLink, WillUnlink, Have
  <2>7. \A k : WillLink(tags, c0, k) <=> k = Lower[t.name]
    BY <1>1, <2>2 DEF WillLink, Have, IInv, Distinct
  <2>8. \A k : /\ ~Linking(c, k) /\ ~Unlinking(c, k) /\ ~Unlinking(c0, k)
               /\ Linking(c0, k) <=> k = Lower[t.name]
    BY <1>2, <2>6, <2>7 DEF Linking, Unlinking
  <2>9. c.at # "idle" /\ c.prompt = p
    BY <2>3
  <2>10. Go(x, c) /\ tags' = tags /\ burst' = burst
    BY <1>1, <2>1
  <2>11. \A k : Marked(tags, taggings', p, k) <=> Marked(tags, taggings, p, k) \/ Linking(c0, k)
    BY <2>5, <2>8
  <2> QED
    BY <1>2, <2>4, <2>5, <2>8, <2>9, <2>10, <2>11, StepKeeps
<1> QED
  BY <1>3, <1>4

(* A call that is done has nothing left to link or to unlink.              *)
LEMMA DoneHasDone ==
  ASSUME IInv, NEW x \in Callers, AllDone(x)
  PROVE  \A k : ~WillLink(tags, call[x], k) /\ ~WillUnlink(tags, call[x], k)
BY NoneIsNoTag DEF AllDone, Edited, WillLink, WillUnlink, Have

LEMMA EndingPromises ==
  ASSUME IInv, PInv, NEW x \in Callers, Return(x) \/ Fail(x)
  PROVE  PInv'
<1> DEFINE p == call[x].prompt
<1>1. call[x].at # "idle" /\ Go(x, Idle) /\ UNCHANGED <<tags, taggings>>
  BY DEF Return, Fail, AllDone, Edited, IInv, CallsTyped, Calls
<1>2. p \in Prompts /\ On(call[x], p)
  BY <1>1, Waiting DEF IInv, Calls, On
<1>3. CASE Spoilt(p)
  BY <1>1, <1>2, <1>3, SpoiltKeeps
<1>4. CASE AllDone(x) /\ burst' = burst
  <2>1. \A k : /\ ~Linking(call[x], k) /\ ~Unlinking(call[x], k)
               /\ ~Linking(Idle, k) /\ ~Unlinking(Idle, k)
    BY <1>4, DoneHasDone DEF Linking, Unlinking, On, Idle
  <2>2. Idle.at = "idle"
    BY DEF Idle
  <2>3. taggings' = taggings /\ tags' = tags
    BY <1>1
  <2> QED
    BY <1>1, <1>2, <1>4, <2>1, <2>2, <2>3, StepKeeps
<1> QED
  BY <1>3, <1>4 DEF Return, Fail

LEMMA InitPromises ==
  ASSUME TagInit
  PROVE  PInv
<1>1. burst \in [Prompts -> [AllKeys -> {"open"}]]
  BY DEF TagInit, Quiet
<1>2. BurstTyped
  BY ZenonT(60), <1>1 DEF BurstTyped
<1>3. CallsCoherent
  BY DEF TagInit, CallsCoherent, Idle
<1>4. Promises
  BY <1>1 DEF Promises, Kept
<1> QED
  BY <1>2, <1>3, <1>4 DEF PInv

LEMMA NextPromises ==
  ASSUME IInv, PInv, IInv', [TagNext]_tagVars
  PROVE  PInv'
<1>1. CASE UNCHANGED <<tags, taggings, call, burst>>
  BY <1>1 DEF PInv, BurstTyped, CallsCoherent, Promises
<1>2. CASE \E x \in Callers, p \in Prompts, ns \in LabelSets, j \in ProjectIds \cup {None} :
             BeginCreate(x, p, ns, j) \/ BeginUpdate(x, p, ns, j)
  BY <1>2, BeginCreatePromises, BeginUpdatePromises
<1>3. CASE \E x \in Callers, p \in Prompts, j \in ProjectIds : BeginUpdateOfProject(x, p, j)
  BY <1>3, BeginUpdateOfProjectPromises
<1>4. CASE \E x \in Callers, p \in Prompts, ns \in LabelSets :
             BeginTag(x, p, ns) \/ BeginUntag(x, p, ns)
  BY <1>4, BeginTagPromises, BeginUntagPromises
<1>5. CASE \E x \in Callers : ListTags(x) \/ CompareTags(x) \/ Link(x) \/ Unlink(x)
  BY <1>5, ListTagsPromises, CompareTagsPromises, LinkPromises, UnlinkPromises
<1>6. CASE \E x \in Callers, n \in Names : CreateTag(x, n)
  BY <1>6, CreateTagPromises
<1>7. CASE \E x \in Callers : SetProject(x) \/ Return(x) \/ Fail(x)
  BY <1>7, SetProjectPromises, EndingPromises
<1>8. CASE \/ \E p \in Prompts, trashed \in BOOLEAN : SetPromptTrashed(p, trashed)
           \/ \E p \in Prompts : PermanentlyDeletePrompt(p)
           \/ \E p \in Prompts, ns \in BackupLabels : RestoreBackup(p, ns)
  BY <1>1, <1>8 DEF SetPromptTrashed, PermanentlyDeletePrompt, RestoreBackup
<1>9. CASE UNCHANGED tagVars
  BY <1>1, <1>9 DEF tagVars
<1> QED
  BY <1>2, <1>3, <1>4, <1>5, <1>6, <1>7, <1>8, <1>9 DEF TagNext

(* However the steps of the calls on one prompt are mixed, when the last   *)
(* of them is done the labels they agree on are as they want them, and     *)
(* those that none of them names as they were.                             *)
THEOREM CallsLeaveWhatTheyAgree == TagSpec => []LabelAgreement
<1>1. TagInit => IInv /\ PInv
  BY InitIInv, InitPromises
<1>2. IInv /\ PInv /\ [TagNext]_tagVars => IInv' /\ PInv'
  BY NextIInv, NextPromises
<1>3. IInv /\ PInv => LabelAgreement
  <2> SUFFICES ASSUME IInv, PInv, NEW x \in Callers, NEW p \in Prompts, LastOf(x, p),
                      NEW k \in AllKeys
               PROVE  /\ burst[p][k] \in {"in", "was in"} => k \in TagKeys(Current(p))
                      /\ burst[p][k] \in {"out", "was out"} => k \notin TagKeys(Current(p))
    BY DEF LabelAgreement
  <2>1. \A y \in Callers : On(call[y], p) => y = x
    BY DEF LastOf, Others, On
  <2>2. Linkers(tags, call, p, k) = {} /\ Unlinkers(tags, call, p, k) = {}
    BY <2>1, DoneHasDone DEF LastOf, Linkers, Unlinkers
  <2>3. Kept(burst[p][k], Marked(tags, taggings, p, k), {}, {})
    BY <2>2 DEF PInv, Promises
  <2> QED
    BY <2>3, MarkedIsCurrent DEF Kept
<1> QED
  BY <1>1, <1>2, <1>3, PTL DEF TagSpec

=============================================================================
