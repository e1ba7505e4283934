---------------------------- MODULE RecoveryDomain ----------------------------
(***************************************************************************)
(* Backup 2.0 documents and restore plans: the pure functions of           *)
(* domain/recovery.ts, shared by the Node service and the browser.         *)
(*                                                                         *)
(* Abstractions: a slug is a sequence, <<a>> for a base slug, <<a, 1>> for *)
(* its `-imported' form, <<a, n>> for `-imported-n'; it never changes and  *)
(* is UNIQUE, so it stands for the prompt's id as well.  Slugs are sorted  *)
(* by these numbers (as text -10 comes before -2: no property tells which  *)
(* of two copies goes first).  `meta' is the metadata with the tags;       *)
(* `copy' in it says that the title ends in "(imported copy)".  The        *)
(* versions of a prompt are listed in rowid order; a body stands for its   *)
(* hash; `created' counts ticks, and reads order by whole seconds.  A      *)
(* fingerprint is the value that was hashed, without updated_at.           *)
(***************************************************************************)
EXTENDS Naturals, FiniteSets, SequencesExt

CONSTANTS
  TicksPerSecond,
  MaxPrompts, MaxVersions,        \* RECOVERY_LIMITS of a whole file
  LongTitles                      \* too long with " (imported copy)" after them

ASSUME TicksArePositive == TicksPerSecond \in Nat \ {0}
ASSUME LimitsCount == MaxPrompts \in Nat /\ MaxVersions \in Nat

-----------------------------------------------------------------------------
(* Slugs and versions *)

Slugs == Seq(Nat) \ {<<>>}
Version == [semver : Nat, body : Nat, created : Nat]

(* A prompt of a file, before the parser has looked at its versions. *)
PromptWith(metas) == [slug : Slugs, meta : metas, versions : Seq(Version)]

Original(base) == <<base>>
CopySlug(slug, n) == Append(slug, n)

(* What the text order compares at a place of a slug: its end comes first, *)
(* then `-imported' at the end, `-imported-n', and `-imported' with more.  *)
Part(slug, i) ==
  IF i > Len(slug) THEN <<0, 0>>
  ELSE IF i = 1 \/ slug[i] # 1 THEN <<2, slug[i]>>
  ELSE IF i = Len(slug) THEN <<1, 0>> ELSE <<3, 0>>

PartBefore(p, q) == p[1] < q[1] \/ (p[1] = q[1] /\ p[2] < q[2])

SlugBefore(s, t) ==
  \E i \in 1..(Len(s) + 1) :
    /\ PartBefore(Part(s, i), Part(t, i))
    /\ \A j \in 1..(i - 1) : Part(s, j) = Part(t, j)

Identity(v) == <<v.semver, v.body>>

Identities(vs) == {Identity(v) : v \in ToSet(vs)}

VersionBefore(v, w) ==
  \/ v.created < w.created
  \/ v.created = w.created /\ v.semver < w.semver
  \/ v.created = w.created /\ v.semver = w.semver /\ v.body < w.body

(* The elements of a finite set, the pairs of `before' being a strict order *)
(* of them.                                                                *)
InOrder(S, before) ==
  [i \in 1..Cardinality(S) |->
    CHOOSE x \in S : Cardinality({y \in S : <<y, x>> \in before}) = i - 1]

Ascending(places) == {p \in places \X places : p[1] < p[2]}

(* The part of a sequence that stands at some places. *)
Selected(s, places) ==
  LET order == InOrder(places, Ascending(places)) IN [i \in DOMAIN order |-> s[order[i]]]

(* Alike versions keep their order, and so do prompts of one slug. *)
ByAge(vs) ==
  {p \in (DOMAIN vs) \X (DOMAIN vs) :
    \/ VersionBefore(vs[p[1]], vs[p[2]])
    \/ p[1] < p[2] /\ ~VersionBefore(vs[p[2]], vs[p[1]])}

VersionsSorted(vs) ==
  LET order == InOrder(DOMAIN vs, ByAge(vs)) IN [i \in DOMAIN order |-> vs[order[i]]]

BySlug(slugs) == {p \in slugs \X slugs : SlugBefore(p[1], p[2])}

ByPrompt(prompts) ==
  {p \in (DOMAIN prompts) \X (DOMAIN prompts) :
    \/ SlugBefore(prompts[p[1]].slug, prompts[p[2]].slug)
    \/ p[1] < p[2] /\ ~SlugBefore(prompts[p[2]].slug, prompts[p[1]].slug)}

Second(v) == v.created \div TicksPerSecond

(* The place of the version that a read ordered by (second, rowid) returns *)
(* last among the places given.                                            *)
LastRead(vs, places) ==
  CHOOSE i \in places : \A j \in places :
    Second(vs[j]) < Second(vs[i]) \/ (Second(vs[j]) = Second(vs[i]) /\ j <= i)

LatestVersion(vs) == vs[LastRead(vs, DOMAIN vs)]

-----------------------------------------------------------------------------
(* Files *)

WellFormed(prompts) ==
  /\ \A i, j \in DOMAIN prompts : prompts[i].slug = prompts[j].slug => i = j
  /\ \A i \in DOMAIN prompts :
       LET vs == prompts[i].versions
       IN vs # <<>> /\ Cardinality(Identities(vs)) = Len(vs)

(* copiedTitle: a title has the suffix once. *)
Copied(meta) == [meta EXCEPT !.copy = TRUE]

TooLong(meta) == meta.copy /\ meta.title \in LongTitles

TitlesFit(prompts) == \A i \in DOMAIN prompts : ~TooLong(prompts[i].meta)

(* The limits of a whole file; that of its bytes is met by many versions, too. *)
SizeFits(prompts) ==
  /\ Len(prompts) <= MaxPrompts
  /\ Cardinality(UNION {{i} \X DOMAIN prompts[i].versions : i \in DOMAIN prompts})
       <= MaxVersions

(* What the parser requires of the prompts of a file. *)
Valid(prompts) == WellFormed(prompts) /\ TitlesFit(prompts) /\ SizeFits(prompts)

Normalized(prompts) ==
  LET order == InOrder(DOMAIN prompts, ByPrompt(prompts))
  IN [i \in DOMAIN order |->
       [prompts[order[i]] EXCEPT !.versions = VersionsSorted(@)]]

(* Fault: as Backup 1.0, the latest version of a prompt alone. *)
LatestOnlyDocument(visible) ==
  LET slugs == InOrder(DOMAIN visible, BySlug(DOMAIN visible))
  IN [i \in DOMAIN slugs |->
       [slug |-> slugs[i], meta |-> visible[slugs[i]].meta,
        versions |-> <<LatestVersion(visible[slugs[i]].versions)>>]]

(* buildBackupDocumentV2: the prompts in the order of their slugs *)
Document(visible) ==
  LET slugs == InOrder(DOMAIN visible, BySlug(DOMAIN visible))
  IN [i \in DOMAIN slugs |->
       [slug |-> slugs[i], meta |-> visible[slugs[i]].meta,
        versions |-> VersionsSorted(visible[slugs[i]].versions)]]

-----------------------------------------------------------------------------
(* Plans *)

(* Fault: always `x-imported'. *)
FirstCopySlug(slug, reserved) == CopySlug(slug, 1)

(* The first free one of `x-imported', `x-imported-2', ... *)
FreeCopySlug(slug, reserved) ==
  CopySlug(slug, CHOOSE n \in 1..(Cardinality(reserved) + 1) :
    /\ CopySlug(slug, n) \notin reserved
    /\ \A m \in 1..(n - 1) : CopySlug(slug, m) \in reserved)

(* A semantic version of the file that the prompt has, too, but whose last *)
(* body there is another one.                                              *)
SemanticBodyConflict(source, current) ==
  \E v \in ToSet(source.versions) :
    LET same == {i \in DOMAIN current.versions : current.versions[i].semver = v.semver}
    IN same # {} /\ current.versions[LastRead(current.versions, same)].body # v.body

Kind(source, current) ==
  LET theirs == Identities(source.versions)
      ours == Identities(current.versions)
  IN IF theirs \subseteq ours
     THEN IF source.meta = current.meta
          THEN "existing-exact-duplicate" ELSE "existing-slug-conflict"
     ELSE IF SemanticBodyConflict(source, current) THEN "copy-required-conflict"
     ELSE IF theirs \cap ours # {} THEN "mergeable-missing-versions"
     ELSE "existing-slug-conflict"

(* Fault: every version of the source counts as missing. *)
PlanEntryAllMissing(source, visible, reserved) ==
  [slug |-> source.slug,
   kind |-> IF source.slug \in DOMAIN visible THEN Kind(source, visible[source.slug])
            ELSE "new-prompt",
   missing |-> Identities(source.versions),
   copySlug |-> IF source.slug \in DOMAIN visible THEN FreeCopySlug(source.slug, reserved)
                ELSE <<>>]

(* One entry of the plan. *)
PlanEntry(source, visible, reserved) ==
  IF source.slug \notin DOMAIN visible
  THEN [slug |-> source.slug, kind |-> "new-prompt",
        missing |-> Identities(source.versions), copySlug |-> <<>>]
  ELSE LET current == visible[source.slug]
       IN [slug |-> source.slug, kind |-> Kind(source, current),
           missing |-> Identities(source.versions) \ Identities(current.versions),
           copySlug |-> FreeCopySlug(source.slug, reserved)]

Reserved(entry) == IF entry.kind = "new-prompt" THEN entry.slug ELSE entry.copySlug

(* Source by source: a copy avoids the current slugs and those of the      *)
(* entries before it, not those of the new prompts after it.               *)
Entries(document, visible) ==
  LET entry[i \in DOMAIN document] ==
        PlanEntry(document[i], visible,
                  DOMAIN visible \cup {Reserved(entry[k]) : k \in 1..(i - 1)})
  IN entry

BuildRestorePlan(document, visible) ==
  [entries |-> Entries(document, visible), document |-> document, library |-> visible]

(* Fault: the fingerprint of the library is not compared. *)
MatchesDocument(p, document, visible) == p.document = document

PlanMatches(p, document, visible) == p = BuildRestorePlan(document, visible)

=============================================================================
