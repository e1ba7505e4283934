--------------------------------- MODULE Search ---------------------------------
(***************************************************************************)
(* Listing and searching: what a page of prompts holds, what its total     *)
(* counts, which matches are shown, and what a client sees that asks for   *)
(* one page after the other while others write.                            *)
(*                                                                         *)
(* searchPrompts reads the tags in one database, then counts and selects   *)
(* in the other, three statements of which no two are in one transaction.  *)
(*                                                                         *)
(* Abstractions: a field of text is told by what the words of the query    *)
(* make of it; the latest version is the last one added (PromptRepository  *)
(* models the times); no two prompts are updated at one millisecond; the   *)
(* order by relevance (bm25) is left open; the tags of the filter are read *)
(* in one step.  Categories filter as formats do and are left out, as are  *)
(* the tags shown beside a prompt.                                         *)
(***************************************************************************)
EXTENDS Integers, Sequences, FiniteSets, SequencesExt, FiniteSetsExt

CONSTANTS
  Ids,                     \* identifiers, in the order in which they are given
  Library,                 \* the prompts at the start
  Queries,                 \* made by the constructors below
  ToolPage,                \* the page that the tools read, 100 in the code
  Known,                   \* labels that have a row among the tags
  Formats,                 \* of versions
  New, Edits,              \* rows that may be created, versions that may be added
  MaxResults, MaxMatchesPerRule, MaxTotalMatches,
  MaxWrites                \* bound on what others write

ASSUME LimitsAssumption ==
  /\ MaxResults \in Nat \ {0} /\ MaxMatchesPerRule \in Nat \ {0} /\ MaxTotalMatches \in Nat \ {0}
  /\ ToolPage \in Nat \ {0} /\ \A q \in Queries : q.size \in Nat \ {0} /\ q.cut \in Nat

(* Text.  "words": each word of the query begins a word of the field, but  *)
(* they are not in a row; "head" and "tail" have one part of the words and *)
(* the other; "inside": the text is there within another word.             *)
Fields == {"none", "head", "tail", "words", "inside", "phrase", "twice"}

Version == [body : Fields, format : Formats]
Row == [title : Fields, labels : SUBSET Known, trashed : BOOLEAN, updated : Nat,
        versions : Seq(Version) \ {<<>>}]

ASSUME LibraryAssumption ==
  /\ IsFiniteSet(Ids) /\ Ids \subseteq Int /\ DOMAIN Library \subseteq Ids
  /\ Library \in [DOMAIN Library -> Row] /\ New \subseteq Row /\ Edits \subseteq Version
  /\ \A a \in DOMAIN Library :
       /\ Library[a].updated <= Cardinality(Ids)
       /\ \A b \in DOMAIN Library : Library[a].updated = Library[b].updated => a = b

VARIABLES
  prompts,   \* id -> [title, labels, trashed, updated, versions]
  indexed,   \* the full-text index is there
  listing,   \* what the client is doing
  writes,
  touched,   \* ghost: prompts written since the listing began
  left       \* ghost: a prompt left the result since then

searchVars == <<prompts, indexed, listing, writes, touched, left>>

NoFilter == [is |-> FALSE, ids |-> {}]
-----------------------------------------------------------------------------
(* What is asked, and by whom.                                             *)

Query(kind, text, formats, tags, project, size) ==
  [kind |-> kind, text |-> text, formats |-> formats, tags |-> tags, project |-> project,
   size |-> size, cut |-> size]

(* GET /prompts, page by page, and the command `list' *)
Listing(text, formats, tags, project, size) == Query("list", text, formats, tags, project, size)
ListCommand(text, formats, tags, size) == Listing(text, formats, tags, {}, size)

(* The tool listPrompts: its offset goes up by its limit, which is a page. *)
ListTool(formats, tags, limit) == Listing(FALSE, formats, tags, {}, limit)

(* The command `search' *)
SearchCommand(text, formats, tags, size) == Query("advanced", text, formats, tags, {}, size)

(* The tool searchPrompts: one page, of which it keeps the bodies that     *)
(* match.                                                                  *)
SearchTool(formats, tags, limit) == Query("bodies", TRUE, formats, tags, {}, limit)

(* The tool pv_search_prompts: one page, of which it hands on the first.   *)
PvListPrompts(text, tags, project) == Query("once", text, {}, tags, project, ToolPage)
PvSearchPrompts(text, tags, project, limit) ==
  [PvListPrompts(text, tags, project) EXCEPT !.cut = limit]

NoQuery == Query("list", FALSE, {}, {}, {}, 1)
NoListing ==
  [phase |-> "none", query |-> NoQuery, page |-> 0, allowed |-> NoFilter, total |-> 0,
   rows |-> <<>>, found |-> <<>>, answer |-> <<>>, seen |-> <<>>]

-----------------------------------------------------------------------------
(* What is found: text, in the index and in a row.                         *)

Occurrences(field) ==
  CASE field = "twice" -> 2 [] field \in {"phrase", "inside"} -> 1 [] OTHER -> 0

Latest(id) == Last(prompts[id].versions)

AllWords(fields) ==
  fields \cap {"words", "phrase", "twice"} # {} \/ {"head", "tail"} \subseteq fields

(* prompts_fts MATCH: the words may be spread over the title and the body. *)
InIndex(id) == AllWords({prompts[id].title, Latest(id).body})

(* LIKE, on the title and the body of the version joined. *)
Likes(id, version) == Occurrences(prompts[id].title) + Occurrences(version.body) > 0

(* findMatchesInPrompt *)
MatchesIn(id) ==
  Min({Occurrences(prompts[id].title) + Occurrences(Latest(id).body), MaxMatchesPerRule})

-----------------------------------------------------------------------------
(* PromptRepository.searchPrompts and advancedSearchPrompts *)

(* The WHERE clause, of a prompt joined with one of its versions. *)
Where(id, version, q) ==
  /\ ~prompts[id].trashed
  /\ q.text => IF indexed THEN InIndex(id) ELSE Likes(id, version)
  /\ q.formats # {} => version.format \in q.formats

(* Fault: versions are counted, not prompts. *)
TotalOfVersions(q) ==
  LET hits(id) == {i \in DOMAIN prompts[id].versions : Where(id, prompts[id].versions[i], q)}
  IN Cardinality(UNION {{<<id, i>> : i \in hits(id)} : id \in DOMAIN prompts})

(* COUNT(DISTINCT p.id), joined with all the versions. *)
Total(q) ==
  Cardinality({id \in DOMAIN prompts : \E v \in ToSet(prompts[id].versions) : Where(id, v, q)})

(* Fault: any version may satisfy the query. *)
HitsOfAnyVersion(q) ==
  {id \in DOMAIN prompts : \E v \in ToSet(prompts[id].versions) : Where(id, v, q)}

(* The rows, joined with the latest version. *)
Hits(q) == {id \in DOMAIN prompts : Where(id, Latest(id), q)}

(* Fault: the prompts updated first come first. *)
ComesBeforeOldestFirst(a, b) == prompts[a].updated < prompts[b].updated

(* ORDER BY updated_at DESC *)
ComesBefore(a, b) == prompts[a].updated > prompts[b].updated

ByRelevance(q) == q.text /\ indexed
Orders(q) ==
  {order \in SetToSeqs(Hits(q)) :
    ~ByRelevance(q) => \A i, j \in DOMAIN order : i < j => ComesBefore(order[i], order[j])}

Offset(q, page) == page * q.size

Limit(q) == IF q.kind = "advanced" THEN Min({q.size, MaxResults}) ELSE q.size

PageOf(order, q, page) ==
  [i \in 1..Max({0, Min({Limit(q), Len(order) - Offset(q, page)})}) |->
     [id |-> order[Offset(q, page) + i], times |-> MatchesIn(order[Offset(q, page) + i])]]

Sum(found) ==
  LET sum[i \in 0..Len(found)] == IF i = 0 THEN 0 ELSE sum[i - 1] + found[i].times
  IN sum[Len(found)]

(* Fault: the search ends at the first prompt that has too many matches. *)
TakeUntilFull(found, row) ==
  IF Len(found) >= MaxResults \/ Sum(found) >= MaxTotalMatches \/ row.times = 0 THEN found
  ELSE IF Sum(found) + row.times <= MaxTotalMatches THEN Append(found, row)
  ELSE Append(found, [row EXCEPT !.times = MaxTotalMatches - Sum(found)])

(* One row: shown if it has matches and there is room for all of them. *)
Take(found, row) ==
  IF \/ Len(found) >= MaxResults \/ Sum(found) >= MaxTotalMatches
     \/ row.times = 0 \/ Sum(found) + row.times > MaxTotalMatches
  THEN found ELSE Append(found, row)

(* The rows of the page, one after the other. *)
Found(rows) ==
  LET found[i \in 0..Len(rows)] == IF i = 0 THEN <<>> ELSE Take(found[i - 1], rows[i])
  IN found[Len(rows)]

(* The elements of a sequence that are in a set. *)
Kept(ids, wanted) ==
  LET kept[i \in 0..Len(ids)] ==
        IF i = 0 THEN <<>>
        ELSE IF ids[i] \in wanted THEN Append(kept[i - 1], ids[i]) ELSE kept[i - 1]
  IN kept[Len(ids)]

-----------------------------------------------------------------------------
(* PromptVaultService.searchPrompts and advancedSearchPrompts *)

Ask(q) ==
  /\ listing.phase = "none"
  /\ listing' = [NoListing EXCEPT !.phase = "ask", !.query = q]
  /\ touched' = {} /\ left' = FALSE
  /\ UNCHANGED <<prompts, indexed, writes>>

(* lookupTagIds: a label that is no tag is left out of the filter; a       *)
(* project is given by the id of its tag, and is always part of it.        *)
TagIds(q) == (q.tags \cap Known) \cup q.project

(* listSharedEntitiesByTags *)
Tagged(tags) == {id \in DOMAIN prompts : tags \subseteq prompts[id].labels}

(* What the client is given; it asks for the next page if this one is full. *)
Answered(l, answer, total) ==
  [l EXCEPT !.answer = answer, !.total = total, !.seen = @ \o answer,
            !.page = IF Len(answer) < l.query.size \/ l.query.kind # "list" THEN @ ELSE @ + 1,
            !.phase = IF Len(answer) < l.query.size \/ l.query.kind # "list" THEN "done" ELSE "ask"]

LookUp ==
  /\ listing.phase = "ask"
  /\ LET tags == TagIds(listing.query)
         allowed == IF tags = {} THEN NoFilter ELSE [is |-> TRUE, ids |-> Tagged(tags)]
     IN listing' = IF allowed.is /\ allowed.ids = {}
                   THEN Answered([listing EXCEPT !.rows = <<>>], <<>>, 0)
                   ELSE [listing EXCEPT !.phase = "count", !.allowed = allowed]
  /\ UNCHANGED <<prompts, indexed, writes, touched, left>>

CountHits ==
  /\ listing.phase = "count"
  /\ listing' = [listing EXCEPT !.phase = "rows", !.total = Total(listing.query)]
  /\ UNCHANGED <<prompts, indexed, writes, touched, left>>

(* The tags filter what the page holds, and then its length is the total.  *)
Filtered(ids) == IF listing.allowed.is THEN Kept(ids, listing.allowed.ids) ELSE ids

(* What a tool makes of the page. *)
Shown(q, ids) ==
  CASE q.kind = "bodies" -> Kept(ids, {id \in ToSet(ids) : Occurrences(Latest(id).body) > 0})
    [] q.kind = "once" -> SubSeq(ids, 1, Min({q.cut, Len(ids)}))
    [] OTHER -> ids

Select ==
  /\ listing.phase = "rows"
  /\ \E order \in Orders(listing.query) :
       LET q == listing.query
           rows == PageOf(order, q, listing.page)
           found == IF q.kind = "advanced" THEN Found(rows) ELSE rows
           kept == Filtered([i \in DOMAIN found |-> found[i].id])
       IN listing' = Answered([listing EXCEPT !.rows = rows, !.found = found], Shown(q, kept),
                              IF listing.allowed.is THEN Len(kept) ELSE listing.total)
  /\ UNCHANGED <<prompts, indexed, writes, touched, left>>

-----------------------------------------------------------------------------
(* What other sessions write.  Trashing and restoring leave updated_at as  *)
(* it is, everything else renews it.                                       *)

Write(id, rows) ==
  /\ writes < MaxWrites /\ writes' = writes + 1
  /\ prompts' = rows
  /\ touched' = touched \cup {id}
  /\ UNCHANGED <<indexed, listing>>
  /\ left' = (left \/ (id \in Hits(listing.query) /\ id \notin Hits(listing.query)'))

Renewed(row) == [row EXCEPT !.updated = Cardinality(Ids) + writes + 1]

CreatePrompt(row) ==
  \E id \in Ids \ DOMAIN prompts :
    /\ \A i \in Ids \ DOMAIN prompts : id <= i
    /\ Write(id, [i \in DOMAIN prompts \cup {id} |-> IF i = id THEN Renewed(row) ELSE prompts[i]])

AddVersion(id, version) ==
  /\ ~prompts[id].trashed
  /\ LET row == [prompts[id] EXCEPT !.versions = Append(@, version)]
     IN Write(id, [prompts EXCEPT ![id] = Renewed(row)])

SetTrashed(id, trashed) ==
  /\ prompts[id].trashed # trashed
  /\ Write(id, [prompts EXCEPT ![id].trashed = trashed])

(* The tagging, and then touchPrompt: the search reads either or both. *)
SetLabels(id, labels) ==
  /\ ~prompts[id].trashed /\ prompts[id].labels # labels
  /\ LET row == [prompts[id] EXCEPT !.labels = labels] IN Write(id, [prompts EXCEPT ![id] = Renewed(row)])

PermanentlyDelete(id) == Write(id, [i \in DOMAIN prompts \ {id} |-> prompts[i]])

-----------------------------------------------------------------------------
SearchInit ==
  /\ prompts = Library /\ indexed \in BOOLEAN
  /\ listing = NoListing /\ writes = 0 /\ touched = {} /\ left = FALSE

SearchNext ==
  \/ \E q \in Queries : Ask(q)
  \/ LookUp \/ CountHits \/ Select
  \/ \E row \in New : CreatePrompt(row)
  \/ \E id \in DOMAIN prompts :
       \/ \E v \in Edits : AddVersion(id, v)
       \/ \E t \in BOOLEAN : SetTrashed(id, t)
       \/ \E labels \in SUBSET Known : SetLabels(id, labels)
       \/ PermanentlyDelete(id)

SearchSpec == SearchInit /\ [][SearchNext]_searchVars

-----------------------------------------------------------------------------
SearchTypes ==
  /\ DOMAIN prompts \subseteq Ids
  /\ \A id \in DOMAIN prompts :
       /\ prompts[id].title \in Fields /\ prompts[id].labels \subseteq Known
       /\ prompts[id].versions # <<>>
       /\ \A i \in DOMAIN prompts : prompts[i].updated = prompts[id].updated => i = id
  /\ listing.phase \in {"none", "ask", "count", "rows", "done"}
  /\ listing.total \in Nat
  /\ Len(listing.rows) <= listing.query.size

(* A client that lists by time and stops at the first page that is not full *)
(* has seen every prompt that was there throughout and that nobody wrote to, *)
(* however many others were created, edited or taken from the trash in the   *)
(* meantime, as long as none left the result; and when nobody writes, no      *)
(* prompt is listed twice.                                                   *)
Unfiltered == TagIds(listing.query) = {} /\ listing.query.kind = "list" /\ ~ByRelevance(listing.query)
PagesCover ==
  /\ SearchTypes
  /\ listing.phase = "done" /\ Unfiltered /\ ~left =>
       Hits(listing.query) \ touched \subseteq ToSet(listing.seen)
  /\ Unfiltered /\ touched = {} => IsInjective(listing.seen)

(* What the documentation of searchPrompts asks of a prompt that is shown:  *)
(* it is not in the trash, its latest version has the format and the text,  *)
(* and it carries every tag of the filter when the filter is looked up.     *)
Wanted(id, q) ==
  /\ ~prompts[id].trashed
  /\ q.formats # {} => Latest(id).format \in q.formats
  /\ q.text => LET fields == {prompts[id].title, Latest(id).body}
               IN IF indexed THEN AllWords(fields) ELSE \E f \in fields : Occurrences(f) > 0

ShowsWanted ==
  [][listing.phase = "rows" /\ listing'.phase # "rows" =>
       \A id \in ToSet(listing'.answer) :
         Wanted(id, listing.query) /\ (listing.allowed.is => id \in listing.allowed.ids)]_searchVars

(* What a count has to do with the prompts that are wanted. *)
Counts ==
  LET q == listing.query
      wanted == {id \in DOMAIN prompts : Wanted(id, q)}
  IN /\ listing'.total >= Cardinality(wanted)
     /\ q.formats = {} /\ (q.text => indexed) => listing'.total = Cardinality(wanted)

(* The total counts every prompt that some page can show, and no other one  *)
(* unless an earlier version of it satisfies the query.                     *)
TotalCovers == [][listing.phase = "count" /\ listing'.phase = "rows" => Counts]_searchVars

(* An advanced search keeps to its numbers, shows every match of a prompt    *)
(* that it shows at all, and passes over none of the page that would still   *)
(* have had room.                                                            *)
RoomIsUsed ==
  listing.query.kind = "advanced" /\ listing.phase = "done" =>
    /\ Sum(listing.found) <= MaxTotalMatches /\ Len(listing.found) <= MaxResults
    /\ ToSet(listing.found) \subseteq ToSet(listing.rows)
    /\ \A row \in ToSet(listing.rows) \ ToSet(listing.found) :
         row.times = 0 \/ Sum(listing.found) + row.times > MaxTotalMatches

=============================================================================
