---------------------------- MODULE PromptListPage ----------------------------
(***************************************************************************)
(* The page of advanced tools (PromptListPage.tsx): a list that is loaded, *)
(* searched with a delay, ticked, and changed in bulk by functions that    *)
(* await one call after the other.  The page can be left and opened again  *)
(* while they run; each opening is a mount of its own.                     *)
(*                                                                         *)
(* Natively, the application answers: it lists every prompt, and knows no  *)
(* search, so that a search fails and the page filters what it has listed. *)
(* In the browser, the server answers, and where it fails or refuses, the  *)
(* memory of the page does (promptApi.ts), whose prompts have their own    *)
(* ids: a list is one page of the server or the whole memory, and a search,*)
(* which asks for longer pages than the server allows, finds what is in    *)
(* memory, and nothing else.                                               *)
(*                                                                         *)
(* A call is answered, or fails.  What an answer sets is rendered before   *)
(* the effects that depend on it run, so the effects are a step of their   *)
(* own, and other answers may come first; an event of the user finds them  *)
(* done.                                                                   *)
(*                                                                         *)
(* Abstractions: a prompt is its set of tags; the filters for tag, text    *)
(* and category are one filter for a tag, that for a project is another;   *)
(* which prompts a page of the server holds is not said, only how many; an *)
(* imported bundle brings one prompt, or versions, which are not shown;    *)
(* what OfflineSync does to the memory meanwhile is done by somebody else. *)
(***************************************************************************)
EXTENDS Naturals, Sequences, FiniteSets, SequencesExt

CONSTANTS
  PagePrompts, PageTags,
  OfMemory,             \* those that are in the memory of a browser, if anywhere
  ListCap,              \* the length of a page of the server
  Listed,               \* the prompts at first, with their tags
  NoFilter, Project,    \* the filters that are not tags
  Absent, Waiting, Failed,
  MaxEvents                \* bound on what is typed, begun or left, and on what goes wrong

ASSUME PageSentinels ==
  /\ {NoFilter, Project} \cap PageTags = {} /\ NoFilter # Project
  /\ \A tags \in SUBSET PageTags : tags # Absent
  /\ Waiting # Failed
  /\ \A ps \in SUBSET PagePrompts : {Waiting, Failed} \cap [ps -> SUBSET PageTags] = {}

ASSUME PageAtFirst ==
  /\ IsFiniteSet(PagePrompts)
  /\ OfMemory \subseteq PagePrompts /\ ListCap \in Nat
  /\ Listed \in [PagePrompts -> (SUBSET PageTags) \cup {Absent}]

VARIABLES
  inBrowser,   \* there is no native application
  rows,        \* the prompts as stored, with their tags, or Absent
  mount,       \* which opening of the page is the present one
  prompts, shown, selected, filter,
  loading, failed, searching, bulkBusy, bundleBusy,
  token, request,     \* the load and the search that count
  timer,       \* the search that waits for the typing to pause
  due,         \* effects to be run
  loads, searches, jobs,   \* asynchronous functions that await an answer
  events,
  unseen       \* ghost: prompts that somebody else changed since they were loaded,
               \* or a job of this mount that stopped half-way

calls == <<loads, searches, jobs>>
lists == <<prompts, shown, selected>>
flags == <<loading, failed, searching, bulkBusy, bundleBusy>>
pageVars == <<inBrowser, rows, mount, lists, filter, flags, token, request, timer, due, calls,
              events, unseen>>

Nothing == [p \in {} |-> {}]
RowOf(list, p) == IF p \in DOMAIN list THEN list[p] ELSE Absent
OnServer == PagePrompts \ OfMemory    \* or in the native vault
Stored(ps) == [p \in {q \in ps : rows[q] # Absent} |-> rows[p]]

Passes(f, row) == row # Absent /\ (f \in PageTags => f \in row)
Matching(f, list) == [p \in {q \in DOMAIN list : Passes(f, list[q])} |-> list[p]]

(* The prompts of a selection that are among these, in their order. *)
Among(s, ps) ==
  LET kept == {i \in DOMAIN s : s[i] \in ps}
      Nth(k) == CHOOSE i \in kept : Cardinality({j \in kept : j <= i}) = k
  IN  [k \in 1..Cardinality(kept) |-> s[Nth(k)]]

EventComes == events < MaxEvents /\ events' = events + 1

(* A write by anybody but this mount. *)
Unseen(ps) ==
  /\ unseen' = unseen \cup ps
  /\ loads' = {[l EXCEPT !.since = @ \cup ps] : l \in loads}

-----------------------------------------------------------------------------
(* Loading *)

Load(n) == [token |-> n, answer |-> Waiting, since |-> {}]

(* The page of a list that is asked for. *)
Pages(list) ==
  IF ~inBrowser \/ Cardinality(DOMAIN list) <= ListCap THEN {list}
  ELSE {[p \in ps |-> list[p]] : ps \in {qs \in SUBSET DOMAIN list : Cardinality(qs) = ListCap}}

ServeList(l) ==
  /\ l \in loads /\ l.answer = Waiting
  /\ \E answer \in Pages(Stored(OnServer)) \cup {IF inBrowser THEN Stored(OfMemory) ELSE Failed} :
       /\ loads' = (loads \ {l}) \cup {[l EXCEPT !.answer = answer, !.since = {}]}
       /\ IF answer \in Pages(Stored(OnServer)) THEN UNCHANGED events ELSE EventComes
  /\ UNCHANGED <<rows, mount, lists, filter, flags, token, request, timer, due,
                 searches, jobs, unseen>>

(* An earlier load, and one of an earlier mount, is not mounted any more. *)
GotList(l) ==
  /\ l \in loads /\ l.answer # Waiting
  /\ loads' = loads \ {l}
  /\ IF l.token # token THEN UNCHANGED <<lists, loading, failed, due, unseen>>
     ELSE /\ loading' = FALSE /\ failed' = (l.answer = Failed)
          /\ IF l.answer = Failed THEN UNCHANGED <<lists, due, unseen>>
             ELSE /\ prompts' = l.answer /\ shown' = l.answer /\ selected' = << >>
                  /\ due' = due \cup {"search", "prune"}
                  /\ unseen' = l.since
  /\ UNCHANGED <<rows, mount, filter, searching, bulkBusy, bundleBusy, token,
                 request, timer, searches, jobs, events>>

-----------------------------------------------------------------------------
(* Searching *)

(* The effect that follows the filters and the prompts: what it began      *)
(* before is cancelled.                                                    *)
SearchEffect(f) ==
  /\ request' = request + 1
  /\ IF f = NoFilter THEN shown' = prompts /\ searching' = FALSE /\ timer' = << >>
     ELSE /\ searching' = TRUE
          /\ timer' = <<[request |-> request + 1, filter |-> f, list |-> prompts, answer |-> Waiting]>>
          /\ UNCHANGED shown

Usable == ~loading /\ ~failed /\ due = {}

TypeFilter(f) ==
  /\ Usable /\ f # filter
  /\ EventComes
  /\ filter' = f
  /\ SearchEffect(f)
  /\ due' = {"prune"}
  /\ UNCHANGED <<rows, mount, prompts, selected, loading, failed, bulkBusy,
                 bundleBusy, token, calls, unseen>>

TimerFires ==
  /\ timer # << >>
  /\ searches' = searches \cup {timer[1]} /\ timer' = << >>
  /\ UNCHANGED <<rows, mount, lists, filter, flags, token, request, due, loads,
                 jobs, events, unseen>>

ServeSearch(s) ==
  /\ s \in searches /\ s.answer = Waiting
  /\ LET answer == IF inBrowser THEN Matching(s.filter, Stored(OfMemory)) ELSE Failed
     IN  searches' = (searches \ {s}) \cup {[s EXCEPT !.answer = answer]}
  /\ UNCHANGED <<rows, mount, lists, filter, flags, token, request, timer, due,
                 loads, jobs, events, unseen>>

(* The page's own filter knows of no project. *)
OwnFilter(f, list) == IF f = Project THEN Nothing ELSE Matching(f, list)
Fallback(s) == OwnFilter(s.filter, s.list)

(* Fault: the answer of a search that was cancelled is shown. *)
GotSearchCancelled(s) ==
  /\ s \in searches /\ s.answer # Waiting
  /\ searches' = searches \ {s}
  /\ shown' = IF s.answer = Failed THEN Fallback(s) ELSE s.answer
  /\ searching' = (searching /\ s.request # request)
  /\ due' = due \cup {"prune"}
  /\ UNCHANGED <<rows, mount, prompts, selected, filter, loading, failed,
                 bulkBusy, bundleBusy, token, request, timer, loads, jobs,
                 events, unseen>>

GotSearch(s) ==
  /\ s \in searches /\ s.answer # Waiting
  /\ searches' = searches \ {s}
  /\ IF s.request # request THEN UNCHANGED <<shown, searching, due>>
     ELSE /\ shown' = IF s.answer = Failed THEN Fallback(s) ELSE s.answer
          /\ searching' = FALSE
          /\ due' = due \cup {"prune"}
  /\ UNCHANGED <<rows, mount, prompts, selected, filter, loading, failed,
                 bulkBusy, bundleBusy, token, request, timer, loads, jobs,
                 events, unseen>>

-----------------------------------------------------------------------------
(* Effects, in the order in which they are declared *)

Effects ==
  /\ due # {} /\ due' = {}
  /\ IF "load" \in due
     THEN /\ token' = token + 1 /\ loading' = TRUE
          /\ loads' = loads \cup {Load(token + 1)}
     ELSE UNCHANGED <<token, loading, loads>>
  /\ IF "search" \in due THEN SearchEffect(filter)
     ELSE UNCHANGED <<request, shown, searching, timer>>
  /\ selected' = Among(selected, DOMAIN shown')
  /\ UNCHANGED <<rows, mount, prompts, filter, failed, bulkBusy, bundleBusy,
                 searches, jobs, events, unseen>>

(* The page is left, and opened again. *)
Remount ==
  /\ EventComes /\ mount' = mount + 1
  /\ prompts' = Nothing /\ shown' = Nothing /\ selected' = << >> /\ filter' = NoFilter
  /\ loading' = TRUE /\ failed' = FALSE /\ searching' = FALSE
  /\ bulkBusy' = FALSE /\ bundleBusy' = FALSE
  /\ timer' = << >> /\ due' = {}
  /\ token' = token + 1 /\ request' = request + 1
  /\ loads' = loads \cup {Load(token + 1)}
  /\ UNCHANGED <<rows, searches, jobs, unseen>>

-----------------------------------------------------------------------------
(* Ticking, and what is done with the prompts that are ticked *)

Select(next) ==
  /\ selected' = next
  /\ UNCHANGED <<rows, mount, prompts, shown, filter, flags, token, request,
                 timer, due, calls, events, unseen>>

ToggleSelected(p) ==
  /\ Usable /\ p \in DOMAIN shown
  /\ Select(IF p \in ToSet(selected) THEN Among(selected, PagePrompts \ {p})
            ELSE Append(selected, p))

SelectAllVisible ==
  /\ Usable /\ ~bulkBusy /\ DOMAIN shown # {}
  /\ Select(IF Len(selected) = Cardinality(DOMAIN shown) THEN << >> ELSE SetToSeq(DOMAIN shown))

BulkJob(op, tag, todo) ==
  [op |-> op, tag |-> tag, todo |-> todo, done |-> {}, list |-> prompts, mount |-> mount,
   answer |-> Waiting]

StartJob(job) ==
  /\ Usable /\ EventComes
  /\ job \notin jobs /\ jobs' = jobs \cup {job}
  /\ UNCHANGED <<rows, mount, lists, filter, loading, failed, searching, token,
                 request, timer, due, loads, searches, unseen>>

(* Prompts that a search brought and the list does not hold are passed over. *)
BulkTag(tag) ==
  /\ ~bulkBusy /\ bulkBusy' = TRUE /\ UNCHANGED bundleBusy
  /\ selected # << >>
  /\ StartJob(BulkJob("tag", tag, Among(selected, DOMAIN prompts)))

BulkDelete ==
  /\ ~bulkBusy /\ bulkBusy' = TRUE /\ UNCHANGED bundleBusy
  /\ selected # << >>
  /\ StartJob(BulkJob("delete", NoFilter, selected))

Bundle(op) ==
  /\ ~bundleBusy /\ bundleBusy' = TRUE /\ UNCHANGED bulkBusy
  /\ op = "export" => DOMAIN shown # {}
  /\ StartJob(BulkJob(op, NoFilter, << >>))

(* What a call of the job makes of the tables, or nothing if it is refused. *)
Outcomes(j) ==
  IF j.op = "import" THEN {rows} \cup {[rows EXCEPT ![p] = {}] : p \in {q \in OnServer : rows[q] = Absent}}
  ELSE IF j.op = "export" THEN {rows}
  ELSE LET p == j.todo[1]
       IN IF rows[p] = Absent THEN {}
          ELSE {[rows EXCEPT ![p] = IF j.op = "tag" THEN j.list[p] \cup {j.tag} ELSE Absent]}

Awaits(j) == j.op \in {"import", "export"} \/ j.todo # << >>
Changed == {p \in PagePrompts : rows'[p] # rows[p]}

ServeJob(j) ==
  /\ j \in jobs /\ j.answer = Waiting /\ Awaits(j)
  /\ \/ /\ rows' \in Outcomes(j)
        /\ jobs' = (jobs \ {j}) \cup {[j EXCEPT !.answer = "ok", !.done = @ \cup Changed]}
        /\ Unseen(IF j.mount = mount THEN {} ELSE Changed)
        /\ UNCHANGED events
     \/ /\ \/ Outcomes(j) = {} /\ UNCHANGED events
           \/ EventComes
        /\ jobs' = (jobs \ {j}) \cup {[j EXCEPT !.answer = Failed]}
        /\ UNCHANGED <<rows, loads, unseen>>
  /\ UNCHANGED <<mount, lists, filter, flags, token, request, timer, due,
                 searches>>

NextPrompt(j) ==
  /\ j \in jobs /\ j.answer = "ok" /\ Len(j.todo) > 1
  /\ jobs' = (jobs \ {j}) \cup {[j EXCEPT !.answer = Waiting, !.todo = Tail(@)]}
  /\ UNCHANGED <<rows, mount, lists, filter, flags, token, request, timer, due,
                 loads, searches, events, unseen>>

(* What a page that was left sets is set nowhere. *)
NoLongerBusy(j) ==
  IF j.mount # mount THEN UNCHANGED <<bulkBusy, bundleBusy>>
  ELSE IF j.op \in {"tag", "delete"} THEN bulkBusy' = FALSE /\ UNCHANGED bundleBusy
  ELSE bundleBusy' = FALSE /\ UNCHANGED bulkBusy

Succeed(j) ==
  /\ j \in jobs
  /\ IF Awaits(j) THEN j.answer = "ok" /\ Len(j.todo) <= 1 ELSE j.answer = Waiting
  /\ jobs' = jobs \ {j}
  /\ NoLongerBusy(j)
  /\ selected' = IF j.mount = mount /\ j.op = "delete" THEN << >> ELSE selected
  /\ due' = IF j.mount = mount /\ j.op # "export" THEN due \cup {"load"} ELSE due
  /\ UNCHANGED <<rows, mount, prompts, shown, filter, loading, failed,
                 searching, token, request, timer, loads, searches, events,
                 unseen>>

(* The rest of the prompts is left alone, and the list is not loaded again. *)
Fail(j) ==
  /\ j \in jobs /\ j.answer = Failed
  /\ jobs' = jobs \ {j}
  /\ NoLongerBusy(j)
  /\ Unseen(IF j.mount = mount THEN j.done ELSE {})
  /\ UNCHANGED <<rows, mount, lists, filter, loading, failed, searching, token,
                 request, timer, due, searches, events>>

(* Another client, another window, a command; a page that creates a prompt *)
(* in memory, and the synchronization that moves it to the server.         *)
SomebodyElse(p, row) ==
  /\ p \in OfMemory => inBrowser
  /\ EventComes
  /\ row # rows[p] /\ rows' = [rows EXCEPT ![p] = row]
  /\ Unseen({p})
  /\ UNCHANGED <<mount, lists, filter, flags, token, request, timer, due,
                 searches, jobs>>

-----------------------------------------------------------------------------
PageInit ==
  /\ inBrowser \in BOOLEAN
  /\ rows = [p \in PagePrompts |-> IF p \in OfMemory /\ ~inBrowser THEN Absent ELSE Listed[p]]
  /\ mount = 1
  /\ prompts = Nothing /\ shown = Nothing /\ selected = << >> /\ filter = NoFilter
  /\ loading = TRUE /\ failed = FALSE /\ searching = FALSE
  /\ bulkBusy = FALSE /\ bundleBusy = FALSE
  /\ token = 1 /\ request = 1 /\ timer = << >> /\ due = {}
  /\ loads = {Load(1)} /\ searches = {} /\ jobs = {}
  /\ events = 0 /\ unseen = {}

Filters == PageTags \cup {NoFilter, Project}

Answer ==
  \/ \E l \in loads : ServeList(l) \/ GotList(l)
  \/ \E s \in searches : ServeSearch(s) \/ GotSearch(s)
  \/ \E j \in jobs : ServeJob(j) \/ NextPrompt(j) \/ Succeed(j) \/ Fail(j)

Event ==
  \/ \E f \in Filters : TypeFilter(f)
  \/ \E p \in PagePrompts : ToggleSelected(p)
  \/ SelectAllVisible \/ BulkDelete
  \/ \E tag \in PageTags : BulkTag(tag)
  \/ \E op \in {"import", "export"} : Bundle(op)
  \/ Remount

PageNext ==
  /\ \/ Answer \/ Event \/ Effects \/ TimerFires
     \/ \E p \in PagePrompts, row \in (SUBSET PageTags) \cup {Absent} : SomebodyElse(p, row)
  /\ UNCHANGED inBrowser

PageSpec == PageInit /\ [][PageNext]_pageVars

-----------------------------------------------------------------------------
PageTypeOK ==
  /\ inBrowser \in BOOLEAN
  /\ rows \in [PagePrompts -> (SUBSET PageTags) \cup {Absent}]
  /\ DOMAIN prompts \subseteq PagePrompts /\ DOMAIN shown \subseteq PagePrompts
  /\ selected \in Seq(PagePrompts) /\ filter \in Filters
  /\ due \subseteq {"load", "search", "prune"}
  /\ Len(timer) <= 1 /\ unseen \subseteq PagePrompts

AtRest == ~loading /\ ~failed /\ ~searching /\ due = {}

(* What can answer: the server or the native vault, or a browser's memory. *)
Stores == {OnServer} \cup (IF inBrowser THEN {OfMemory} ELSE {})
Capped(list, ps) == inBrowser /\ ps = OnServer /\ Cardinality(DOMAIN list) = ListCap

(* A list of one of them lacks a prompt only where it is a full page.      *)
ListsRow(list, ps, p) ==
  RowOf(list, p) = rows[p] \/ (p \notin DOMAIN list /\ Capped(list, ps))

(* Whatever was typed, loaded and changed meanwhile: of a page at rest only *)
(* prompts that it shows are ticked; without a filter it shows what it has  *)
(* listed, and natively, with one, what the present filter, and no earlier  *)
(* one, selects of it.  Once no job of the page runs, unless somebody else  *)
(* has written a row since, or a job that stopped half-way: the list is the *)
(* native vault, or a page of the server or all that is in memory, as it is *)
(* stored; and what a browser's search shows is what the filter selects in  *)
(* memory, as it is there.                                                  *)
ListIsCurrent ==
  /\ PageTypeOK
  /\ AtRest =>
       /\ ToSet(selected) \subseteq DOMAIN shown
       /\ filter = NoFilter => shown = prompts
       /\ filter # NoFilter /\ ~inBrowser => shown = OwnFilter(filter, prompts)
       /\ (\A j \in jobs : j.mount # mount) =>
            /\ \E ps \in Stores :
                 /\ DOMAIN prompts \subseteq ps
                 /\ \A p \in ps \ unseen : ListsRow(prompts, ps, p)
            /\ filter # NoFilter /\ inBrowser =>
                 /\ DOMAIN shown \subseteq OfMemory
                 /\ \A p \in OfMemory \ unseen :
                      RowOf(shown, p) = IF Passes(filter, rows[p]) THEN rows[p] ELSE Absent

=============================================================================
