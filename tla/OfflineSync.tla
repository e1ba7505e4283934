------------------------------ MODULE OfflineSync ------------------------------
(***************************************************************************)
(* The browser's store for the time the server is away (promptApi.ts): a   *)
(* list of prompts in memory, its copy in localStorage, and a timer that   *)
(* asks whether the server answers and then pushes the local prompts.      *)
(*                                                                         *)
(* One action runs from one await to the next.  A request is sent, served, *)
(* and answered in three steps; it or its answer may be lost, which the    *)
(* page cannot tell from a refusal.  The timer does not wait for its last  *)
(* poll: as many run at a time as there are Polls.                         *)
(*                                                                         *)
(* Abstractions: one tab; title stands for the metadata and a version is   *)
(* its semantic version, all that a push compares; a request that is       *)
(* on its way when the page reloads is served before that or never; other  *)
(* clients of the server add, trash and never purge.                       *)
(***************************************************************************)
EXTENDS Naturals, Sequences, FiniteSets, SequencesExt

CONSTANTS
  Slugs, Titles, SemVers,
  Polls,       \* polls that may overlap
  User,        \* who waits for the answer to a call of the page
  PageSize,    \* prompts in one answer of GET /prompts
  MaxCalls,    \* bound on the calls of the page
  MaxFaults,   \* bound on lost requests and answers, and on failed saves
  MaxReloads,  \* bound on reloads of the page
  MaxOthers,   \* bound on the changes by other clients
  MaxEvents    \* bound on all of these together

ASSUME PollsAssumption == Polls # {} /\ User \notin Polls
ASSUME PageSizeAssumption == PageSize \in Nat \ {0}

VARIABLES
  server,      \* rows of the server, by id
  memory,      \* inMemoryStore.prompts
  stored,      \* what localStorage holds
  fallback,    \* fallbackActive
  poll,        \* per poll: where it is and what it has read
  call,        \* the call of the page that awaits its answer
  net,         \* per poll and for User: the request or answer on its way
  ids,         \* ids made so far, by the server and the page
  reached,     \* ghost: slugs that were on the server at some time
  calls, faults, reloads, others

vars == <<server, memory, stored, fallback, poll, call, net, ids, reached,
          calls, faults, reloads, others>>
local == <<memory, stored, fallback, poll, call>>
bounds == <<calls, faults, reloads, others>>
MayHappen == calls + faults + reloads + others < MaxEvents

Prompts == [id : Nat, slug : Slugs, title : Titles, versions : Seq(SemVers)]

Ids(s) == {p.id : p \in ToSet(s)}

(* The prompts of a list but those that are gone, in their order. *)
Without(s, gone) ==
  LET kept == {i \in DOMAIN s : s[i].id \notin gone}
      Nth(k) == CHOOSE i \in kept : Cardinality({j \in kept : j <= i}) = k
  IN  [k \in 1..Cardinality(kept) |-> s[Nth(k)]]

Silent == [op |-> "silent"]
Ok == [op |-> "ok"]
Error == [op |-> "error"]
Ask == [op |-> "ask"]     \* GET /prompts, to see whether the server answers
List == [op |-> "list"]   \* GET /prompts, for the prompts
Idle == [step |-> "idle", todo |-> << >>, seen |-> << >>, attached |-> FALSE]
At(step) == [Idle EXCEPT !.step = step]

(* Of Ask only the arrival of an answer matters, not what it was served. *)
Answered(w) == net[w].op \in {"ask", "ok", "error", "page"}
Fails(w) == net[w].op = "error"

-----------------------------------------------------------------------------
(* The server: the router and the service, as the page sees them. *)

TakenSlugs == {server[i].slug : i \in DOMAIN server}
OnServer(i) == i \in DOMAIN server /\ ~server[i].trashed
Listed == {i \in DOMAIN server : ~server[i].trashed}

Row(slug, title, version) ==
  [slug |-> slug, title |-> title, trashed |-> FALSE, versions |-> <<version>>]

(* The first page of GET /prompts: which prompts it holds is for the       *)
(* server to say, it is full if there are enough of them.  The page maps   *)
(* each slug to the prompt's id and latest semantic version.               *)
Pages ==
  {[slug \in {server[i].slug : i \in shown} |->
      LET i == CHOOSE j \in shown : server[j].slug = slug
      IN  [id |-> i, ver |-> Last(server[i].versions)]] :
    shown \in {s \in SUBSET Listed :
                 \/ s = Listed /\ Cardinality(s) <= PageSize
                 \/ Cardinality(s) = PageSize}}

Reply(w, answer) == net' = [net EXCEPT ![w] = answer]

AddRow(slug, title, version) ==
  /\ ids' = ids + 1
  /\ server' = [i \in DOMAIN server \cup {ids'} |->
                  IF i = ids' THEN Row(slug, title, version) ELSE server[i]]
  /\ reached' = reached \cup {slug}

ServeList(w) ==
  /\ net[w].op = "list"
  /\ \E page \in Pages : Reply(w, [op |-> "page", prompts |-> page])
  /\ UNCHANGED <<server, ids, reached>>

(* POST /prompts: the slug is UNIQUE over active and trashed rows. *)
ServeCreate(w) ==
  /\ net[w].op = "create"
  /\ IF net[w].slug \in TakenSlugs
       THEN Reply(w, Error) /\ UNCHANGED <<server, ids, reached>>
       ELSE Reply(w, Ok) /\ AddRow(net[w].slug, net[w].title, net[w].version)

(* POST /prompts/:id/versions and PUT /prompts/:id. *)
ServeEdit(w) ==
  /\ net[w].op \in {"version", "update"}
  /\ IF ~OnServer(net[w].id)
       THEN Reply(w, Error) /\ UNCHANGED server
       ELSE /\ Reply(w, Ok)
            /\ server' = IF net[w].op = "version"
                 THEN [server EXCEPT ![net[w].id].versions = Append(@, net[w].version)]
                 ELSE [server EXCEPT ![net[w].id].title = net[w].title]
  /\ UNCHANGED <<ids, reached>>

(* DELETE /prompts/:id purges the row, in the trash or not. *)
ServeDelete(w) ==
  /\ net[w].op = "delete"
  /\ IF net[w].id \notin DOMAIN server
       THEN Reply(w, Error) /\ UNCHANGED server
       ELSE /\ Reply(w, Ok)
            /\ server' = [i \in DOMAIN server \ {net[w].id} |-> server[i]]
  /\ UNCHANGED <<ids, reached>>

Serve(w) ==
  /\ ServeList(w) \/ ServeCreate(w) \/ ServeEdit(w) \/ ServeDelete(w)
  /\ UNCHANGED <<local, bounds>>

Lose(w) ==
  /\ net[w].op \notin {"silent", "error"}
  /\ MayHappen /\ faults < MaxFaults
  /\ faults' = faults + 1
  /\ Reply(w, Error)
  /\ UNCHANGED <<server, ids, reached, local, calls, reloads, others>>

OtherClient ==
  /\ MayHappen /\ others < MaxOthers
  /\ others' = others + 1
  /\ \/ \E slug \in Slugs \ TakenSlugs, t \in Titles, v \in SemVers : AddRow(slug, t, v)
     \/ /\ \E i \in Listed :
             \/ \E v \in SemVers : server' = [server EXCEPT ![i].versions = Append(@, v)]
             \/ server' = [server EXCEPT ![i].trashed = TRUE]
        /\ UNCHANGED <<ids, reached>>
  /\ UNCHANGED <<local, net, calls, faults, reloads>>

-----------------------------------------------------------------------------
(* The store of the page. *)

(* saveStore answers whether localStorage took the new list. *)
Saved(prompts) == stored' = prompts /\ faults' = faults
SaveFails == MayHappen /\ faults < MaxFaults /\ faults' = faults + 1 /\ UNCHANGED stored

(* loadStore puts parsed copies into memory: a poll that runs keeps the    *)
(* objects it had, and sees no later edit.                                 *)
Detached == [q \in Polls |-> [poll[q] EXCEPT !.attached = FALSE]]

(* An edit in place is also seen through the list of a poll. *)
EditedIn(s, p) == [i \in DOMAIN s |-> IF s[i].id = p.id THEN p ELSE s[i]]
EditInPlace(p) ==
  \/ /\ Saved(EditedIn(memory, p))
     /\ memory' = stored'
     /\ poll' = [q \in Polls |-> IF poll[q].attached
                                   THEN [poll[q] EXCEPT !.todo = EditedIn(@, p)]
                                   ELSE poll[q]]
     /\ fallback' = TRUE
  \/ SaveFails /\ UNCHANGED <<memory, poll, fallback>>

(* Fault: the prompt stays in memory when it could not be saved. *)
CreateWithoutRollback ==
  /\ call.op = "create"
  /\ ids' = ids + 1
  /\ memory' = Append(memory, [id |-> ids', slug |-> call.slug, title |-> call.title,
                               versions |-> <<call.version>>])
  /\ Saved(memory') \/ SaveFails
  /\ fallback' = TRUE
  /\ UNCHANGED poll

CreateInMemory ==
  /\ call.op = "create"
  /\ ids' = ids + 1
  /\ LET p == [id |-> ids', slug |-> call.slug, title |-> call.title,
               versions |-> <<call.version>>]
     IN  \/ Saved(Append(memory, p)) /\ memory' = stored' /\ fallback' = TRUE
         \/ SaveFails /\ UNCHANGED <<memory, fallback>>
  /\ UNCHANGED poll

NotInMemory == UNCHANGED <<memory, stored, fallback, poll, faults>>

AddVersionInMemory ==
  /\ call.op = "version"
  /\ IF call.id \notin Ids(memory) THEN NotInMemory
     ELSE \E p \in ToSet(memory) :
            /\ p.id = call.id
            /\ EditInPlace([p EXCEPT !.versions = Append(@, call.version)])
  /\ UNCHANGED ids

UpdateInMemory ==
  /\ call.op = "update"
  /\ IF call.id \notin Ids(memory) THEN NotInMemory
     ELSE \E p \in ToSet(memory) :
            /\ p.id = call.id
            /\ EditInPlace([p EXCEPT !.title = call.title])
  /\ UNCHANGED ids

DeleteFromMemory ==
  /\ call.op = "delete"
  /\ poll' = Detached
  /\ \/ /\ call.id \in Ids(stored)
        /\ Saved(Without(stored, {call.id}))
        /\ memory' = stored'
        /\ fallback' = TRUE
     \/ /\ call.id \in Ids(stored)
        /\ SaveFails
        /\ memory' = stored
        /\ UNCHANGED fallback
     \/ /\ call.id \notin Ids(stored)
        /\ memory' = stored
        /\ UNCHANGED <<stored, fallback, faults>>
  /\ UNCHANGED ids

ListFromMemory ==
  /\ call.op = "ask"
  /\ memory' = stored
  /\ poll' = Detached
  /\ fallback' = TRUE
  /\ UNCHANGED <<stored, faults, ids>>

-----------------------------------------------------------------------------
(* Calls of the page: the server first, on any error the store. *)

Requests ==
  {Ask}
    \cup [op : {"create"}, slug : Slugs, title : Titles, version : SemVers]
    \cup [op : {"version"}, id : Ids(memory) \cup Listed, version : SemVers]
    \cup [op : {"update"}, id : Ids(memory) \cup Listed, title : Titles]
    \cup [op : {"delete"}, id : Ids(memory) \cup Listed]

Call ==
  /\ call = Silent
  /\ MayHappen /\ calls < MaxCalls
  /\ calls' = calls + 1
  /\ \E r \in Requests : call' = r /\ net' = [net EXCEPT ![User] = r]
  /\ UNCHANGED <<server, memory, stored, fallback, poll, ids, reached, faults, reloads, others>>

Return ==
  /\ call # Silent
  /\ Answered(User)
  /\ call' = Silent
  /\ Reply(User, Silent)
  /\ IF Fails(User)
       THEN \/ CreateInMemory \/ AddVersionInMemory \/ UpdateInMemory
            \/ DeleteFromMemory \/ ListFromMemory
       ELSE UNCHANGED <<memory, stored, fallback, poll, faults, ids>>
  /\ UNCHANGED <<server, reached, calls, reloads, others>>

-----------------------------------------------------------------------------
(* startBackgroundPoll and trySyncToServer. *)

Goto(q, step, request) == poll' = [poll EXCEPT ![q] = At(step)] /\ Reply(q, request)

Tick(q) ==
  /\ poll[q].step = "idle"
  /\ Goto(q, "check", Ask)
  /\ UNCHANGED <<server, memory, stored, fallback, call, ids, reached, bounds>>

(* The check at the start of the page only sets the flag. *)
FirstChecked(q) ==
  /\ poll[q].step = "first"
  /\ Answered(q)
  /\ fallback' = Fails(q)
  /\ Goto(q, "idle", Silent)
  /\ UNCHANGED <<server, memory, stored, call, ids, reached, bounds>>

Checked(q) ==
  /\ poll[q].step = "check"
  /\ Answered(q)
  /\ IF ~Fails(q) /\ fallback /\ memory # << >>
       THEN Goto(q, "list", List) /\ UNCHANGED fallback
       ELSE Goto(q, "idle", Silent) /\ fallback' = Fails(q)
  /\ UNCHANGED <<server, memory, stored, call, ids, reached, bounds>>

NeedsPush(p, seen) ==
  p.slug \notin DOMAIN seen \/ Last(p.versions) # seen[p.slug].ver

(* Fault: the server's copy is not looked for. *)
PushAlwaysCreates(p, seen) ==
  [op |-> "create", slug |-> p.slug, title |-> p.title, version |-> Last(p.versions)]

Push(p, seen) ==
  IF p.slug \notin DOMAIN seen
    THEN [op |-> "create", slug |-> p.slug, title |-> p.title, version |-> Last(p.versions)]
    ELSE [op |-> "version", id |-> seen[p.slug].id, version |-> Last(p.versions)]

(* The items of a list before the first that needs a request. *)
Settled(todo, seen) ==
  {i \in DOMAIN todo : \A j \in 1..i : ~NeedsPush(todo[j], seen)}

(* The loop up to its next await: prompts that the server has at the same  *)
(* version leave the store, then one is pushed or the poll ends.  What the *)
(* last answer settled, `done`, leaves too; nobody looks at saveStore.     *)
Advance(q, todo, seen, attached, done) ==
  LET k    == Cardinality(Settled(todo, seen)) + 1
      gone == done \cup {todo[i].id : i \in Settled(todo, seen)}
  IN  /\ memory' = Without(memory, gone)
      /\ IF gone = {} THEN UNCHANGED <<stored, faults>> ELSE Saved(memory') \/ SaveFails
      /\ IF k > Len(todo)
           THEN Goto(q, "idle", Silent) /\ fallback' = FALSE
           ELSE /\ poll' = [poll EXCEPT ![q] =
                     [step |-> "push", todo |-> SubSeq(todo, k, Len(todo)),
                      seen |-> seen, attached |-> attached]]
                /\ Reply(q, Push(todo[k], seen))
                /\ UNCHANGED fallback

(* An error of the second GET is swallowed, and the flag falls after it. *)
GotList(q) ==
  /\ poll[q].step = "list"
  /\ Answered(q)
  /\ IF Fails(q)
       THEN Goto(q, "idle", Silent) /\ fallback' = FALSE /\ UNCHANGED <<memory, stored, faults>>
       ELSE Advance(q, memory, net[q].prompts, TRUE, {})
  /\ UNCHANGED <<server, call, ids, reached, calls, reloads, others>>

(* Fault: the prompt is removed in the catch branch as well. *)
PushedOrNot(q) ==
  /\ poll[q].step = "push"
  /\ Answered(q)
  /\ Advance(q, Tail(poll[q].todo), poll[q].seen, poll[q].attached,
             {Head(poll[q].todo).id})
  /\ UNCHANGED <<server, call, ids, reached, calls, reloads, others>>

Pushed(q) ==
  /\ poll[q].step = "push"
  /\ Answered(q)
  /\ Advance(q, Tail(poll[q].todo), poll[q].seen, poll[q].attached,
             IF Fails(q) THEN {} ELSE {Head(poll[q].todo).id})
  /\ UNCHANGED <<server, call, ids, reached, calls, reloads, others>>

PollStep(q) == Tick(q) \/ FirstChecked(q) \/ Checked(q) \/ GotList(q) \/ Pushed(q)

FirstPoll == CHOOSE q \in Polls : TRUE
Started == [q \in Polls |-> IF q = FirstPoll THEN At("first") ELSE Idle]
FirstRequest == [w \in Polls \cup {User} |-> IF w = FirstPoll THEN Ask ELSE Silent]

Reload ==
  /\ MayHappen /\ reloads < MaxReloads
  /\ reloads' = reloads + 1
  /\ memory' = stored
  /\ fallback' = FALSE
  /\ call' = Silent
  /\ poll' = Started /\ net' = FirstRequest
  /\ UNCHANGED <<server, stored, ids, reached, calls, faults, others>>

-----------------------------------------------------------------------------
Init ==
  /\ server = << >>
  /\ memory = << >> /\ stored = << >>
  /\ fallback = FALSE
  /\ call = Silent
  /\ poll = Started /\ net = FirstRequest
  /\ ids = 0 /\ reached = {}
  /\ calls = 0 /\ faults = 0 /\ reloads = 0 /\ others = 0

Next ==
  \/ \E w \in Polls \cup {User} : Serve(w) \/ Lose(w)
  \/ OtherClient
  \/ Call
  \/ Return
  \/ \E q \in Polls : PollStep(q)
  \/ Reload

(* The timer fires for ever, and a fetch is answered or fails. *)
Fairness ==
  /\ \A q \in Polls : WF_vars(PollStep(q))
  /\ \A w \in Polls \cup {User} : WF_vars(Serve(w))
  /\ WF_vars(Return)

Spec == Init /\ [][Next]_vars
FairSpec == Spec /\ Fairness

-----------------------------------------------------------------------------
TypeOK ==
  /\ ids \in Nat
  /\ DOMAIN server \subseteq 1..ids
  /\ \A i \in DOMAIN server : server[i] \in
       [slug : Slugs, title : Titles, trashed : BOOLEAN, versions : Seq(SemVers)]
  /\ memory \in Seq(Prompts) /\ stored \in Seq(Prompts)
  /\ fallback \in BOOLEAN
  /\ \A q \in Polls :
       /\ poll[q].step \in {"idle", "first", "check", "list", "push"}
       /\ poll[q].todo \in Seq(Prompts)
       /\ (poll[q].todo = << >>) <=> (poll[q].step # "push")
       /\ (net[q] = Silent) <=> (poll[q].step = "idle")
  /\ (net[User] = Silent) <=> (call = Silent)
  /\ reached \subseteq Slugs

(* What the page shows of its own prompts survives a reload, whatever saves *)
(* failed before: an edit that was not saved is taken back, and a prompt    *)
(* that was pushed is never saved without being removed from memory.        *)
MemoryIsStored == TypeOK /\ ToSet(memory) \subseteq ToSet(stored)

(* A local prompt leaves the store only when the user deletes it or its slug *)
(* has reached the server, and loses no version while it stays: for all      *)
(* overlapping polls, reloads of the store and lost answers.                 *)
LocalKept ==
  [][\A p \in ToSet(memory) :
       \/ \E p2 \in ToSet(memory') : p2.id = p.id /\ IsPrefix(p.versions, p2.versions)
       \/ p.id \notin Ids(memory') /\ p.slug \in reached
       \/ call.op = "delete" /\ call.id = p.id]_vars

(* From here on the server answers and nobody edits; the page has no two     *)
(* prompts of one slug, none whose slug is in the trash of the server, and    *)
(* one that the server has is on the page that the server shows.              *)
Calm ==
  /\ ~MayHappen
  /\ call = Silent
  /\ \A q \in Polls : poll[q].step = "idle"
  /\ \A i, j \in DOMAIN memory : memory[i].slug = memory[j].slug => i = j
  /\ \A p \in ToSet(memory) : \A i \in DOMAIN server :
       server[i].slug = p.slug => ~server[i].trashed /\ Cardinality(Listed) <= PageSize

(* If the page knows that the server was away, and the server then answers,   *)
(* every local prompt is pushed, also when polls overlap and push one twice.  *)
Drains == Calm /\ fallback ~> memory = << >>

=============================================================================
