-------------------------- MODULE OfflineSync_proofs ---------------------------
(***************************************************************************)
(* Proofs about OfflineSync, for every value of its constants.             *)
(***************************************************************************)
EXTENDS OfflineSync, FiniteSetTheorems, SequenceTheorems, TLAPS

(* Rows are typed, and their slugs are remembered.                         *)
ServerTyped ==
  /\ ids \in Nat /\ reached \subseteq Slugs
  /\ DOMAIN server \subseteq 1..ids
  /\ \A i \in DOMAIN server : server[i] \in
       [slug : Slugs, title : Titles, trashed : BOOLEAN, versions : Seq(SemVers)]
  /\ \A i \in DOMAIN server : server[i].slug \in reached

(* A list has one prompt of each id.                                       *)
OneOfEach(s) == \A p, p2 \in ToSet(s) : p.id = p2.id => p = p2

Lists ==
  /\ memory \in Seq(Prompts) /\ stored \in Seq(Prompts) /\ fallback \in BOOLEAN
  /\ ToSet(memory) \subseteq ToSet(stored)
  /\ OneOfEach(memory) /\ OneOfEach(stored)

(* The prompts of the page, wherever it has them: an id stands for one     *)
(* slug, also in what a poll has read long ago.                            *)
Known == ToSet(memory) \cup ToSet(stored) \cup UNION {ToSet(poll[q].todo) : q \in Polls}

SlugById ==
  /\ \A p \in Known : p.id <= ids /\ p.versions # << >>
  /\ \A p, p2 \in Known : p.id = p2.id => p.slug = p2.slug

(* A request carries what a row can hold, and what a poll takes for the    *)
(* slugs of the server have been there, ...                                *)
Sendable(r) ==
  /\ r.op = "create" => r.slug \in Slugs /\ r.title \in Titles /\ r.version \in SemVers
  /\ r.op = "version" => r.version \in SemVers
  /\ r.op = "update" => r.title \in Titles

Carried(w) ==
  /\ Sendable(net[w])
  /\ net[w].op = "page" => DOMAIN net[w].prompts \subseteq reached

UserWaits == Sendable(call) /\ ((net[User] = Silent) <=> (call = Silent))

(* ... and so has what it pushes, unless the push is still on its way to   *)
(* create it, or has failed.                                               *)
PushUnderWay(q) ==
  LET p == Head(poll[q].todo)
  IN  \/ net[q].op = "create" /\ net[q].slug = p.slug
      \/ net[q].op \in {"version", "ok"} /\ p.slug \in reached
      \/ net[q].op = "error"

Waiting(q) ==
  /\ poll[q] = [step |-> poll[q].step, todo |-> poll[q].todo,
                seen |-> poll[q].seen, attached |-> poll[q].attached]
  /\ poll[q].step \in {"idle", "first", "check", "list", "push"}
  /\ poll[q].todo \in Seq(Prompts)
  /\ (poll[q].todo = << >>) <=> (poll[q].step # "push")
  /\ (net[q] = Silent) <=> (poll[q].step = "idle")
  /\ poll[q].step \in {"first", "check"} => net[q].op \in {"ask", "error"}
  /\ poll[q].step = "list" => net[q].op \in {"list", "page", "error"}
  /\ poll[q].step = "push" => DOMAIN poll[q].seen \subseteq reached /\ PushUnderWay(q)

IInv ==
  /\ ServerTyped
  /\ Lists
  /\ SlugById
  /\ DOMAIN poll = Polls /\ DOMAIN net = Polls \cup {User}
  /\ \A w \in Polls \cup {User} : Carried(w)
  /\ UserWaits
  /\ \A q \in Polls : Waiting(q)

-----------------------------------------------------------------------------
(* Lists *)

(* Different items that are kept have different ranks, and there is one of *)
(* each rank.                                                              *)
LEMMA RanksAreIndices ==
  ASSUME NEW n \in Nat, NEW kept \in SUBSET (1..n)
  PROVE  /\ Cardinality(kept) \in Nat
         /\ \A i \in kept : Cardinality({j \in kept : j <= i}) \in 1..Cardinality(kept)
         /\ \A k \in 1..Cardinality(kept) :
              \E i \in kept : Cardinality({j \in kept : j <= i}) = k
         /\ \A i, j \in kept : Cardinality({x \in kept : x <= i}) = Cardinality({x \in kept : x <= j})
                                => i = j
<1> DEFINE upTo(i) == {j \in kept : j <= i}
           rank(i) == Cardinality(upTo(i))
           ranks == 1..Cardinality(kept)
<1>1. IsFiniteSet(kept) /\ Cardinality(kept) \in Nat
  <2>1. IsFiniteSet(1..n)
    BY FS_Interval
  <2>2. QED
    BY <2>1, FS_Subset, FS_CardinalityType
<1>2. ASSUME NEW i \in kept
      PROVE  IsFiniteSet(upTo(i)) /\ rank(i) \in ranks
  <2>1. IsFiniteSet(upTo(i)) /\ rank(i) <= Cardinality(kept)
    BY <1>1, FS_Subset
  <2>2. rank(i) \in Nat /\ rank(i) # 0
    <3>1. i \in upTo(i)
      OBVIOUS
    <3>2. QED
      BY <2>1, <3>1, FS_CardinalityType, FS_EmptySet
  <2>3. QED
    BY <1>1, <2>1, <2>2
<1>3. ASSUME NEW i \in kept, NEW j \in kept, i < j
      PROVE  rank(i) # rank(j)
  <2>1. i \in Nat /\ j \in Nat /\ \A x \in kept : x \in Nat
    OBVIOUS
  <2>2. upTo(i) \in SUBSET upTo(j)
    <3>1. \A x \in kept : x <= i => x <= j
      BY <1>3, <2>1
    <3>2. QED
      BY <3>1
  <2>3. j \in upTo(j) /\ j \notin upTo(i)
    BY <1>3, <2>1
  <2>4. QED
    BY <1>2, <2>2, <2>3, FS_Subset
<1>4. \A i, j \in kept : rank(i) = rank(j) => i = j
  BY <1>3
<1> DEFINE f == [i \in kept |-> rank(i)]
<1>5. f \in Injection(kept, ranks)
  BY <1>2, <1>4 DEF Injection, IsInjective
<1>6. IsFiniteSet(ranks) /\ Cardinality(ranks) = Cardinality(kept)
  BY <1>1, FS_Interval
<1>7. f \in Surjection(kept, ranks)
  BY <1>1, <1>5, <1>6, FS_Injection
<1>8. \A k \in ranks : \E i \in kept : rank(i) = k
  BY <1>7 DEF Surjection
<1>9. QED
  BY <1>1, <1>2, <1>4, <1>8

LEMMA WithoutIs ==
  ASSUME NEW S, NEW s \in Seq(S), NEW gone
  PROVE  /\ Without(s, gone) \in Seq(S)
         /\ ToSet(Without(s, gone)) = {p \in ToSet(s) : p.id \notin gone}
<1> DEFINE kept == {i \in DOMAIN s : s[i].id \notin gone}
           rank(i) == Cardinality({j \in kept : j <= i})
           Nth(k) == CHOOSE i \in kept : rank(i) = k
           n == Cardinality(kept)
           w == [k \in 1..n |-> s[Nth(k)]]
<1>1. DOMAIN s = 1..Len(s) /\ Len(s) \in Nat
  OBVIOUS
<1>2. kept \in SUBSET (1..Len(s))
  BY <1>1
<1>3. /\ n \in Nat
      /\ \A i \in kept : rank(i) \in 1..n
      /\ \A k \in 1..n : \E i \in kept : rank(i) = k
      /\ \A i, j \in kept : rank(i) = rank(j) => i = j
  <2> HIDE DEF kept
  <2>1. QED
    BY <1>1, <1>2, RanksAreIndices
<1>4. Without(s, gone) = w
  BY DEF Without
<1> HIDE DEF n
<1>5. \A k \in 1..n : Nth(k) \in kept /\ rank(Nth(k)) = k
  <2> HIDE DEF rank, kept
  <2>1. QED
    BY <1>3
<1>6. \A i \in kept : Nth(rank(i)) = i
  <2> HIDE DEF rank, kept, Nth
  <2>1. QED
    BY <1>3, <1>5
<1> HIDE DEF rank, Nth
<1>7. \A i \in kept : i \in 1..Len(s) /\ s[i] \in S /\ s[i] \in ToSet(s) /\ s[i].id \notin gone
  BY <1>1 DEF ToSet
<1>8. \A p \in ToSet(s) : p.id \notin gone => \E i \in kept : s[i] = p
  BY DEF ToSet
<1> HIDE DEF kept
<1>9. w \in Seq(S)
  <2>1. \A k \in 1..n : s[Nth(k)] \in S
    BY <1>5, <1>7
  <2>2. QED
    BY <1>3, <2>1
<1>10. DOMAIN w = 1..n /\ \A k \in 1..n : w[k] = s[Nth(k)]
  OBVIOUS
<1> HIDE DEF w
<1>11. ASSUME NEW p \in ToSet(w)
       PROVE  p \in ToSet(s) /\ p.id \notin gone
  BY <1>5, <1>7, <1>10 DEF ToSet
<1>12. ASSUME NEW p \in ToSet(s), p.id \notin gone
       PROVE  p \in ToSet(w)
  <2>1. PICK i \in kept : s[i] = p
    BY <1>8, <1>12
  <2>2. rank(i) \in 1..n /\ w[rank(i)] = p
    BY <1>3, <1>6, <1>10, <2>1
  <2>3. QED
    BY <1>10, <2>2 DEF ToSet
<1>13. QED
  BY <1>4, <1>9, <1>11, <1>12

-----------------------------------------------------------------------------
(* The server *)

(* The rows change, and no slug is forgotten. *)
ServerMoves ==
  /\ ServerTyped'
  /\ ids <= ids'
  /\ reached \subseteq reached'

LEMMA AddRowMoves ==
  ASSUME ServerTyped, NEW slug \in Slugs, NEW t \in Titles, NEW v \in SemVers,
         AddRow(slug, t, v)
  PROVE  ServerMoves /\ slug \in reached'
<1>1. Row(slug, t, v) \in [slug : Slugs, title : Titles, trashed : BOOLEAN, versions : Seq(SemVers)]
  BY DEF Row
<1>2. Row(slug, t, v).slug = slug
  BY DEF Row
<1>3. /\ ids \in Nat /\ ids' = ids + 1 /\ 1..ids' = (1..ids) \cup {ids'}
      /\ DOMAIN server' = DOMAIN server \cup {ids'}
      /\ server'[ids'] = Row(slug, t, v)
      /\ \A i \in DOMAIN server : i # ids' /\ server'[i] = server[i]
      /\ reached' = reached \cup {slug}
  BY DEF AddRow, ServerTyped
<1>4. QED
  BY <1>1, <1>2, <1>3 DEF ServerMoves, ServerTyped

LEMMA EditRowMoves ==
  ASSUME ServerTyped, NEW i \in DOMAIN server, NEW row,
         row \in [slug : Slugs, title : Titles, trashed : BOOLEAN, versions : Seq(SemVers)],
         row.slug = server[i].slug,
         DOMAIN server' = DOMAIN server, server'[i] = row,
         \A j \in DOMAIN server \ {i} : server'[j] = server[j],
         UNCHANGED <<ids, reached>>
  PROVE  ServerMoves
<1>1. \A j \in DOMAIN server' :
        /\ server'[j] \in [slug : Slugs, title : Titles, trashed : BOOLEAN, versions : Seq(SemVers)]
        /\ server'[j].slug \in reached
  BY DEF ServerTyped
<1>2. QED
  BY <1>1 DEF ServerMoves, ServerTyped

(* What the server answers with. *)
Answers(old, new) ==
  \/ old.op = "list" /\ new.op = "page" /\ DOMAIN new.prompts \subseteq reached'
  \/ old.op = "create" /\ new.op = "ok" /\ old.slug \in reached'
  \/ old.op \in {"version", "update", "delete"} /\ new.op = "ok"
  \/ old.op \in {"create", "version", "update", "delete"} /\ new.op = "error"

LEMMA ServeMoves ==
  ASSUME ServerTyped, NEW w \in Polls \cup {User}, Sendable(net[w]), Serve(w)
  PROVE  /\ ServerMoves
         /\ \E answer : net' = [net EXCEPT ![w] = answer] /\ Answers(net[w], answer)
<1>1. CASE ServeList(w)
  <2>1. PICK page \in Pages : net' = [net EXCEPT ![w] = [op |-> "page", prompts |-> page]]
    BY <1>1 DEF ServeList, Reply
  <2>2. UNCHANGED <<server, ids, reached>> /\ net[w].op = "list"
    BY <1>1 DEF ServeList
  <2>3. ServerMoves
    BY <2>2 DEF ServerMoves, ServerTyped
  <2>4. DOMAIN page \subseteq reached
    <3>1. PICK shown \in SUBSET Listed : DOMAIN page = {server[i].slug : i \in shown}
      BY DEF Pages
    <3>2. QED
      BY <3>1 DEF Listed, ServerTyped
  <2> DEFINE answer == [op |-> "page", prompts |-> page]
  <2>5. answer.op = "page" /\ answer.prompts = page
    OBVIOUS
  <2>6. Answers(net[w], answer)
    BY <2>2, <2>4, <2>5 DEF Answers
  <2>7. QED
    BY <2>1, <2>3, <2>6
<1>2. CASE ServeCreate(w)
  <2>1. CASE net[w].slug \in TakenSlugs
    <3>1. net' = [net EXCEPT ![w] = Error] /\ UNCHANGED <<server, ids, reached>> /\ net[w].op = "create"
      BY <1>2, <2>1 DEF ServeCreate, Reply
    <3>2. Answers(net[w], Error)
      BY <3>1 DEF Answers, Error
    <3>3. ServerMoves
      BY <3>1 DEF ServerMoves, ServerTyped
    <3>4. QED
      BY <3>1, <3>2, <3>3
  <2>2. CASE net[w].slug \notin TakenSlugs
    <3>1. /\ net' = [net EXCEPT ![w] = Ok] /\ net[w].op = "create"
          /\ AddRow(net[w].slug, net[w].title, net[w].version)
      BY <1>2, <2>2 DEF ServeCreate, Reply
    <3>2. ServerMoves /\ net[w].slug \in reached'
      BY <3>1, AddRowMoves DEF Sendable
    <3>3. Answers(net[w], Ok)
      BY <3>1, <3>2 DEF Answers, Ok
    <3>4. QED
      BY <3>1, <3>2, <3>3
  <2>3. QED
    BY <2>1, <2>2
<1>3. CASE ServeEdit(w)
  <2>1. net[w].op \in {"version", "update"} /\ UNCHANGED <<ids, reached>>
    BY <1>3 DEF ServeEdit
  <2>2. Answers(net[w], Error) /\ Answers(net[w], Ok)
    BY <2>1 DEF Answers, Error, Ok
  <2>3. CASE ~OnServer(net[w].id)
    <3>1. net' = [net EXCEPT ![w] = Error] /\ UNCHANGED server
      BY <1>3, <2>3 DEF ServeEdit, Reply
    <3>2. ServerMoves
      BY <2>1, <3>1 DEF ServerMoves, ServerTyped
    <3>3. QED
      BY <2>2, <3>1, <3>2
  <2>4. CASE OnServer(net[w].id)
    <3> DEFINE i == net[w].id
               old == server[i]
               longer == [old EXCEPT !.versions = Append(old.versions, net[w].version)]
               renamed == [old EXCEPT !.title = net[w].title]
               Rows == [slug : Slugs, title : Titles, trashed : BOOLEAN, versions : Seq(SemVers)]
    <3>1. net' = [net EXCEPT ![w] = Ok]
      BY <1>3, <2>4 DEF ServeEdit, Reply
    <3>2. i \in DOMAIN server
      BY <2>4 DEF OnServer
    <3>3. old \in Rows
      BY <3>2 DEF ServerTyped
    <3>7. server' = IF net[w].op = "version"
                      THEN [server EXCEPT ![i].versions = Append(@, net[w].version)]
                      ELSE [server EXCEPT ![i].title = net[w].title]
      BY <1>3, <2>4 DEF ServeEdit
    <3>8. /\ DOMAIN server' = DOMAIN server
          /\ \A j \in DOMAIN server \ {i} : server'[j] = server[j]
      BY <3>7
    <3>4. ASSUME net[w].op = "version"
          PROVE  ServerMoves
      <4>1. server'[i] = longer
        BY <3>2, <3>4, <3>7
      <4>2. net[w].version \in SemVers
        BY <3>4 DEF Sendable
      <4>3. longer \in Rows /\ longer.slug = old.slug
        <5> HIDE DEF old
        <5>1. QED
          BY <3>3, <4>2
      <4> HIDE DEF longer
      <4>4. QED
        BY <2>1, <3>2, <3>8, <4>1, <4>3, EditRowMoves
    <3>5. ASSUME net[w].op = "update"
          PROVE  ServerMoves
      <4>1. server'[i] = renamed
        BY <3>2, <3>5, <3>7
      <4>2. net[w].title \in Titles
        BY <3>5 DEF Sendable
      <4>3. renamed \in Rows /\ renamed.slug = old.slug
        <5> HIDE DEF old
        <5>1. QED
          BY <3>3, <4>2
      <4> HIDE DEF renamed
      <4>4. QED
        BY <2>1, <3>2, <3>8, <4>1, <4>3, EditRowMoves
    <3>6. QED
      BY <2>1, <2>2, <3>1, <3>4, <3>5
  <2>5. QED
    BY <2>3, <2>4
<1>4. CASE ServeDelete(w)
  <2>1. net[w].op = "delete" /\ UNCHANGED <<ids, reached>>
    BY <1>4 DEF ServeDelete
  <2>2. Answers(net[w], Error) /\ Answers(net[w], Ok)
    BY <2>1 DEF Answers, Error, Ok
  <2>3. net' = [net EXCEPT ![w] = Error] \/ net' = [net EXCEPT ![w] = Ok]
    BY <1>4 DEF ServeDelete, Reply
  <2>4. /\ DOMAIN server' \subseteq DOMAIN server
        /\ \A j \in DOMAIN server' : server'[j] = server[j]
    BY <1>4 DEF ServeDelete
  <2>5. ServerMoves
    BY <2>1, <2>4 DEF ServerMoves, ServerTyped
  <2>6. QED
    BY <2>2, <2>3, <2>5
<1>5. QED
  BY <1>1, <1>2, <1>3, <1>4 DEF Serve

LEMMA OtherClientMoves ==
  ASSUME ServerTyped, OtherClient
  PROVE  ServerMoves
<1>1. ASSUME NEW slug \in Slugs, NEW t \in Titles, NEW v \in SemVers, AddRow(slug, t, v)
      PROVE  ServerMoves
  BY <1>1, AddRowMoves
<1>2. ASSUME NEW i \in Listed, UNCHANGED <<ids, reached>>,
             \/ \E v \in SemVers : server' = [server EXCEPT ![i].versions = Append(@, v)]
             \/ server' = [server EXCEPT ![i].trashed = TRUE]
      PROVE  ServerMoves
  <2> DEFINE old == server[i]
  <2>1. i \in DOMAIN server
    BY DEF Listed
  <2>2. old \in [slug : Slugs, title : Titles, trashed : BOOLEAN, versions : Seq(SemVers)]
    BY <2>1 DEF ServerTyped
  <2>3. ASSUME NEW v \in SemVers, server' = [server EXCEPT ![i].versions = Append(@, v)]
        PROVE  ServerMoves
    <3> DEFINE row == [old EXCEPT !.versions = Append(old.versions, v)]
    <3>1. /\ DOMAIN server' = DOMAIN server /\ server'[i] = row
          /\ \A j \in DOMAIN server \ {i} : server'[j] = server[j]
      BY <2>1, <2>3
    <3>2. /\ row \in [slug : Slugs, title : Titles, trashed : BOOLEAN, versions : Seq(SemVers)]
          /\ row.slug = old.slug
      <4> HIDE DEF old
      <4>1. QED
        BY <2>2
    <3> HIDE DEF row
    <3>3. QED
      BY <1>2, <2>1, <3>1, <3>2, EditRowMoves
  <2>4. ASSUME server' = [server EXCEPT ![i].trashed = TRUE]
        PROVE  ServerMoves
    <3> DEFINE row == [old EXCEPT !.trashed = TRUE]
    <3>1. /\ DOMAIN server' = DOMAIN server /\ server'[i] = row
          /\ \A j \in DOMAIN server \ {i} : server'[j] = server[j]
      BY <2>1, <2>4
    <3>2. /\ row \in [slug : Slugs, title : Titles, trashed : BOOLEAN, versions : Seq(SemVers)]
          /\ row.slug = old.slug
      <4> HIDE DEF old
      <4>1. QED
        BY <2>2
    <3> HIDE DEF row
    <3>3. QED
      BY <1>2, <2>1, <3>1, <3>2, EditRowMoves
  <2>5. QED
    BY <1>2, <2>3, <2>4
<1>3. QED
  BY <1>1, <1>2 DEF OtherClient

-----------------------------------------------------------------------------
(* What a step leaves as it was *)

LEMMA InvIsStored == IInv => MemoryIsStored
BY DEF IInv, ServerTyped, Lists, UserWaits, Waiting, MemoryIsStored, TypeOK

(* The ops of what is sent tell the messages apart. *)
LEMMA OpsDiffer ==
  /\ Silent.op = "silent" /\ Ok.op = "ok" /\ Error.op = "error"
  /\ Ask.op = "ask" /\ List.op = "list"
BY DEF Silent, Ok, Error, Ask, List

LEMMA WaitingStays ==
  ASSUME NEW q, Waiting(q), poll'[q] = poll[q], net'[q] = net[q], reached \subseteq reached'
  PROVE  Waiting(q)'
BY DEF Waiting, PushUnderWay

LEMMA CarriedStays ==
  ASSUME NEW w, Carried(w), net'[w] = net[w], reached \subseteq reached'
  PROVE  Carried(w)'
BY DEF Carried, Sendable

(* No prompt comes to the page. *)
LEMMA NothingNew ==
  ASSUME SlugById, ids \in Nat, ids' \in Nat, ids <= ids', Known' \subseteq Known,
         \A p \in Known : p.id \in Nat
  PROVE  SlugById'
BY DEF SlugById

LEMMA KnownTyped ==
  ASSUME Lists, \A q \in Polls : Waiting(q)
  PROVE  \A p \in Known : p \in Prompts /\ p.id \in Nat
<1>1. \A s \in Seq(Prompts) : \A p \in ToSet(s) : p \in Prompts
  BY DEF ToSet
<1>2. \A p \in Known : p \in Prompts
  BY ZenonT(60), <1>1 DEF Known, Lists, Waiting
<1>3. QED
  BY <1>2 DEF Prompts

(* The server answers, or a message is lost, and the page waits for it.    *)
LEMMA AnswerWaits ==
  ASSUME NEW q \in Polls, Waiting(q), NEW answer, net'[q] = answer, poll'[q] = poll[q],
         reached \subseteq reached',
         Answers(net[q], answer) \/ (net[q].op # "silent" /\ answer = Error)
  PROVE  Waiting(q)'
<1>1. net[q].op # "silent"
  BY DEF Answers
<1>2. net[q] # Silent
  BY <1>1, OpsDiffer
<1>3. answer.op \in {"page", "ok", "error"}
  BY OpsDiffer DEF Answers
<1>4. answer # Silent
  BY <1>3, OpsDiffer
<1>5. poll[q].step \in {"first", "check"} => answer.op = "error"
  BY <1>3, OpsDiffer DEF Waiting, Answers
<1>6. poll[q].step = "list" => answer.op \in {"page", "error"}
  BY OpsDiffer DEF Waiting, Answers
<1>7. ASSUME poll[q].step = "push"
      PROVE  PushUnderWay(q)'
  <2>1. PushUnderWay(q)
    BY <1>7 DEF Waiting
  <2>2. answer.op = "error" \/ (answer.op = "ok" /\ Head(poll[q].todo).slug \in reached')
    BY <2>1, OpsDiffer DEF PushUnderWay, Answers
  <2>3. QED
    BY <2>2 DEF PushUnderWay
<1>8. QED
  BY <1>2, <1>4, <1>5, <1>6, <1>7 DEF Waiting

LEMMA AnswerInv ==
  ASSUME IInv, ServerMoves, NEW w \in Polls \cup {User}, NEW answer,
         net' = [net EXCEPT ![w] = answer], UNCHANGED local,
         Answers(net[w], answer) \/ (net[w].op # "silent" /\ answer = Error)
  PROVE  IInv'
<1>1. /\ UNCHANGED <<memory, stored, fallback, poll, call>>
      /\ DOMAIN net' = DOMAIN net /\ net'[w] = answer
      /\ \A x \in Polls \cup {User} : x # w => net'[x] = net[x]
  BY DEF local, IInv
<1>2. ServerTyped' /\ ids <= ids' /\ reached \subseteq reached' /\ ids \in Nat /\ ids' \in Nat
  BY DEF ServerMoves, IInv, ServerTyped
<1>3. Lists'
  BY <1>1 DEF IInv, Lists, OneOfEach
<1>4. SlugById'
  <2>1. Known' = Known
    BY <1>1 DEF Known
  <2>2. QED
    BY <1>2, <2>1, NothingNew, KnownTyped DEF IInv
<1>5. ASSUME NEW x \in Polls \cup {User}
      PROVE  Carried(x)'
  <2>1. CASE x # w
    BY <1>1, <1>2, <2>1, CarriedStays DEF IInv
  <2>2. CASE x = w
    BY <1>1, <2>2, OpsDiffer DEF Carried, Sendable, Answers
  <2>3. QED
    BY <2>1, <2>2
<1>6. ASSUME NEW q \in Polls
      PROVE  Waiting(q)'
  <2>1. CASE q # w
    BY <1>1, <1>2, <2>1, WaitingStays DEF IInv
  <2>2. CASE q = w
    BY <1>1, <1>2, <2>2, AnswerWaits DEF IInv
  <2>3. QED
    BY <2>1, <2>2
<1>7. UserWaits'
  <2>1. CASE User # w
    BY <1>1, <2>1 DEF IInv, UserWaits, Sendable
  <2>2. CASE User = w
    <3>1. net[w] # Silent /\ answer # Silent
      BY OpsDiffer DEF Answers
    <3>2. QED
      BY <1>1, <2>2, <3>1 DEF IInv, UserWaits, Sendable
  <2>3. QED
    BY <2>1, <2>2
<1>8. QED
  BY <1>1, <1>2, <1>3, <1>4, <1>5, <1>6, <1>7 DEF IInv

LEMMA ServeInv ==
  ASSUME IInv, NEW w \in Polls \cup {User}, Serve(w)
  PROVE  IInv'
<1>1. UNCHANGED local
  BY DEF Serve
<1>2. ServerTyped /\ Sendable(net[w])
  BY DEF IInv, Carried
<1>3. QED
  BY <1>1, <1>2, ServeMoves, AnswerInv

LEMMA LoseInv ==
  ASSUME IInv, NEW w \in Polls \cup {User}, Lose(w)
  PROVE  IInv'
<1>1. UNCHANGED <<server, ids, reached>> /\ UNCHANGED local
  BY DEF Lose, local
<1>2. net' = [net EXCEPT ![w] = Error] /\ net[w].op # "silent"
  BY DEF Lose, Reply
<1>3. ServerMoves
  BY <1>1 DEF ServerMoves, IInv, ServerTyped
<1>4. QED
  BY <1>1, <1>2, <1>3, AnswerInv

LEMMA OtherClientInv == IInv /\ OtherClient => IInv'
<1> SUFFICES ASSUME IInv, OtherClient PROVE IInv'
  OBVIOUS
<1>1. UNCHANGED <<memory, stored, fallback, poll, call, net>>
  BY DEF OtherClient, local
<1>2. ServerMoves
  BY OtherClientMoves DEF IInv
<1>3. ServerTyped' /\ ids <= ids' /\ reached \subseteq reached' /\ ids \in Nat /\ ids' \in Nat
  BY <1>2 DEF ServerMoves, IInv, ServerTyped
<1>4. Lists' /\ UserWaits'
  BY <1>1 DEF IInv, Lists, OneOfEach, UserWaits, Sendable
<1>5. SlugById'
  <2>1. Known' = Known
    BY <1>1 DEF Known
  <2>2. QED
    BY <1>3, <2>1, NothingNew, KnownTyped DEF IInv
<1>6. \A w \in Polls \cup {User} : Carried(w)'
  BY <1>1, <1>3, CarriedStays DEF IInv
<1>7. \A q \in Polls : Waiting(q)'
  BY <1>1, <1>3, WaitingStays DEF IInv
<1>8. QED
  BY <1>1, <1>3, <1>4, <1>5, <1>6, <1>7 DEF IInv

-----------------------------------------------------------------------------
(* Lists that are edited or read on *)

LEMMA EditedInIs ==
  ASSUME NEW s \in Seq(Prompts), NEW p \in Prompts
  PROVE  /\ EditedIn(s, p) \in Seq(Prompts)
         /\ EditedIn(s, p) = << >> <=> s = << >>
         /\ \A x \in ToSet(EditedIn(s, p)) : x = p \/ (x \in ToSet(s) /\ x.id # p.id)
         /\ \A x \in ToSet(s) : IF x.id = p.id THEN p \in ToSet(EditedIn(s, p))
                                               ELSE x \in ToSet(EditedIn(s, p))
         /\ (\A x \in ToSet(s) : x.id = p.id => x.slug = p.slug) /\ s # << >>
              => Head(EditedIn(s, p)).slug = Head(s).slug
<1> DEFINE e == EditedIn(s, p)
<1>1. DOMAIN s = 1..Len(s) /\ Len(s) \in Nat /\ \A i \in 1..Len(s) : s[i] \in Prompts
  OBVIOUS
<1>2. /\ e = [i \in 1..Len(s) |-> IF s[i].id = p.id THEN p ELSE s[i]]
      /\ DOMAIN e = 1..Len(s)
      /\ \A i \in 1..Len(s) : e[i] = IF s[i].id = p.id THEN p ELSE s[i]
  BY <1>1 DEF EditedIn
<1>3. e \in Seq(Prompts) /\ Len(e) = Len(s)
  BY <1>1, <1>2
<1> HIDE DEF e
<1>4. e = << >> <=> s = << >>
  BY <1>1, <1>3
<1>5. \A x \in ToSet(e) : x = p \/ (x \in ToSet(s) /\ x.id # p.id)
  BY <1>1, <1>2 DEF ToSet
<1>6. \A x \in ToSet(s) : IF x.id = p.id THEN p \in ToSet(e) ELSE x \in ToSet(e)
  <2>1. ASSUME NEW i \in 1..Len(s)
        PROVE  IF s[i].id = p.id THEN p \in ToSet(e) ELSE s[i] \in ToSet(e)
    BY <1>2 DEF ToSet
  <2>2. QED
    BY <1>1, <2>1 DEF ToSet
<1>7. ASSUME \A x \in ToSet(s) : x.id = p.id => x.slug = p.slug, s # << >>
      PROVE  Head(e).slug = Head(s).slug
  <2>1. 1 \in 1..Len(s) /\ Head(s) = s[1] /\ Head(e) = e[1]
    BY <1>1, <1>3, <1>4, <1>7
  <2>2. s[1] \in ToSet(s)
    BY <1>1, <2>1 DEF ToSet
  <2>3. QED
    BY <1>2, <1>7, <2>1, <2>2
<1>8. QED
  BY <1>3, <1>4, <1>5, <1>6, <1>7 DEF e

LEMMA RestIs ==
  ASSUME NEW s \in Seq(Prompts), NEW k \in 1..Len(s)
  PROVE  /\ SubSeq(s, k, Len(s)) \in Seq(Prompts)
         /\ SubSeq(s, k, Len(s)) # << >>
         /\ Head(SubSeq(s, k, Len(s))) = s[k]
         /\ ToSet(SubSeq(s, k, Len(s))) \subseteq ToSet(s)
<1> DEFINE r == SubSeq(s, k, Len(s))
<1>1. /\ k \in Nat /\ Len(s) \in Nat /\ k <= Len(s) /\ DOMAIN s = 1..Len(s)
      /\ \A i \in k..Len(s) : s[i] \in Prompts
  OBVIOUS
<1>2. /\ r \in Seq(Prompts) /\ Len(r) = Len(s) - k + 1
      /\ \A i \in 1..(Len(s) - k + 1) : r[i] = s[k + i - 1]
  BY <1>1, SubSeqProperties
<1> HIDE DEF r
<1>3. 1 \in 1..(Len(s) - k + 1) /\ DOMAIN r = 1..(Len(s) - k + 1)
  BY <1>1, <1>2
<1>4. r # << >> /\ Head(r) = r[1] /\ r[1] = s[k]
  BY <1>1, <1>2, <1>3
<1>5. \A i \in 1..(Len(s) - k + 1) : k + i - 1 \in DOMAIN s
  BY <1>1
<1>6. ToSet(r) \subseteq ToSet(s)
  BY <1>2, <1>3, <1>5 DEF ToSet
<1>7. QED
  BY <1>2, <1>4, <1>6 DEF r

LEMMA TailIs ==
  ASSUME NEW s \in Seq(Prompts), s # << >>
  PROVE  /\ Tail(s) \in Seq(Prompts) /\ ToSet(Tail(s)) \subseteq ToSet(s)
         /\ Head(s) \in ToSet(s)
<1>1. DOMAIN s = 1..Len(s) /\ Len(s) \in Nat /\ 1 \in DOMAIN s /\ Head(s) = s[1]
  OBVIOUS
<1>2. /\ Tail(s) \in Seq(Prompts)
      /\ DOMAIN Tail(s) = 1..(Len(s) - 1)
      /\ \A i \in 1..(Len(s) - 1) : Tail(s)[i] = s[i + 1] /\ i + 1 \in DOMAIN s
  BY <1>1
<1>3. QED
  BY <1>1, <1>2 DEF ToSet

LEMMA AppendIs ==
  ASSUME NEW S, NEW s \in Seq(S), NEW x \in S
  PROVE  /\ Append(s, x) \in Seq(S)
         /\ ToSet(Append(s, x)) = ToSet(s) \cup {x}
<1>1. /\ Append(s, x) \in Seq(S) /\ Len(s) \in Nat /\ DOMAIN s = 1..Len(s)
      /\ DOMAIN Append(s, x) = 1..(Len(s) + 1)
      /\ \A i \in 1..Len(s) : Append(s, x)[i] = s[i] /\ i \in 1..(Len(s) + 1)
      /\ Append(s, x)[Len(s) + 1] = x /\ Len(s) + 1 \in 1..(Len(s) + 1)
      /\ \A i \in 1..(Len(s) + 1) : i \in 1..Len(s) \/ i = Len(s) + 1
  OBVIOUS
<1>2. QED
  BY <1>1 DEF ToSet

LEMMA PrefixSame ==
  ASSUME NEW S, NEW s \in Seq(S)
  PROVE  IsPrefix(s, s)
BY DEF IsPrefix

LEMMA PrefixAppend ==
  ASSUME NEW S, NEW s \in Seq(S), NEW x \in S
  PROVE  IsPrefix(s, Append(s, x))
<1> DEFINE a == Append(s, x)
           n == Len(s)
<1>1. /\ n \in Nat /\ a \in Seq(S) /\ Len(a) = n + 1
      /\ \A i \in 1..n : a[i] = s[i]
  BY AppendProperties
<1>2. \A i \in 1..n : s[i] \in S
  OBVIOUS
<1>3. /\ SubSeq(s, 1, n) \in Seq(S) /\ Len(SubSeq(s, 1, n)) = n
      /\ \A i \in 1..n : SubSeq(s, 1, n)[i] = s[i]
  BY <1>1
<1> HIDE DEF a
<1>4. /\ SubSeq(a, 1, n) \in Seq(S) /\ Len(SubSeq(a, 1, n)) = n
      /\ \A i \in 1..n : SubSeq(a, 1, n)[i] = a[i]
  BY <1>1
<1>5. SubSeq(s, 1, n) = SubSeq(a, 1, n)
  <2> HIDE DEF n
  <2>1. QED
    BY <1>1, <1>3, <1>4, SeqEqual
<1>6. QED
  BY <1>1, <1>5 DEF IsPrefix, a

-----------------------------------------------------------------------------
(* The polls *)

(* What LocalKept says of a step. *)
Kept ==
  \A p \in ToSet(memory) :
    \/ \E p2 \in ToSet(memory') : p2.id = p.id /\ IsPrefix(p.versions, p2.versions)
    \/ p.id \notin Ids(memory') /\ p.slug \in reached
    \/ call.op = "delete" /\ call.id = p.id

LEMMA StaysIsKept ==
  ASSUME Lists,
         \A p \in ToSet(memory) :
           \/ p \in ToSet(memory')
           \/ p.id \notin Ids(memory') /\ p.slug \in reached
           \/ call.op = "delete" /\ call.id = p.id
  PROVE  Kept
<1>1. \A p \in ToSet(memory) : p.versions \in Seq(SemVers)
  <2>1. memory \in Seq(Prompts)
    BY DEF Lists
  <2>2. \A p \in ToSet(memory) : p \in Prompts
    BY <2>1 DEF ToSet
  <2>3. QED
    BY <2>2 DEF Prompts
<1>2. \A p \in ToSet(memory) : IsPrefix(p.versions, p.versions)
  BY <1>1, PrefixSame
<1>3. QED
  BY <1>2 DEF Kept

LEMMA PollInv ==
  ASSUME IInv, NEW q \in Polls, NEW s, NEW r,
         UNCHANGED <<server, call, ids, reached>>,
         poll' = [poll EXCEPT ![q] = s], net' = [net EXCEPT ![q] = r],
         Lists', Known' \subseteq Known, Waiting(q)', Carried(q)'
  PROVE  IInv'
<1>1. /\ DOMAIN poll' = Polls /\ DOMAIN net' = Polls \cup {User}
      /\ \A x \in Polls : x # q => poll'[x] = poll[x]
      /\ \A w \in Polls \cup {User} : w # q => net'[w] = net[w]
      /\ User # q
  BY PollsAssumption DEF IInv
<1>2. ServerTyped' /\ UserWaits'
  BY <1>1 DEF IInv, ServerTyped, UserWaits, Sendable
<1>3. SlugById'
  BY NothingNew, KnownTyped DEF IInv, ServerTyped
<1>4. \A x \in Polls : Waiting(x)'
  BY <1>1, WaitingStays DEF IInv
<1>5. \A w \in Polls \cup {User} : Carried(w)'
  BY <1>1, CarriedStays DEF IInv
<1>6. QED
  BY <1>1, <1>2, <1>3, <1>4, <1>5 DEF IInv

LEMMA AtIs ==
  ASSUME NEW step
  PROVE  At(step) = [step |-> step, todo |-> << >>, seen |-> << >>, attached |-> FALSE]
<1>1. ASSUME NEW a, NEW b, NEW c, NEW d
      PROVE  [[step |-> a, todo |-> b, seen |-> c, attached |-> d] EXCEPT !.step = step]
               = [step |-> step, todo |-> b, seen |-> c, attached |-> d]
  OBVIOUS
<1>2. At(step) = [[step |-> "idle", todo |-> << >>, seen |-> << >>, attached |-> FALSE]
                    EXCEPT !.step = step]
  BY Zenon DEF At, Idle
<1>3. QED
  BY <1>1, <1>2, Zenon

(* A poll that goes on to wait for an answer, or ends.                     *)
Goes(q) == Goto(q, "idle", Silent) \/ Goto(q, "check", Ask) \/ Goto(q, "list", List)

LEMMA GoesWaits ==
  ASSUME NEW q \in Polls, DOMAIN poll = Polls, DOMAIN net = Polls \cup {User}, Goes(q)
  PROVE  \E s, r :
           /\ poll' = [poll EXCEPT ![q] = s] /\ net' = [net EXCEPT ![q] = r]
           /\ poll'[q] = s /\ net'[q] = r /\ s.todo = << >>
           /\ \A x \in Polls : x # q => poll'[x] = poll[x]
           /\ Carried(q)' /\ Waiting(q)'
<1>1. \A p : p = << >> => p \in Seq(Prompts)
  OBVIOUS
<1>2. CASE Goto(q, "idle", Silent)
  <2> DEFINE s == At("idle")
  <2>1. /\ poll' = [poll EXCEPT ![q] = s] /\ net' = [net EXCEPT ![q] = Silent]
        /\ poll'[q] = s /\ net'[q] = Silent
        /\ \A x \in Polls : x # q => poll'[x] = poll[x]
    BY <1>2 DEF Goto, Reply
  <2>2. s = [step |-> "idle", todo |-> << >>, seen |-> << >>, attached |-> FALSE]
    BY AtIs
  <2> HIDE DEF s
  <2>3. Carried(q)' /\ Waiting(q)'
    BY <1>1, <2>1, <2>2, OpsDiffer DEF Carried, Sendable, Waiting
  <2>4. s.todo = << >>
    BY <2>2
  <2>5. QED
    BY <2>1, <2>3, <2>4, Zenon
<1>3. CASE Goto(q, "check", Ask)
  <2> DEFINE s == At("check")
  <2>1. /\ poll' = [poll EXCEPT ![q] = s] /\ net' = [net EXCEPT ![q] = Ask]
        /\ poll'[q] = s /\ net'[q] = Ask
        /\ \A x \in Polls : x # q => poll'[x] = poll[x]
    BY <1>3 DEF Goto, Reply
  <2>2. s = [step |-> "check", todo |-> << >>, seen |-> << >>, attached |-> FALSE]
    BY AtIs
  <2> HIDE DEF s
  <2>3. Carried(q)' /\ Waiting(q)'
    BY <1>1, <2>1, <2>2, OpsDiffer DEF Carried, Sendable, Waiting
  <2>4. s.todo = << >>
    BY <2>2
  <2>5. QED
    BY <2>1, <2>3, <2>4, Zenon
<1>4. CASE Goto(q, "list", List)
  <2> DEFINE s == At("list")
  <2>1. /\ poll' = [poll EXCEPT ![q] = s] /\ net' = [net EXCEPT ![q] = List]
        /\ poll'[q] = s /\ net'[q] = List
        /\ \A x \in Polls : x # q => poll'[x] = poll[x]
    BY <1>4 DEF Goto, Reply
  <2>2. s = [step |-> "list", todo |-> << >>, seen |-> << >>, attached |-> FALSE]
    BY AtIs
  <2> HIDE DEF s
  <2>3. Carried(q)' /\ Waiting(q)'
    BY <1>1, <2>1, <2>2, OpsDiffer DEF Carried, Sendable, Waiting
  <2>4. s.todo = << >>
    BY <2>2
  <2>5. QED
    BY <2>1, <2>3, <2>4, Zenon
<1>5. QED
  BY <1>2, <1>3, <1>4 DEF Goes

LEMMA GoesInv ==
  ASSUME IInv, NEW q \in Polls, Goes(q),
         UNCHANGED <<server, call, ids, reached>>,
         Lists', ToSet(memory') \subseteq Known, ToSet(stored') \subseteq Known
  PROVE  IInv'
<1>1. PICK s, r :
        /\ poll' = [poll EXCEPT ![q] = s] /\ net' = [net EXCEPT ![q] = r]
        /\ poll'[q] = s /\ net'[q] = r /\ s.todo = << >>
        /\ \A x \in Polls : x # q => poll'[x] = poll[x]
        /\ Carried(q)' /\ Waiting(q)'
  BY GoesWaits DEF IInv
<1>2. Known' \subseteq Known
  <2>1. ToSet(poll'[q].todo) = {}
    BY <1>1 DEF ToSet
  <2>2. \A x \in Polls : ToSet(poll'[x].todo) \subseteq Known
    BY <1>1, <2>1 DEF Known
  <2>3. QED
    BY <2>2 DEF Known
<1>3. QED
  BY <1>1, <1>2, PollInv

LEMMA GotoInv ==
  ASSUME IInv, NEW q \in Polls, Goes(q),
         UNCHANGED <<server, memory, stored, call, ids, reached>>, fallback' \in BOOLEAN
  PROVE  IInv'
<1>1. Lists'
  BY DEF IInv, Lists, OneOfEach
<1>2. QED
  BY <1>1, GoesInv DEF Known

LEMMA GotoKept ==
  ASSUME Lists, memory' = memory
  PROVE  Kept
BY StaysIsKept

LEMMA TickInv ==
  ASSUME IInv, NEW q \in Polls, Tick(q)
  PROVE  IInv' /\ Kept
<1>1. IInv'
  BY GotoInv DEF Tick, Goes, IInv, Lists
<1>2. QED
  BY <1>1, GotoKept DEF Tick, IInv

LEMMA FirstCheckedInv ==
  ASSUME IInv, NEW q \in Polls, FirstChecked(q)
  PROVE  IInv' /\ Kept
<1>1. fallback' \in BOOLEAN
  BY DEF FirstChecked, Fails
<1>2. IInv'
  BY <1>1, GotoInv DEF FirstChecked, Goes
<1>3. QED
  BY <1>2, GotoKept DEF FirstChecked, IInv

LEMMA CheckedInv ==
  ASSUME IInv, NEW q \in Polls, Checked(q)
  PROVE  IInv' /\ Kept
<1>1. fallback' \in BOOLEAN
  BY DEF Checked, Fails, IInv, Lists
<1>2. Goes(q)
  BY DEF Checked, Goes
<1>3. IInv'
  BY <1>1, <1>2, GotoInv DEF Checked
<1>4. QED
  BY <1>3, GotoKept DEF Checked, IInv

(* What an answer settles has reached the server, and leaves every list at *)
(* once: the rest of the loop is about prompts that are still known.       *)
LEMMA AdvanceInv ==
  ASSUME IInv, NEW q \in Polls, NEW todo \in Seq(Prompts), NEW seen, NEW attached, NEW done,
         ToSet(todo) \subseteq Known, DOMAIN seen \subseteq reached,
         \A p \in Known : p.id \in done => p.slug \in reached,
         UNCHANGED <<server, call, ids, reached>>,
         Advance(q, todo, seen, attached, done)
  PROVE  IInv' /\ Kept
<1> DEFINE settled == Settled(todo, seen)
           k == Cardinality(settled) + 1
           gone == done \cup {todo[i].id : i \in settled}
<1>1. DOMAIN todo = 1..Len(todo) /\ Len(todo) \in Nat
  OBVIOUS
<1>2. settled \subseteq 1..Len(todo) /\ \A i \in settled : todo[i].slug \in reached
  BY <1>1 DEF Settled, NeedsPush
<1>3. k \in Nat /\ 1 <= k
  <2> DEFINE n == Len(todo)
  <2>1. n \in Nat /\ IsFiniteSet(1..n)
    <3>1. n \in Nat
      BY <1>1
    <3> HIDE DEF n
    <3>2. QED
      BY <3>1, FS_Interval
  <2>2. QED
    BY <1>2, <2>1, FS_Subset, FS_CardinalityType
<1>4. ASSUME NEW p \in Known, p.id \in gone
      PROVE  p.slug \in reached
  <2>1. \A i \in settled : todo[i] \in Known
    BY <1>1, <1>2 DEF ToSet
  <2>2. QED
    BY <1>2, <1>4, <2>1 DEF IInv, SlugById
<1>5. /\ memory' = Without(memory, gone)
      /\ (gone = {} /\ stored' = stored) \/ stored' = memory' \/ stored' = stored
      /\ IF k > Len(todo)
           THEN Goto(q, "idle", Silent) /\ fallback' = FALSE
           ELSE /\ poll' = [poll EXCEPT ![q] = [step |-> "push", todo |-> SubSeq(todo, k, Len(todo)),
                                                seen |-> seen, attached |-> attached]]
                /\ Reply(q, Push(todo[k], seen))
                /\ UNCHANGED fallback
  BY DEF Advance, Saved, SaveFails
<1>6. /\ memory \in Seq(Prompts) /\ stored \in Seq(Prompts) /\ fallback \in BOOLEAN
      /\ ToSet(memory) \subseteq ToSet(stored) /\ OneOfEach(memory) /\ OneOfEach(stored)
  BY DEF IInv, Lists
<1> HIDE DEF gone, k
<1>7. /\ memory' \in Seq(Prompts)
      /\ ToSet(memory') = {p \in ToSet(memory) : p.id \notin gone}
  BY <1>5, <1>6, WithoutIs
<1>8. stored' = memory' \/ stored' = stored
  BY <1>5
<1>9. Lists'
  <2>1. fallback' \in BOOLEAN
    BY <1>5, <1>6
  <2>2. QED
    BY <1>6, <1>7, <1>8, <2>1 DEF Lists, OneOfEach
<1>10. Kept
  <2>1. \A p \in ToSet(memory) : p.id \in gone => p.id \notin Ids(memory') /\ p.slug \in reached
    BY <1>4, <1>7 DEF Ids, Known
  <2>2. \A p \in ToSet(memory) : p.id \notin gone => p \in ToSet(memory')
    BY <1>7
  <2>3. QED
    BY <2>1, <2>2, StaysIsKept DEF IInv
<1>11. CASE k > Len(todo)
  <2>1. Goes(q)
    BY <1>5, <1>11 DEF Goes
  <2>2. ToSet(memory') \subseteq Known /\ ToSet(stored') \subseteq Known
    BY <1>7, <1>8 DEF Known
  <2>3. QED
    BY <1>9, <1>10, <2>1, <2>2, GoesInv
<1>12. CASE ~(k > Len(todo))
  <2> DEFINE rest == SubSeq(todo, k, Len(todo))
             new == [step |-> "push", todo |-> rest, seen |-> seen, attached |-> attached]
             request == Push(todo[k], seen)
  <2>1. k \in 1..Len(todo)
    BY <1>1, <1>3, <1>12
  <2>2. /\ rest \in Seq(Prompts) /\ rest # << >> /\ Head(rest) = todo[k]
        /\ ToSet(rest) \subseteq ToSet(todo) /\ todo[k] \in Known
    BY <1>1, <2>1, RestIs DEF ToSet
  <2>3. /\ poll' = [poll EXCEPT ![q] = new] /\ net' = [net EXCEPT ![q] = request]
        /\ poll'[q] = new /\ net'[q] = request
        /\ \A x \in Polls : x # q => poll'[x] = poll[x]
    BY <1>5, <1>12 DEF Reply, IInv
  <2> HIDE DEF rest
  <2>4. new.step = "push" /\ new.todo = rest /\ new.seen = seen /\ new.attached = attached
    OBVIOUS
  <2>5. Known' \subseteq Known
    BY <1>7, <1>8, <2>2, <2>3, <2>4 DEF Known
  <2>6. /\ \/ request.op = "create" /\ request.slug = todo[k].slug
           \/ request.op = "version" /\ todo[k].slug \in reached
        /\ Sendable(request)
    <3>1. /\ todo[k].slug \in Slugs /\ todo[k].title \in Titles
          /\ Last(todo[k].versions) \in SemVers
      <4>1. todo[k] \in Prompts /\ todo[k].versions # << >>
        BY <2>2, KnownTyped DEF IInv, SlugById
      <4>2. QED
        BY <4>1 DEF Prompts, Last
    <3>2. CASE todo[k].slug \notin DOMAIN seen
      BY <3>1, <3>2 DEF Push, Sendable
    <3>3. CASE todo[k].slug \in DOMAIN seen
      BY <3>1, <3>3 DEF Push, Sendable
    <3>4. QED
      BY <3>2, <3>3
  <2> HIDE DEF new, request
  <2>7. Carried(q)'
    BY <2>3, <2>6 DEF Carried, Sendable
  <2>8. PushUnderWay(q)'
    BY <2>2, <2>3, <2>4, <2>6 DEF PushUnderWay
  <2>9. request # Silent
    BY <2>6, OpsDiffer
  <2>10. Waiting(q)'
    BY <2>2, <2>3, <2>4, <2>8, <2>9 DEF Waiting, new
  <2>11. QED
    BY <1>9, <1>10, <2>3, <2>5, <2>7, <2>10, PollInv
<1>13. QED
  BY <1>11, <1>12

LEMMA GotListInv ==
  ASSUME IInv, NEW q \in Polls, GotList(q)
  PROVE  IInv' /\ Kept
<1>1. CASE Fails(q)
  <2>1. Goto(q, "idle", Silent) /\ fallback' = FALSE /\ UNCHANGED <<memory, stored, server, call, ids, reached>>
    BY <1>1 DEF GotList
  <2>2. IInv'
    BY <2>1, GotoInv DEF Goes
  <2>3. QED
    BY <2>1, <2>2, GotoKept DEF IInv
<1>2. CASE ~Fails(q)
  <2>1. /\ Advance(q, memory, net[q].prompts, TRUE, {}) /\ UNCHANGED <<server, call, ids, reached>>
        /\ poll[q].step = "list" /\ Answered(q)
    BY <1>2 DEF GotList
  <2>2. net[q].op = "page"
    <3>1. net[q].op \in {"list", "page", "error"}
      BY <2>1 DEF IInv, Waiting
    <3>2. QED
      BY <1>2, <2>1, <3>1 DEF Answered, Fails
  <2>3. DOMAIN net[q].prompts \subseteq reached
    BY <2>2 DEF IInv, Carried
  <2>4. memory \in Seq(Prompts) /\ ToSet(memory) \subseteq Known
    BY DEF IInv, Lists, Known
  <2>5. \A p \in Known : p.id \in {} => p.slug \in reached
    OBVIOUS
  <2>6. PICK attached : Advance(q, memory, net[q].prompts, attached, {})
    BY <2>1, Zenon
  <2>7. QED
    BY <2>1, <2>3, <2>4, <2>5, <2>6, AdvanceInv
<1>3. QED
  BY <1>1, <1>2

LEMMA PushedInv ==
  ASSUME IInv, NEW q \in Polls, Pushed(q)
  PROVE  IInv' /\ Kept
<1> DEFINE done == IF Fails(q) THEN {} ELSE {Head(poll[q].todo).id}
<1>1. /\ Advance(q, Tail(poll[q].todo), poll[q].seen, poll[q].attached, done)
      /\ UNCHANGED <<server, call, ids, reached>>
      /\ poll[q].step = "push" /\ Answered(q)
  BY DEF Pushed
<1>2. /\ poll[q].todo \in Seq(Prompts) /\ poll[q].todo # << >>
      /\ DOMAIN poll[q].seen \subseteq reached /\ PushUnderWay(q)
  BY <1>1 DEF IInv, Waiting
<1>3. /\ Tail(poll[q].todo) \in Seq(Prompts)
      /\ ToSet(Tail(poll[q].todo)) \subseteq Known /\ Head(poll[q].todo) \in Known
  BY <1>2, TailIs DEF Known
<1>4. ASSUME NEW p \in Known, p.id \in done
      PROVE  p.slug \in reached
  <2>1. ~Fails(q) /\ p.id = Head(poll[q].todo).id
    BY <1>4
  <2>2. net[q].op = "ok"
    BY <1>1, <1>2, <2>1 DEF PushUnderWay, Answered, Fails
  <2>3. Head(poll[q].todo).slug \in reached
    BY <1>2, <2>2 DEF PushUnderWay
  <2>4. QED
    BY <1>3, <2>1, <2>3 DEF IInv, SlugById
<1> HIDE DEF done
<1>5. QED
  BY <1>1, <1>2, <1>3, <1>4, AdvanceInv

-----------------------------------------------------------------------------
(* The page *)

LEMMA CallInv ==
  ASSUME IInv, Call
  PROVE  IInv' /\ Kept
<1>1. PICK r \in Requests : call' = r /\ net' = [net EXCEPT ![User] = r]
  BY DEF Call
<1>2. UNCHANGED <<server, memory, stored, fallback, poll, ids, reached>>
  BY DEF Call
<1>3. Sendable(r) /\ r.op # "page"
  <2>1. CASE r = Ask
    BY <2>1, OpsDiffer DEF Sendable
  <2>2. CASE r \in [op : {"create"}, slug : Slugs, title : Titles, version : SemVers]
    BY <2>2 DEF Sendable
  <2>3. CASE r \in [op : {"version"}, id : Ids(memory) \cup Listed, version : SemVers]
    BY <2>3 DEF Sendable
  <2>4. CASE r \in [op : {"update"}, id : Ids(memory) \cup Listed, title : Titles]
    BY <2>4 DEF Sendable
  <2>5. CASE r \in [op : {"delete"}, id : Ids(memory) \cup Listed]
    BY <2>5 DEF Sendable
  <2>6. QED
    BY <2>1, <2>2, <2>3, <2>4, <2>5 DEF Requests
<1>4. /\ DOMAIN net' = Polls \cup {User} /\ net'[User] = r
      /\ \A q \in Polls : net'[q] = net[q]
  BY <1>1, PollsAssumption DEF IInv
<1>5. ServerTyped' /\ Lists'
  BY <1>2 DEF IInv, ServerTyped, Lists, OneOfEach
<1>6. SlugById'
  BY <1>2 DEF IInv, SlugById, Known
<1>7. \A w \in Polls \cup {User} : Carried(w)'
  <2>1. Carried(User)'
    BY <1>3, <1>4 DEF Carried, Sendable
  <2>2. QED
    BY <1>2, <1>4, <2>1, CarriedStays DEF IInv
<1>8. \A q \in Polls : Waiting(q)'
  BY <1>2, <1>4, WaitingStays DEF IInv
<1>9. UserWaits'
  BY <1>1, <1>3, <1>4 DEF UserWaits, Sendable
<1>10. IInv'
  BY <1>2, <1>4, <1>5, <1>6, <1>7, <1>8, <1>9 DEF IInv
<1>11. QED
  BY <1>2, <1>10, GotoKept DEF IInv

(* The answer is there, and the user can call again.                       *)
Returned ==
  /\ call' = Silent /\ net' = [net EXCEPT ![User] = Silent]
  /\ UNCHANGED <<server, reached>>

LEMMA ReturnedInv ==
  ASSUME IInv, Returned, ids' \in {ids, ids + 1},
         Lists', SlugById', DOMAIN poll' = Polls,
         \A q \in Polls : net'[q] = net[q] => Waiting(q)'
  PROVE  IInv'
<1>1. /\ DOMAIN net' = Polls \cup {User} /\ net'[User] = Silent
      /\ \A q \in Polls : net'[q] = net[q]
  BY PollsAssumption DEF IInv, Returned
<1>2. ServerTyped'
  <2>1. ids \in Nat /\ ids' \in Nat /\ ids <= ids' /\ DOMAIN server \subseteq 1..ids
    BY DEF IInv, ServerTyped
  <2>2. DOMAIN server \subseteq 1..ids'
    BY <2>1
  <2>3. QED
    BY <2>1, <2>2 DEF IInv, ServerTyped, Returned
<1>3. \A w \in Polls \cup {User} : Carried(w)'
  <2>1. Carried(User)'
    BY <1>1, OpsDiffer DEF Carried, Sendable
  <2>2. QED
    BY <1>1, <2>1, CarriedStays DEF IInv, Returned
<1>4. UserWaits'
  BY <1>1, OpsDiffer DEF UserWaits, Sendable, Returned
<1>5. QED
  BY <1>1, <1>2, <1>3, <1>4 DEF IInv

(* A prompt comes, or comes in the place of one of its id.                 *)
LEMMA SlugByIdWith ==
  ASSUME SlugById, ids \in Nat, ids' \in Nat, ids <= ids', \A x \in Known : x.id \in Nat,
         NEW p, p.id \in Nat, p.id <= ids', p.versions # << >>,
         \A x \in Known : x.id = p.id => x.slug = p.slug,
         Known' \subseteq Known \cup {p}
  PROVE  SlugById'
<1>1. \A x \in Known' : x.id <= ids' /\ x.versions # << >>
  BY DEF SlugById
<1>2. \A x, y \in Known \cup {p} : x.id = y.id => x.slug = y.slug
  BY DEF SlugById
<1>3. QED
  BY <1>1, <1>2 DEF SlugById

LEMMA CreateInv ==
  ASSUME IInv, Returned, CreateInMemory
  PROVE  IInv' /\ Kept
<1> DEFINE p == [id |-> ids', slug |-> call.slug, title |-> call.title,
                 versions |-> <<call.version>>]
<1>1. ids \in Nat /\ ids' = ids + 1 /\ poll' = poll
  BY DEF CreateInMemory, IInv, ServerTyped
<1>2. /\ call.slug \in Slugs /\ call.title \in Titles /\ call.version \in SemVers
  BY DEF CreateInMemory, IInv, UserWaits, Sendable
<1>3. <<call.version>> \in Seq(SemVers) /\ <<call.version>> # << >>
  BY <1>2
<1>4. /\ p \in Prompts /\ p.id = ids' /\ p.slug = call.slug /\ p.versions # << >>
  BY <1>1, <1>2, <1>3 DEF Prompts
<1>5. \/ memory' = Append(memory, p) /\ stored' = memory' /\ fallback' = TRUE
      \/ UNCHANGED <<memory, stored, fallback>>
  BY DEF CreateInMemory, Saved, SaveFails
<1> HIDE DEF p
<1>6. \A x \in Known : x.id \in Nat /\ x.id <= ids /\ x.id # p.id
  BY <1>1, <1>4, KnownTyped DEF IInv, SlugById
<1>7. /\ Append(memory, p) \in Seq(Prompts)
      /\ ToSet(Append(memory, p)) = ToSet(memory) \cup {p}
  BY <1>4, AppendIs DEF IInv, Lists
<1>8. \A x \in ToSet(memory) : x \in ToSet(memory')
  BY <1>5, <1>7
<1>9. Lists'
  <2>1. CASE UNCHANGED <<memory, stored, fallback>>
    BY <2>1 DEF IInv, Lists, OneOfEach
  <2>2. CASE memory' = Append(memory, p) /\ stored' = memory' /\ fallback' = TRUE
    <3>1. OneOfEach(Append(memory, p))
      BY <1>6, <1>7 DEF IInv, Lists, OneOfEach, Known
    <3>2. QED
      BY <1>7, <2>2, <3>1 DEF Lists, OneOfEach
  <2>3. QED
    BY <1>5, <2>1, <2>2
<1>10. Known' \subseteq Known \cup {p}
  BY <1>1, <1>5, <1>7 DEF Known
<1>11. SlugById'
  BY <1>1, <1>4, <1>6, <1>10, SlugByIdWith DEF IInv
<1>12. \A q \in Polls : net'[q] = net[q] => Waiting(q)'
  BY <1>1, WaitingStays DEF IInv, Returned
<1>13. IInv'
  BY <1>1, <1>9, <1>11, <1>12, ReturnedInv DEF IInv
<1>14. QED
  BY <1>8, <1>13, StaysIsKept DEF IInv

(* A poll's list of what it has to do, replaced.                           *)
LEMMA TodoWaits ==
  ASSUME NEW q, Waiting(q), NEW todo \in Seq(Prompts), NEW attached,
         poll'[q] = [step |-> poll[q].step, todo |-> todo, seen |-> poll[q].seen,
                     attached |-> attached],
         net'[q] = net[q], reached' = reached,
         todo = << >> <=> poll[q].todo = << >>,
         todo # << >> => Head(todo).slug = Head(poll[q].todo).slug
  PROVE  Waiting(q)'
<1>1. /\ poll'[q].step = poll[q].step /\ poll'[q].todo = todo /\ poll'[q].seen = poll[q].seen
      /\ poll'[q].attached = attached
  OBVIOUS
<1>2. poll[q].step = "push" => PushUnderWay(q)'
  BY <1>1 DEF Waiting, PushUnderWay
<1>3. QED
  BY <1>1, <1>2 DEF Waiting

LEMMA DetachedWaits ==
  ASSUME NEW q \in Polls, Waiting(q), poll' = Detached, net'[q] = net[q], reached' = reached
  PROVE  Waiting(q)' /\ poll'[q].todo = poll[q].todo
<1>1. poll'[q] = [poll[q] EXCEPT !.attached = FALSE]
  BY DEF Detached
<1>2. ASSUME NEW a, NEW b, NEW c, NEW d, NEW e
      PROVE  [[step |-> a, todo |-> b, seen |-> c, attached |-> d] EXCEPT !.attached = e]
               = [step |-> a, todo |-> b, seen |-> c, attached |-> e]
  OBVIOUS
<1>3. poll[q] = [step |-> poll[q].step, todo |-> poll[q].todo,
                 seen |-> poll[q].seen, attached |-> poll[q].attached]
  BY DEF Waiting
<1>4. PICK e : poll'[q] = [poll[q] EXCEPT !.attached = e]
  BY <1>1, Zenon
<1>5. poll'[q] = [step |-> poll[q].step, todo |-> poll[q].todo, seen |-> poll[q].seen,
                  attached |-> e]
  BY <1>2, <1>3, <1>4, Zenon
<1>6. poll[q].todo \in Seq(Prompts)
  BY DEF Waiting
<1>7. QED
  BY <1>5, <1>6, TodoWaits

-----------------------------------------------------------------------------
(* Edits in place *)

EditedTodo(p) ==
  [q \in Polls |-> IF poll[q].attached
                     THEN [poll[q] EXCEPT !.todo = EditedIn(poll[q].todo, p)]
                     ELSE poll[q]]

LEMMA EditedTodoWaits ==
  ASSUME IInv, NEW q \in Polls, NEW p \in Prompts,
         \A x \in Known : x.id = p.id => x.slug = p.slug,
         poll' = EditedTodo(p), net'[q] = net[q], reached' = reached
  PROVE  Waiting(q)' /\ ToSet(poll'[q].todo) \subseteq Known \cup {p}
<1>1. Waiting(q) /\ poll[q].todo \in Seq(Prompts) /\ ToSet(poll[q].todo) \subseteq Known
  BY DEF IInv, Waiting, Known
<1>2. CASE ~poll[q].attached
  BY <1>1, <1>2, WaitingStays DEF EditedTodo
<1>3. CASE poll[q].attached
  <2> DEFINE todo == EditedIn(poll[q].todo, p)
  <2>1. poll'[q] = [poll[q] EXCEPT !.todo = todo]
    BY <1>3 DEF EditedTodo
  <2>2. /\ todo \in Seq(Prompts) /\ (todo = << >> <=> poll[q].todo = << >>)
        /\ ToSet(todo) \subseteq Known \cup {p}
        /\ todo # << >> => Head(todo).slug = Head(poll[q].todo).slug
    BY <1>1, EditedInIs
  <2> HIDE DEF todo
  <2>3. ASSUME NEW a, NEW b, NEW c, NEW d, NEW e
        PROVE  [[step |-> a, todo |-> b, seen |-> c, attached |-> d] EXCEPT !.todo = e]
                 = [step |-> a, todo |-> e, seen |-> c, attached |-> d]
    OBVIOUS
  <2>4. poll[q] = [step |-> poll[q].step, todo |-> poll[q].todo,
                   seen |-> poll[q].seen, attached |-> poll[q].attached]
    BY <1>1 DEF Waiting
  <2>5. poll'[q] = [step |-> poll[q].step, todo |-> todo,
                    seen |-> poll[q].seen, attached |-> poll[q].attached]
    BY <2>1, <2>3, <2>4, Zenon
  <2>6. Waiting(q)'
    BY <1>1, <2>2, <2>5, TodoWaits
  <2>7. QED
    BY <2>2, <2>5, <2>6
<1>4. QED
  BY <1>2, <1>3

LEMMA EditInv ==
  ASSUME IInv, Returned, ids' = ids, NEW old \in ToSet(memory), NEW p \in Prompts,
         p.id = old.id, p.slug = old.slug, p.versions # << >>,
         IsPrefix(old.versions, p.versions), EditInPlace(p)
  PROVE  IInv' /\ Kept
<1>1. CASE UNCHANGED <<memory, stored, poll, fallback>>
  <2>1. Lists' /\ SlugById'
    BY <1>1 DEF IInv, Lists, OneOfEach, SlugById, Known
  <2>2. \A q \in Polls : net'[q] = net[q] => Waiting(q)'
    BY <1>1, WaitingStays DEF IInv, Returned
  <2>3. IInv'
    BY <1>1, <2>1, <2>2, ReturnedInv DEF IInv
  <2>4. QED
    BY <1>1, <2>3, GotoKept DEF IInv
<1>2. CASE /\ stored' = EditedIn(memory, p) /\ memory' = EditedIn(memory, p)
           /\ poll' = EditedTodo(p) /\ fallback' = TRUE
  <2>1. ids \in Nat /\ \A x \in Known : x.id \in Nat /\ x.id <= ids
    BY KnownTyped DEF IInv, ServerTyped, SlugById
  <2>2. old \in Known /\ p.id \in Nat /\ p.id <= ids
    BY <2>1 DEF Known
  <2>3. \A x \in Known : x.id = p.id => x.slug = p.slug
    BY <2>2 DEF IInv, SlugById
  <2>4. /\ memory \in Seq(Prompts) /\ OneOfEach(memory)
    BY DEF IInv, Lists
  <2>5. /\ memory' \in Seq(Prompts)
        /\ \A x \in ToSet(memory') : x = p \/ (x \in ToSet(memory) /\ x.id # p.id)
        /\ \A x \in ToSet(memory) : IF x.id = p.id THEN p \in ToSet(memory')
                                                   ELSE x \in ToSet(memory')
    BY <1>2, <2>4, EditedInIs
  <2>6. Lists'
    BY <1>2, <2>4, <2>5 DEF Lists, OneOfEach
  <2>7. Kept
    <3>1. ASSUME NEW x \in ToSet(memory)
          PROVE  \E p2 \in ToSet(memory') : p2.id = x.id /\ IsPrefix(x.versions, p2.versions)
      <4>1. CASE x.id = p.id
        <5>1. x = old
          BY <2>4, <4>1 DEF OneOfEach
        <5>2. QED
          BY <2>5, <4>1, <5>1
      <4>2. CASE x.id # p.id
        <5>1. x.versions \in Seq(SemVers)
          <6>1. x \in Prompts
            BY KnownTyped DEF IInv, Known
          <6>2. QED
            BY <6>1 DEF Prompts
        <5>2. IsPrefix(x.versions, x.versions)
          BY <5>1, PrefixSame
        <5>3. QED
          BY <2>5, <4>2, <5>2
      <4>3. QED
        BY <4>1, <4>2
    <3>2. QED
      BY <3>1 DEF Kept
  <2>8. \A q \in Polls : ToSet(poll'[q].todo) \subseteq Known \cup {p}
    <3>1. \A q \in Polls : net'[q] = net[q]
      BY PollsAssumption DEF IInv, Returned
    <3>2. QED
      BY <1>2, <2>3, <3>1, EditedTodoWaits DEF Returned
  <2>9. Known' \subseteq Known \cup {p}
    BY <1>2, <2>5, <2>8 DEF Known
  <2>10. SlugById'
    BY <2>1, <2>2, <2>3, <2>9, SlugByIdWith DEF IInv
  <2>11. \A q \in Polls : net'[q] = net[q] => Waiting(q)'
    BY <1>2, <2>3, EditedTodoWaits DEF Returned
  <2>12. DOMAIN poll' = Polls
    BY <1>2 DEF EditedTodo
  <2>13. IInv'
    BY <2>6, <2>10, <2>11, <2>12, ReturnedInv
  <2>14. QED
    BY <2>7, <2>13
<1>3. QED
  BY <1>1, <1>2 DEF EditInPlace, Saved, SaveFails, EditedTodo

LEMMA NotInMemoryInv ==
  ASSUME IInv, Returned, ids' = ids, NotInMemory
  PROVE  IInv' /\ Kept
<1>1. Lists' /\ SlugById'
  BY DEF NotInMemory, IInv, Lists, OneOfEach, SlugById, Known
<1>2. \A q \in Polls : net'[q] = net[q] => Waiting(q)'
  BY WaitingStays DEF NotInMemory, IInv, Returned
<1>3. IInv'
  BY <1>1, <1>2, ReturnedInv DEF NotInMemory, IInv
<1>4. QED
  BY <1>3, GotoKept DEF NotInMemory, IInv

LEMMA AddVersionInv ==
  ASSUME IInv, Returned, AddVersionInMemory
  PROVE  IInv' /\ Kept
<1>1. ids' = ids /\ call.version \in SemVers
  BY DEF AddVersionInMemory, IInv, UserWaits, Sendable
<1>2. CASE call.id \notin Ids(memory)
  BY <1>1, <1>2, NotInMemoryInv DEF AddVersionInMemory
<1>3. CASE call.id \in Ids(memory)
  <2>1. PICK old \in ToSet(memory) :
          EditInPlace([old EXCEPT !.versions = Append(old.versions, call.version)])
    BY <1>3 DEF AddVersionInMemory
  <2>2. old \in Prompts
    BY KnownTyped DEF IInv, Known
  <2> DEFINE p == [old EXCEPT !.versions = Append(old.versions, call.version)]
  <2>3. old.versions \in Seq(SemVers)
    BY <2>2 DEF Prompts
  <2>4. /\ Append(old.versions, call.version) \in Seq(SemVers)
        /\ Append(old.versions, call.version) # << >>
        /\ IsPrefix(old.versions, Append(old.versions, call.version))
    BY <1>1, <2>3, AppendProperties, PrefixAppend
  <2>5. /\ p \in Prompts /\ p.id = old.id /\ p.slug = old.slug
        /\ p.versions = Append(old.versions, call.version)
    BY <2>2, <2>4 DEF Prompts
  <2> HIDE DEF p
  <2>6. EditInPlace(p)
    BY <2>1 DEF p
  <2>7. QED
    BY <1>1, <2>4, <2>5, <2>6, EditInv
<1>4. QED
  BY <1>2, <1>3

LEMMA UpdateInv ==
  ASSUME IInv, Returned, UpdateInMemory
  PROVE  IInv' /\ Kept
<1>1. ids' = ids /\ call.title \in Titles
  BY DEF UpdateInMemory, IInv, UserWaits, Sendable
<1>2. CASE call.id \notin Ids(memory)
  BY <1>1, <1>2, NotInMemoryInv DEF UpdateInMemory
<1>3. CASE call.id \in Ids(memory)
  <2>1. PICK old \in ToSet(memory) : EditInPlace([old EXCEPT !.title = call.title])
    BY <1>3 DEF UpdateInMemory
  <2>2. old \in Prompts /\ old.versions # << >>
    BY KnownTyped DEF IInv, Known, SlugById
  <2> DEFINE p == [old EXCEPT !.title = call.title]
  <2>3. /\ p \in Prompts /\ p.id = old.id /\ p.slug = old.slug /\ p.versions = old.versions
        /\ old.versions \in Seq(SemVers)
    BY <1>1, <2>2 DEF Prompts
  <2> HIDE DEF p
  <2>4. EditInPlace(p) /\ IsPrefix(old.versions, p.versions)
    BY <2>1, <2>3, PrefixSame DEF p
  <2>5. QED
    BY <1>1, <2>2, <2>3, <2>4, EditInv
<1>4. QED
  BY <1>2, <1>3

-----------------------------------------------------------------------------
(* What is read from localStorage *)

(* Memory is filled from what is stored, but for a prompt that is deleted. *)
LEMMA LoadedInv ==
  ASSUME IInv, Returned, ids' = ids, poll' = Detached, fallback' \in BOOLEAN,
         memory' \in Seq(Prompts), stored' \in {memory', stored},
         ToSet(memory') \subseteq ToSet(stored),
         \A p \in ToSet(stored) :
           p \in ToSet(memory') \/ (call.op = "delete" /\ call.id = p.id)
  PROVE  IInv' /\ Kept
<1>1. /\ stored \in Seq(Prompts) /\ ToSet(memory) \subseteq ToSet(stored) /\ OneOfEach(stored)
  BY DEF IInv, Lists
<1>2. Lists'
  BY <1>1 DEF Lists, OneOfEach
<1>3. Kept
  BY <1>1, StaysIsKept DEF IInv
<1>4. /\ DOMAIN poll' = Polls
      /\ \A q \in Polls : net'[q] = net[q]
  BY PollsAssumption DEF Detached, IInv, Returned
<1>5. \A q \in Polls : Waiting(q)' /\ poll'[q].todo = poll[q].todo
  BY <1>4, DetachedWaits DEF IInv, Returned
<1>6. Known' \subseteq Known
  BY <1>5 DEF Known
<1>7. SlugById'
  BY <1>6, NothingNew, KnownTyped DEF IInv, ServerTyped
<1>8. QED
  BY <1>2, <1>3, <1>4, <1>5, <1>7, ReturnedInv

LEMMA DeleteInv ==
  ASSUME IInv, Returned, DeleteFromMemory
  PROVE  IInv' /\ Kept
<1> DEFINE rest == Without(stored, {call.id})
<1>1. ids' = ids /\ poll' = Detached /\ call.op = "delete"
  BY DEF DeleteFromMemory
<1>2. stored \in Seq(Prompts) /\ fallback \in BOOLEAN
  BY DEF IInv, Lists
<1>3. rest \in Seq(Prompts) /\ ToSet(rest) = {p \in ToSet(stored) : p.id \notin {call.id}}
  BY <1>2, WithoutIs
<1>4. \/ memory' = rest /\ stored' = memory' /\ fallback' = TRUE
      \/ memory' = stored /\ stored' = stored /\ fallback' = fallback
  BY DEF DeleteFromMemory, Saved, SaveFails
<1> HIDE DEF rest
<1>5. CASE memory' = rest /\ stored' = memory' /\ fallback' = TRUE
  BY <1>1, <1>3, <1>5, LoadedInv
<1>6. CASE memory' = stored /\ stored' = stored /\ fallback' = fallback
  BY <1>1, <1>2, <1>6, LoadedInv
<1>7. QED
  BY <1>4, <1>5, <1>6

LEMMA ListInv ==
  ASSUME IInv, Returned, ListFromMemory
  PROVE  IInv' /\ Kept
<1>1. stored \in Seq(Prompts)
  BY DEF IInv, Lists
<1>2. ids' = ids /\ poll' = Detached /\ memory' = stored /\ stored' = stored /\ fallback' = TRUE
  BY DEF ListFromMemory
<1>3. QED
  BY <1>1, <1>2, LoadedInv

LEMMA ReturnInv ==
  ASSUME IInv, Return
  PROVE  IInv' /\ Kept
<1>1. Returned
  BY DEF Return, Returned, Reply
<1>2. CASE Fails(User)
  BY <1>1, <1>2, CreateInv, AddVersionInv, UpdateInv, DeleteInv, ListInv DEF Return
<1>3. CASE ~Fails(User)
  <2>1. ids' = ids /\ NotInMemory
    BY <1>3 DEF Return, NotInMemory
  <2>2. QED
    BY <1>1, <2>1, NotInMemoryInv
<1>4. QED
  BY <1>2, <1>3

(* The page starts, with what is stored.                                   *)
Starting == poll = Started /\ net = FirstRequest /\ call = Silent

AllWait ==
  /\ DOMAIN poll = Polls /\ DOMAIN net = Polls \cup {User}
  /\ \A w \in Polls \cup {User} : Carried(w)
  /\ UserWaits
  /\ \A q \in Polls : Waiting(q) /\ poll[q].todo = << >>

LEMMA StartWaits == Starting => AllWait
<1> SUFFICES ASSUME poll = Started, net = FirstRequest, call = Silent
             PROVE  AllWait
  BY DEF Starting
<1>1. FirstPoll \in Polls /\ FirstPoll # User
  BY PollsAssumption DEF FirstPoll
<1>2. /\ DOMAIN poll = Polls /\ DOMAIN net = Polls \cup {User}
      /\ \A q \in Polls : poll[q] = IF q = FirstPoll THEN At("first") ELSE Idle
      /\ \A w \in Polls \cup {User} : net[w] = IF w = FirstPoll THEN Ask ELSE Silent
  BY DEF Started, FirstRequest
<1>3. At("first") = [step |-> "first", todo |-> << >>, seen |-> << >>, attached |-> FALSE]
  BY AtIs
<1>4. \A w \in Polls \cup {User} : Carried(w)
  BY <1>2, OpsDiffer DEF Carried, Sendable
<1>5. UserWaits
  BY <1>1, <1>2, OpsDiffer DEF UserWaits, Sendable
<1>6. \A p : p = << >> => p \in Seq(Prompts)
  OBVIOUS
<1>7. ASSUME NEW q \in Polls
      PROVE  Waiting(q) /\ poll[q].todo = << >>
  <2>1. CASE q = FirstPoll
    <3>1. poll[q] = [step |-> "first", todo |-> << >>, seen |-> << >>, attached |-> FALSE]
          /\ net[q] = Ask
      BY <1>2, <1>3, <2>1
    <3>2. QED
      BY <1>6, <3>1, OpsDiffer DEF Waiting
  <2>2. CASE q # FirstPoll
    <3>1. poll[q] = [step |-> "idle", todo |-> << >>, seen |-> << >>, attached |-> FALSE]
          /\ net[q] = Silent
      BY <1>2, <2>2 DEF Idle
    <3>2. QED
      BY <1>6, <3>1, OpsDiffer DEF Waiting
  <2>3. QED
    BY <2>1, <2>2
<1>8. QED
  BY <1>2, <1>4, <1>5, <1>7 DEF AllWait

LEMMA StartWaitsNext == Starting' => AllWait'
BY StartWaits, PTL

LEMMA ReloadInv ==
  ASSUME IInv, Reload
  PROVE  IInv' /\ Kept
<1>1. /\ memory' = stored /\ stored' = stored /\ fallback' = FALSE
      /\ UNCHANGED <<server, ids, reached>> /\ Starting'
  BY DEF Reload, Starting
<1>2. AllWait'
  BY <1>1, StartWaitsNext
<1>3. ServerTyped' /\ Lists'
  BY <1>1 DEF IInv, ServerTyped, Lists, OneOfEach
<1>4. Known' \subseteq Known
  <2>1. \A q \in Polls : ToSet(poll'[q].todo) = {}
    BY <1>2 DEF AllWait, ToSet
  <2>2. QED
    BY <1>1, <2>1 DEF Known
<1>5. SlugById'
  BY <1>1, <1>4, NothingNew, KnownTyped DEF IInv, ServerTyped
<1>6. IInv'
  BY <1>2, <1>3, <1>5 DEF IInv, AllWait
<1>7. Kept
  BY <1>1, StaysIsKept DEF IInv, Lists
<1>8. QED
  BY <1>6, <1>7

-----------------------------------------------------------------------------
(* The theorems *)

LEMMA InitInv == Init => IInv
<1> SUFFICES ASSUME Init PROVE IInv
  OBVIOUS
<1>1. \A s : s = << >> => s \in Seq(Prompts) /\ DOMAIN s = {}
  OBVIOUS
<1>2. AllWait
  BY StartWaits DEF Init, Starting
<1>3. ToSet(memory) = {} /\ ToSet(stored) = {} /\ DOMAIN server = {}
  BY <1>1 DEF Init, ToSet
<1>4. Lists /\ ServerTyped
  BY <1>1, <1>3 DEF Init, Lists, OneOfEach, ServerTyped
<1>5. Known = {}
  BY <1>2, <1>3 DEF Known, AllWait, ToSet
<1>6. SlugById
  BY <1>5 DEF SlugById
<1>7. QED
  BY <1>2, <1>4, <1>6 DEF IInv, AllWait

LEMMA StutterInv ==
  ASSUME IInv, UNCHANGED vars
  PROVE  IInv' /\ Kept
<1>1. /\ UNCHANGED <<server, memory, stored, fallback, poll, call, net, ids, reached>>
  BY DEF vars
<1>2. ServerTyped' /\ Lists' /\ UserWaits' /\ SlugById'
  BY <1>1 DEF IInv, ServerTyped, Lists, OneOfEach, UserWaits, Sendable, SlugById, Known
<1>3. \A w \in Polls \cup {User} : Carried(w)'
  BY <1>1, CarriedStays DEF IInv
<1>4. \A q \in Polls : Waiting(q)'
  BY <1>1, WaitingStays DEF IInv
<1>5. IInv'
  BY <1>1, <1>2, <1>3, <1>4 DEF IInv
<1>6. QED
  BY <1>1, <1>5, GotoKept DEF IInv

LEMMA NextInv ==
  ASSUME IInv, [Next]_vars
  PROVE  IInv' /\ Kept
<1>1. ASSUME NEW w \in Polls \cup {User}, Serve(w) \/ Lose(w)
      PROVE  IInv' /\ Kept
  <2>1. memory' = memory
    BY <1>1 DEF Serve, Lose, local
  <2>2. QED
    BY <1>1, <2>1, ServeInv, LoseInv, GotoKept DEF IInv
<1>2. CASE OtherClient
  <2>1. memory' = memory
    BY <1>2 DEF OtherClient, local
  <2>2. QED
    BY <1>2, <2>1, OtherClientInv, GotoKept DEF IInv
<1>3. ASSUME NEW q \in Polls, PollStep(q)
      PROVE  IInv' /\ Kept
  BY <1>3, TickInv, FirstCheckedInv, CheckedInv, GotListInv, PushedInv DEF PollStep
<1>4. CASE Call \/ Return \/ Reload
  BY <1>4, CallInv, ReturnInv, ReloadInv
<1>5. CASE UNCHANGED vars
  BY <1>5, StutterInv
<1>6. QED
  BY <1>1, <1>2, <1>3, <1>4, <1>5 DEF Next

(* What the page shows of its own prompts is what a reload would bring     *)
(* back, whatever saves failed (persistStoreOrRollback of promptApi.ts).   *)
THEOREM PageShowsWhatIsStored == Spec => []MemoryIsStored
<1>1. Init => IInv
  BY InitInv
<1>2. IInv /\ [Next]_vars => IInv'
  BY NextInv
<1>3. IInv => MemoryIsStored
  BY InvIsStored
<1>4. QED
  BY <1>1, <1>2, <1>3, PTL DEF Spec

(* However many polls overlap, whatever requests and answers are lost and  *)
(* however often the page is loaded again, a local prompt leaves the store *)
(* with all its versions only for the server, or at the user's request     *)
(* (trySyncToServer of promptApi.ts).                                      *)
THEOREM LocalPromptsAreKept == Spec => LocalKept
<1>1. Init => IInv
  BY InitInv
<1>2. IInv /\ [Next]_vars => IInv' /\ [Kept]_vars
  BY NextInv
<1>3. QED
  BY <1>1, <1>2, PTL DEF Spec, LocalKept, Kept

=============================================================================
