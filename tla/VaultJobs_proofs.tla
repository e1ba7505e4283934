---------------------------- MODULE VaultJobs_proofs ---------------------------
(***************************************************************************)
(* Proofs about VaultJobs, for every value of its constants.               *)
(***************************************************************************)
EXTENDS VaultJobs, FiniteSetTheorems, SequenceTheorems, WellFoundedInduction, TLAPS

(* The rows that the constraints of the tables allow, and the bundle file. *)
RowsOK ==
  /\ lastId \in Nat /\ DOMAIN prompts \subseteq 1..lastId
  /\ \A id \in DOMAIN prompts : prompts[id] \in Rows /\ prompts[id].versions # <<>>
  /\ \A i, k \in DOMAIN prompts : prompts[i].slug = prompts[k].slug => i = k

BundleOK ==
  /\ bundle \in Seq(Items)
  /\ \A i, k \in DOMAIN bundle : bundle[i].slug = bundle[k].slug => i = k

(* A job has an item in hand where its next step needs one, and the jobs   *)
(* on all prompts have phases of their own.                                *)
Fields == DOMAIN NoJob
Handling == {"next", "create", "tag", "update", "relabel", "number", "version"}

ItemsOK(j) ==
  /\ j.items \in Seq(Items)
  /\ j.phase \in Handling => j.items # <<>>
  /\ j.op \in {"write", "duplicate", "convert", "edit"} /\ j.phase = "begun" => j.items # <<>>

PhaseOK(j) ==
  /\ j.op = "none" <=> j.phase = "none"
  /\ j.op = "repair" => j.phase \in {"begun", "repair", "done"}
  /\ j.op = "export" => j.phase \in {"begun", "labels", "done"}
  /\ j.op = "bulkExport" => j.phase \in {"begun", "done"}
  /\ j.phase = "repair" => j.op = "repair" /\ j.left # {}
  /\ j.phase = "labels" => j.op = "export"
  /\ j.left # {} => j.op \in {"repair", "bulkExport"}

JobOK(j) ==
  /\ DOMAIN j = Fields
  /\ ItemsOK(j)
  /\ PhaseOK(j)
  /\ j.op \notin {"none", "bulkExport"} => j.policy \in Strategies

(* A repair has settled each prompt, or will, or somebody else touched it. *)
RepairOK(c) ==
  job[c].op = "repair" /\ job[c].phase \in {"repair", "done"} =>
    /\ job[c].phase = "done" => job[c].left = {}
    /\ \A id \in InvalidIds :
         \/ prompts[id].trashed > 0
         \/ prompts[id].slug \in job[c].foreign
         \/ id \in job[c].left
         \/ RefusedAsDetected(id)

(* What an export has read is what there is, but for what others touched.  *)
ReadOK(c) ==
  LET read == job[c].read IN
    /\ DOMAIN read \subseteq 1..lastId
    /\ \A i, k \in DOMAIN read : read[i].slug = read[k].slug => i = k
    /\ \A id \in DOMAIN read :
         /\ read[id] \in Items
         /\ read[id].slug \in job[c].foreign
              \/ (id \in DOMAIN prompts /\ prompts[id].slug = read[id].slug)
    /\ \A id \in DOMAIN prompts : prompts[id].slug \notin job[c].foreign =>
         /\ id \in DOMAIN read <=> Active(id)
         /\ Active(id) => read[id] = BundleItem(id)

WholeOK(c) ==
  \A id \in {i \in DOMAIN prompts : prompts[i].slug \notin job[c].foreign} :
    {item \in Range(job[c].done) : item.slug = prompts[id].slug} =
      IF Active(id) THEN {BundleItem(id)} ELSE {}

ExportOK(c) ==
  job[c].op = "export" =>
    /\ job[c].phase = "labels" => ReadOK(c)
    /\ job[c].phase = "done" => WholeOK(c)

(* A file that was written is the one that would be written now, but for   *)
(* prompts others touched.                                                 *)
Rendered(id, to) ==
  [id |-> id, body |-> Converted(Latest(id).body, Latest(id).format, to)]

FileOK(foreign, name, file) ==
  /\ file.id \in Nat /\ file.id <= lastId /\ Slug(file.id) \subseteq {name[1]}
  /\ name[1] \in foreign
       \/ /\ file.id \in DOMAIN prompts /\ file = Rendered(file.id, name[2])
          /\ name \in DOMAIN files /\ files[name] = file

FilesOK(c) ==
  job[c].op = "bulkExport" =>
    /\ job[c].done \in Seq(Range(job[c].done))
    /\ \A i \in DOMAIN job[c].done : \A name \in DOMAIN job[c].done[i] :
         FileOK(job[c].foreign, name, job[c].done[i][name])

UpkeepOK(c) == RepairOK(c) /\ ExportOK(c) /\ FilesOK(c)

JobsInv ==
  /\ RowsOK /\ BundleOK
  /\ DOMAIN job = Clients
  /\ \A c \in Clients : JobOK(job[c]) /\ UpkeepOK(c)

-----------------------------------------------------------------------------
(* What a step may do to the rows and files: the slugs of the rows that    *)
(* come, go or change are `touched', and no id is given twice.             *)

RowsMove(touched) ==
  /\ RowsOK' /\ lastId <= lastId'
  /\ \A id \in DOMAIN prompts :
       prompts[id].slug \in touched \/ (id \in DOMAIN prompts' /\ prompts'[id] = prompts[id])
  /\ \A id \in DOMAIN prompts' :
       prompts'[id].slug \in touched \/ (id \in DOMAIN prompts /\ prompts'[id] = prompts[id])
  /\ \A id \in DOMAIN prompts' :
       id <= lastId => id \in DOMAIN prompts /\ prompts'[id].slug = prompts[id].slug

FilesMove ==
  \A name \in DOMAIN files :
    /\ name \in DOMAIN files'
    /\ files'[name] = files[name]
         \/ \E id \in DOMAIN prompts' :
              name[1] = prompts'[id].slug /\ files'[name] = Rendered(id, name[2])'

LEMMA RowsStay ==
  ASSUME RowsOK, UNCHANGED <<prompts, lastId>>, NEW touched
  PROVE  RowsMove(touched)
BY DEF RowsOK, RowsMove

LEMMA RowEdited ==
  ASSUME RowsOK, NEW id \in DOMAIN prompts, NEW row \in Rows, row.versions # <<>>,
         row.slug = prompts[id].slug, UNCHANGED lastId,
         prompts' = [prompts EXCEPT ![id] = row],
         NEW touched, prompts[id].slug \in touched
  PROVE  RowsMove(touched)
<1>1. /\ DOMAIN prompts' = DOMAIN prompts /\ prompts'[id] = row
      /\ \A i \in DOMAIN prompts \ {id} : prompts'[i] = prompts[i]
      /\ \A i \in DOMAIN prompts : prompts'[i].slug = prompts[i].slug
  OBVIOUS
<1>2. RowsOK'
  BY <1>1 DEF RowsOK
<1>3. QED
  BY <1>1, <1>2 DEF RowsOK, RowsMove

-----------------------------------------------------------------------------
(* A job that only learns what others touched *)

LEMMA OthersFields ==
  ASSUME NEW j, DOMAIN j = Fields, NEW touched, NEW n,
         n = [j EXCEPT !.foreign = j.foreign \cup touched]
  PROVE  /\ DOMAIN n = Fields /\ n.op = j.op /\ n.phase = j.phase /\ n.policy = j.policy
         /\ n.items = j.items /\ n.left = j.left /\ n.read = j.read /\ n.done = j.done
         /\ n.id = j.id /\ n.failed = j.failed /\ n.before = j.before
         /\ n.foreign = j.foreign \cup touched
BY DEF Fields, NoJob

(* What the job of another client learns from a step. *)
Learns(d, touched) ==
  \/ job[d].op = "none" /\ job'[d].op = "none"
  \/ /\ job'[d].op = job[d].op /\ job'[d].phase = job[d].phase /\ job'[d].policy = job[d].policy
     /\ job'[d].items = job[d].items /\ job'[d].read = job[d].read /\ job'[d].done = job[d].done
     /\ job'[d].id = job[d].id /\ job'[d].failed = job[d].failed
     /\ job'[d].before = job[d].before
     /\ job'[d].foreign = job[d].foreign \cup touched

LEMMA OthersRepair ==
  ASSUME RowsOK, NEW d, RepairOK(d), NEW touched, RowsMove(touched),
         job'[d].op = job[d].op, job'[d].phase = job[d].phase, job'[d].left = job[d].left, job'[d].foreign = job[d].foreign \cup touched
  PROVE  RepairOK(d)'
<1>1. SUFFICES ASSUME job[d].op = "repair", job[d].phase \in {"repair", "done"}
               PROVE  /\ job[d].phase = "done" => job[d].left = {}
                      /\ \A id \in InvalidIds' : prompts'[id].trashed > 0
                            \/ prompts'[id].slug \in job'[d].foreign \/ id \in job[d].left
                            \/ RefusedAsDetected(id)'
  BY DEF RepairOK
<1>2. ASSUME NEW id \in InvalidIds', prompts'[id].slug \notin touched
      PROVE  /\ id \in InvalidIds /\ prompts'[id] = prompts[id]
             /\ RefusedAsDetected(id) => RefusedAsDetected(id)'
  BY <1>2 DEF RowsMove, InvalidIds, Latest, RefusedAsDetected
<1>3. QED
  BY <1>1, <1>2 DEF RepairOK

LEMMA OthersExport ==
  ASSUME RowsOK, NEW d, ExportOK(d), NEW touched, RowsMove(touched),
         job'[d].op = job[d].op, job'[d].phase = job[d].phase, job'[d].read = job[d].read,
         job'[d].done = job[d].done,
         job'[d].foreign = job[d].foreign \cup touched
  PROVE  ExportOK(d)'
<1>1. ASSUME NEW id \in DOMAIN prompts', prompts'[id].slug \notin job'[d].foreign
      PROVE  /\ id \in DOMAIN prompts /\ prompts'[id] = prompts[id] /\ prompts[id].slug \notin job[d].foreign
             /\ Active(id)' <=> Active(id)
             /\ BundleItem(id)' = BundleItem(id)
  BY <1>1 DEF RowsMove, Active, BundleItem, Latest
<1>2. ASSUME job[d].op = "export", job[d].phase = "labels"
      PROVE  ReadOK(d)'
  <2>1. ReadOK(d)
    BY <1>2 DEF ExportOK
  <2>2. DOMAIN job[d].read \subseteq 1..lastId'
    <3>1. lastId \in Nat /\ lastId' \in Nat /\ lastId <= lastId'
      BY DEF RowsMove, RowsOK
    <3>2. DOMAIN job[d].read \subseteq 1..lastId
      BY <2>1 DEF ReadOK
    <3>3. QED
      BY <3>1, <3>2
  <2>3. \A id \in DOMAIN job[d].read :
          /\ job[d].read[id] \in Items
          /\ job[d].read[id].slug \in job'[d].foreign
               \/ (id \in DOMAIN prompts' /\ prompts'[id].slug = job[d].read[id].slug)
    BY <2>1 DEF ReadOK, RowsMove
  <2>4. \A id \in DOMAIN prompts' : prompts'[id].slug \notin job'[d].foreign =>
          /\ id \in DOMAIN job[d].read <=> Active(id)'
          /\ Active(id)' => job[d].read[id] = BundleItem(id)'
    BY <1>1, <2>1 DEF ReadOK
  <2>5. \A i, k \in DOMAIN job[d].read : job[d].read[i].slug = job[d].read[k].slug => i = k
    BY <2>1 DEF ReadOK
  <2>6. QED
    BY <2>2, <2>3, <2>4, <2>5 DEF ReadOK
<1>3. ASSUME job[d].op = "export", job[d].phase = "done"
      PROVE  WholeOK(d)'
  <2>1. WholeOK(d)
    BY <1>3 DEF ExportOK
  <2>2. SUFFICES ASSUME NEW id \in DOMAIN prompts', prompts'[id].slug \notin job'[d].foreign
                 PROVE  {item \in Range(job[d].done) : item.slug = prompts'[id].slug} =
                          IF Active(id)' THEN {BundleItem(id)'} ELSE {}
    BY DEF WholeOK, Range
  <2>3. QED
    BY <1>1, <2>1, <2>2 DEF WholeOK
<1>4. QED
  BY <1>2, <1>3 DEF ExportOK

LEMMA FileStays ==
  ASSUME RowsOK, NEW touched, RowsMove(touched), FilesMove,
         NEW foreign, NEW name, NEW file, FileOK(foreign, name, file)
  PROVE  FileOK(foreign \cup touched, name, file)'
<1>1. file.id \in Nat /\ file.id <= lastId /\ Slug(file.id) \subseteq {name[1]}
  BY DEF FileOK
<1>2. file.id \in Nat /\ file.id <= lastId' /\ Slug(file.id)' \subseteq {name[1]}
  <2>1. file.id \in DOMAIN prompts' => file.id \in DOMAIN prompts /\ prompts'[file.id].slug = prompts[file.id].slug
    BY <1>1 DEF RowsMove
  <2>2. Slug(file.id)' \subseteq {name[1]}
    BY <1>1, <2>1 DEF Slug
  <2>3. lastId \in Nat /\ lastId' \in Nat /\ lastId <= lastId'
    BY DEF RowsMove, RowsOK
  <2>4. QED
    BY <1>1, <2>2, <2>3
<1>3. ASSUME name[1] \notin foreign \cup touched
      PROVE  /\ file.id \in DOMAIN prompts' /\ file = Rendered(file.id, name[2])'
             /\ name \in DOMAIN files' /\ files'[name] = file
  <2>1. /\ file.id \in DOMAIN prompts /\ file = Rendered(file.id, name[2])
        /\ name \in DOMAIN files /\ files[name] = file
        /\ name[1] \notin touched
    BY <1>3 DEF FileOK
  <2>2. prompts[file.id].slug = name[1]
    BY <1>1, <2>1 DEF Slug
  <2>3. file.id \in DOMAIN prompts' /\ prompts'[file.id] = prompts[file.id]
    BY <2>1, <2>2 DEF RowsMove
  <2>4. Rendered(file.id, name[2])' = Rendered(file.id, name[2])
    BY <2>3 DEF Rendered, Latest
  <2>5. ASSUME files'[name] # files[name]
        PROVE  files'[name] = file
    <3>1. PICK id \in DOMAIN prompts' : name[1] = prompts'[id].slug /\ files'[name] = Rendered(id, name[2])'
      BY <2>1, <2>5 DEF FilesMove
    <3>2. id = file.id
      BY <2>2, <2>3, <3>1 DEF RowsMove, RowsOK
    <3>3. QED
      BY <2>1, <2>4, <3>1, <3>2
  <2>6. name \in DOMAIN files'
    BY <2>1 DEF FilesMove
  <2>7. QED
    BY <2>1, <2>3, <2>4, <2>5, <2>6
<1>4. QED
  BY <1>2, <1>3 DEF FileOK

LEMMA OthersFiles ==
  ASSUME RowsOK, NEW d, FilesOK(d), NEW touched, RowsMove(touched), FilesMove,
         job'[d].op = job[d].op, job'[d].done = job[d].done, job'[d].foreign = job[d].foreign \cup touched
  PROVE  FilesOK(d)'
<1>1. ASSUME job[d].op = "bulkExport", NEW i \in DOMAIN job[d].done,
             NEW name \in DOMAIN job[d].done[i]
      PROVE  FileOK(job[d].foreign, name, job[d].done[i][name])'
  <2>1. PICK file, foreign : file = job[d].done[i][name] /\ foreign = job[d].foreign
    OBVIOUS
  <2>2. FileOK(foreign, name, file)
    BY <1>1, <2>1 DEF FilesOK
  <2>3. FileOK(foreign \cup touched, name, file)'
    BY <2>2, FileStays
  <2>4. QED
    BY <2>1, <2>3 DEF FileOK
<1>2. \A i \in DOMAIN job'[d].done : \A name \in DOMAIN job'[d].done[i] :
        job[d].op = "bulkExport" => FileOK(job[d].foreign, name, job[d].done[i][name])'
  BY <1>1
<1>3. QED
  BY <1>2 DEF FilesOK

-----------------------------------------------------------------------------
(* What becomes of the jobs when one of them takes a step *)

LEMMA NoJobOK == JobOK(NoJob) /\ NoJob.op = "none"
<1>1. /\ NoJob.op = "none" /\ NoJob.phase = "none" /\ NoJob.items = <<>> /\ NoJob.left = {}
      /\ DOMAIN NoJob = Fields
  BY DEF NoJob, Fields
<1>2. <<>> \in Seq(Items)
  OBVIOUS
<1>3. ItemsOK(NoJob)
  BY <1>1, <1>2 DEF ItemsOK, Handling
<1>4. PhaseOK(NoJob)
  BY <1>1 DEF PhaseOK
<1>5. QED
  BY <1>1, <1>3, <1>4 DEF JobOK

Upkeep == {"repair", "export", "bulkExport"}

LEMMA PlainUpkeep ==
  ASSUME NEW d, job'[d].op \notin Upkeep
  PROVE  UpkeepOK(d)'
BY DEF Upkeep, UpkeepOK, RepairOK, ExportOK, FilesOK

LEMMA OthersKeep ==
  ASSUME JobsInv, NEW d \in Clients, NEW touched, RowsMove(touched), FilesMove,
         job'[d] = IF job[d].op = "none" THEN NoJob
                   ELSE [job[d] EXCEPT !.foreign = job[d].foreign \cup touched]
  PROVE  JobOK(job'[d]) /\ UpkeepOK(d)' /\ Learns(d, touched)
<1>1. RowsOK /\ JobOK(job[d]) /\ UpkeepOK(d)
  BY DEF JobsInv
<1>2. CASE job[d].op = "none"
  <2>1. job'[d] = NoJob
    BY <1>2
  <2>2. UpkeepOK(d)'
    BY <2>1, NoJobOK, PlainUpkeep DEF Upkeep
  <2>3. QED
    BY <1>2, <2>1, <2>2, NoJobOK DEF Learns
<1>3. CASE job[d].op # "none"
  <2>1. job'[d] = [job[d] EXCEPT !.foreign = job[d].foreign \cup touched]
    BY <1>3
  <2>2. DOMAIN job[d] = Fields
    BY <1>1 DEF JobOK
  <2>3. /\ DOMAIN job'[d] = Fields /\ job'[d].op = job[d].op /\ job'[d].phase = job[d].phase
        /\ job'[d].policy = job[d].policy /\ job'[d].items = job[d].items
        /\ job'[d].left = job[d].left /\ job'[d].read = job[d].read
        /\ job'[d].done = job[d].done /\ job'[d].foreign = job[d].foreign \cup touched
        /\ job'[d].id = job[d].id /\ job'[d].failed = job[d].failed
        /\ job'[d].before = job[d].before
    <3>1. PICK j, n : j = job[d] /\ n = job'[d]
      OBVIOUS
    <3>2. DOMAIN j = Fields /\ n = [j EXCEPT !.foreign = j.foreign \cup touched]
      BY <2>1, <2>2, <3>1
    <3>3. QED
      BY <3>1, <3>2, OthersFields
  <2>4. JobOK(job'[d])
    BY <1>1, <2>3 DEF JobOK, ItemsOK, PhaseOK
  <2>5. RepairOK(d)'
    BY <1>1, <2>3, OthersRepair DEF UpkeepOK
  <2>6. ExportOK(d)'
    BY <1>1, <2>3, OthersExport DEF UpkeepOK
  <2>7. FilesOK(d)'
    BY <1>1, <2>3, OthersFiles DEF UpkeepOK
  <2>8. Learns(d, touched)
    BY <2>3 DEF Learns
  <2>9. QED
    BY <2>4, <2>5, <2>6, <2>7, <2>8 DEF UpkeepOK
<1>4. QED
  BY <1>2, <1>3

(* What all steps leave: the invariant, and the jobs of the clients that   *)
(* did not take it know the slugs it touched.                              *)
Spread(touched, own) == RowsMove(touched) /\ \A d \in Clients \ own : Learns(d, touched)
Kept(own) == JobsInv' /\ \E touched : Spread(touched, own)

LEMMA StepKeeps ==
  ASSUME JobsInv, NEW c \in Clients, NEW j, NEW touched, Become(c, j, touched),
         RowsMove(touched), FilesMove, BundleOK', JobOK(j), UpkeepOK(c)'
  PROVE  Kept({c})
<1>1. RowsOK'
  BY DEF RowsMove
<1>2. DOMAIN job' = Clients /\ job'[c] = j
  BY DEF Become
<1>3. ASSUME NEW d \in Clients \ {c}
      PROVE  JobOK(job'[d]) /\ UpkeepOK(d)' /\ Learns(d, touched)
  <2>1. job'[d] = IF job[d].op = "none" THEN NoJob
                  ELSE [job[d] EXCEPT !.foreign = job[d].foreign \cup touched]
    BY <1>3 DEF Become
  <2>2. QED
    BY <2>1, OthersKeep
<1>4. ASSUME NEW d \in Clients
      PROVE  JobOK(job'[d]) /\ UpkeepOK(d)'
  <2>1. CASE d # c
    BY <1>3, <2>1
  <2>2. CASE d = c
    <3>1. JobOK(job'[d])
      BY <1>2, <2>2
    <3>2. RepairOK(d)'
      BY <2>2 DEF UpkeepOK, RepairOK
    <3>3. ExportOK(d)'
      BY <2>2 DEF UpkeepOK, ExportOK, ReadOK, WholeOK
    <3>4. FilesOK(d)'
      <4>1. FilesOK(c)'
        BY DEF UpkeepOK
      <4>2. QED
        BY <2>2, <4>1 DEF FilesOK
    <3>5. QED
      BY <3>1, <3>2, <3>3, <3>4 DEF UpkeepOK
  <2>3. QED
    BY <2>1, <2>2
<1>5. JobsInv'
  BY <1>1, <1>2, <1>4 DEF JobsInv
<1>6. Spread(touched, {c})
  BY <1>3 DEF Spread
<1>7. QED
  BY <1>5, <1>6 DEF Kept

-----------------------------------------------------------------------------
(* Steps of the jobs on one prompt or on files that were given *)

Plain(j) == j.op \notin Upkeep \cup {"none"}
OwnPhases == {"next", "create", "tag", "update", "relabel", "number", "version", "purge",
              "restore", "versions", "clear index", "taggings", "migrate"}
Onward == OwnPhases \cup {"done", "failed"}

LEMMA OwnPhase ==
  ASSUME NEW j, JobOK(j), j.phase \in OwnPhases
  PROVE  Plain(j)
BY DEF JobOK, PhaseOK, OwnPhases, Plain, Upkeep

LEMMA PlainJob ==
  ASSUME NEW j, JobOK(j), Plain(j), NEW n, DOMAIN n = Fields,
         n.op = j.op, n.policy = j.policy, n.left = j.left, n.items \in Seq(Items),
         n.phase \in Onward, n.phase \in Handling => n.items # <<>>
  PROVE  JobOK(n) /\ Plain(n)
<1>1. Plain(n)
  BY DEF Plain
<1>2. ItemsOK(n)
  BY DEF ItemsOK, Onward, OwnPhases
<1>3. PhaseOK(n)
  BY DEF PhaseOK, JobOK, Plain, Upkeep, Onward, OwnPhases
<1>4. QED
  BY <1>1, <1>2, <1>3 DEF JobOK, Plain, Upkeep

LEMMA PhaseNext ==
  ASSUME NEW j, JobOK(j), Plain(j), NEW p \in Onward, p \in Handling => j.items # <<>>,
         NEW n, n = [j EXCEPT !.phase = p]
  PROVE  JobOK(n) /\ Plain(n)
<1>1. DOMAIN j = Fields /\ j.items \in Seq(Items)
  BY DEF JobOK, ItemsOK
<1>2. /\ DOMAIN n = Fields /\ n.op = j.op /\ n.policy = j.policy /\ n.left = j.left
      /\ n.items = j.items /\ n.phase = p
  BY <1>1 DEF Fields, NoJob
<1>3. QED
  BY <1>1, <1>2, PlainJob

LEMMA PhaseAndId ==
  ASSUME NEW j, JobOK(j), Plain(j), NEW p \in Onward, p \in Handling => j.items # <<>>,
         NEW i, NEW n, n = [j EXCEPT !.phase = p, !.id = i]
  PROVE  JobOK(n) /\ Plain(n)
<1>1. DOMAIN j = Fields /\ j.items \in Seq(Items)
  BY DEF JobOK, ItemsOK
<1>2. /\ DOMAIN n = Fields /\ n.op = j.op /\ n.policy = j.policy /\ n.left = j.left
      /\ n.items = j.items /\ n.phase = p
  BY <1>1 DEF Fields, NoJob
<1>3. QED
  BY <1>1, <1>2, PlainJob

LEMMA PhaseAndRead ==
  ASSUME NEW j, JobOK(j), Plain(j), NEW p \in Onward \ Handling,
         NEW r, NEW n, n = [j EXCEPT !.read = r, !.phase = p]
  PROVE  JobOK(n) /\ Plain(n)
<1>1. DOMAIN j = Fields /\ j.items \in Seq(Items)
  BY DEF JobOK, ItemsOK
<1>2. /\ DOMAIN n = Fields /\ n.op = j.op /\ n.policy = j.policy /\ n.left = j.left
      /\ n.items = j.items /\ n.phase = p
  BY <1>1 DEF Fields, NoJob
<1>3. QED
  BY <1>1, <1>2, PlainJob

LEMMA PhaseAndBefore ==
  ASSUME NEW j, JobOK(j), Plain(j), NEW p \in Onward \ Handling,
         NEW b, NEW n, n = [j EXCEPT !.phase = p, !.before = b]
  PROVE  JobOK(n) /\ Plain(n)
<1>1. DOMAIN j = Fields /\ j.items \in Seq(Items)
  BY DEF JobOK, ItemsOK
<1>2. /\ DOMAIN n = Fields /\ n.op = j.op /\ n.policy = j.policy /\ n.left = j.left
      /\ n.items = j.items /\ n.phase = p
  BY <1>1 DEF Fields, NoJob
<1>3. QED
  BY <1>1, <1>2, PlainJob

LEMMA OneItem ==
  ASSUME NEW item \in Items
  PROVE  <<item>> \in Seq(Items) /\ <<item>> # <<>>
OBVIOUS

LEMMA PhaseAndItem ==
  ASSUME NEW j, JobOK(j), Plain(j), NEW p \in Onward, NEW item \in Items,
         NEW n, n = [j EXCEPT !.phase = p, !.items = <<item>>]
  PROVE  JobOK(n) /\ Plain(n)
<1>1. DOMAIN j = Fields
  BY DEF JobOK
<1> DEFINE one == <<item>>
<1>2. one \in Seq(Items) /\ one # <<>>
  BY OneItem
<1>3. n = [j EXCEPT !.phase = p, !.items = one]
  OBVIOUS
<1> HIDE DEF one
<1>4. /\ DOMAIN n = Fields /\ n.op = j.op /\ n.policy = j.policy /\ n.left = j.left
      /\ n.items = one /\ n.phase = p
  BY <1>1, <1>3 DEF Fields, NoJob
<1>5. QED
  BY <1>2, <1>4, PlainJob

LEMMA RestOfItems ==
  ASSUME NEW items \in Seq(Items), items # <<>>
  PROVE  /\ Tail(items) \in Seq(Items) /\ Head(items) \in Items
         /\ After(Tail(items)) \in {"next", "done"}
         /\ After(Tail(items)) = "next" => Tail(items) # <<>>
BY HeadTailProperties DEF After

LEMMA StoredJob ==
  ASSUME NEW c, JobOK(job[c]), Plain(job[c]), job[c].items # <<>>
  PROVE  JobOK(Stored(c)) /\ Plain(Stored(c))
<1> DEFINE j == job[c]
           n == Stored(c)
           rest == Tail(j.items)
           p == After(rest)
<1>1. DOMAIN j = Fields /\ j.items \in Seq(Items)
  BY DEF JobOK, ItemsOK
<1>2. rest \in Seq(Items) /\ p \in {"next", "done"} /\ (p = "next" => rest # <<>>)
  BY <1>1, RestOfItems
<1>3. PICK d : d = Append(j.done, Head(j.items))
  OBVIOUS
<1>4. n = [j EXCEPT !.items = rest, !.phase = p, !.done = d]
  BY <1>3 DEF Stored
<1> HIDE DEF n, p, rest, j
<1>5. /\ DOMAIN n = Fields /\ n.op = j.op /\ n.policy = j.policy /\ n.left = j.left
      /\ n.items = rest /\ n.phase = p
  BY <1>1, <1>4 DEF Fields, NoJob
<1>6. p \in Onward /\ (p \in Handling => rest # <<>>)
  BY <1>2 DEF Onward, OwnPhases, Handling
<1>7. JobOK(n) /\ Plain(n)
  BY <1>2, <1>5, <1>6, PlainJob DEF j
<1>8. QED
  BY <1>7 DEF n

LEMMA ThrownJob ==
  ASSUME NEW c, JobOK(job[c]), Plain(job[c])
  PROVE  JobOK(Thrown(c)) /\ Plain(Thrown(c))
<1> DEFINE j == job[c]
           n == Thrown(c)
           rest == Tail(j.items)
           p == After(rest)
<1>1. DOMAIN j = Fields /\ j.items \in Seq(Items)
  BY DEF JobOK, ItemsOK
<1>2. CASE j.items # <<>> /\ j.keepGoing
  <2>1. rest \in Seq(Items) /\ p \in {"next", "done"} /\ (p = "next" => rest # <<>>)
    BY <1>1, <1>2, RestOfItems
  <2>2. PICK f : f = j.failed \cup {Head(j.items).slug}
    OBVIOUS
  <2>3. n = [j EXCEPT !.items = rest, !.phase = p, !.failed = f]
    BY <1>2, <2>2 DEF Thrown
  <2> HIDE DEF n, p, rest, j
  <2>4. /\ DOMAIN n = Fields /\ n.op = j.op /\ n.policy = j.policy /\ n.left = j.left
        /\ n.items = rest /\ n.phase = p
    BY <1>1, <2>3 DEF Fields, NoJob
  <2>5. p \in Onward /\ (p \in Handling => rest # <<>>)
    BY <2>1 DEF Onward, OwnPhases, Handling
  <2>6. JobOK(n) /\ Plain(n)
    BY <2>1, <2>4, <2>5, PlainJob DEF j
  <2>7. QED
    BY <2>6 DEF n
<1>3. CASE ~(j.items # <<>> /\ j.keepGoing)
  <2>1. n = [j EXCEPT !.phase = "failed"]
    BY <1>3 DEF Thrown
  <2> HIDE DEF n
  <2>2. "failed" \in Onward /\ "failed" \notin Handling
    BY DEF Onward, Handling
  <2>3. JobOK(n) /\ Plain(n)
    BY <2>1, <2>2, PhaseNext
  <2>4. QED
    BY <2>3 DEF n
<1>4. QED
  BY <1>2, <1>3

LEMMA PlainStep ==
  ASSUME JobsInv, NEW c \in Clients, NEW j, NEW touched, Become(c, j, touched),
         RowsMove(touched), UNCHANGED <<bundle, files>>, JobOK(j), Plain(j)
  PROVE  Kept({c})
<1>1. FilesMove
  BY DEF FilesMove
<1>2. BundleOK'
  BY DEF JobsInv, BundleOK
<1>3. job'[c] = j
  BY DEF Become
<1>4. UpkeepOK(c)'
  BY <1>3, PlainUpkeep DEF Plain
<1>5. QED
  BY <1>1, <1>2, <1>4, StepKeeps

LEMMA QuietStep ==
  ASSUME JobsInv, NEW c \in Clients, NEW j, NEW touched, Become(c, j, touched),
         UNCHANGED <<prompts, lastId, bundle, files>>, JobOK(j), Plain(j)
  PROVE  Kept({c})
<1>1. RowsMove(touched)
  BY RowsStay DEF JobsInv
<1>2. QED
  BY <1>1, PlainStep

LEMMA ThrowKeeps ==
  ASSUME JobsInv, NEW c \in Clients, Throw(c), Plain(job[c])
  PROVE  Kept({c})
<1>1. JobOK(job[c])
  BY DEF JobsInv
<1>2. JobOK(Thrown(c)) /\ Plain(Thrown(c))
  BY <1>1, ThrownJob
<1>3. Become(c, Thrown(c), {}) /\ UNCHANGED <<prompts, lastId, bundle, files>>
  BY DEF Throw, Aside, Outside
<1>4. QED
  BY <1>2, <1>3, QuietStep

-----------------------------------------------------------------------------
(* Rows that come and go, and what changes in a row *)

LEMMA RowFields ==
  ASSUME NEW row \in Rows
  PROVE  /\ row.slug \in Slugs /\ row.title \in Titles /\ row.labels \subseteq Labels
         /\ row.trashed \in Nat /\ row.versions \in Seq(Versions)
BY DEF Rows

LEMMA Relabelled ==
  ASSUME NEW row \in Rows, NEW labels \in SUBSET Labels,
         NEW new, new = [row EXCEPT !.labels = labels]
  PROVE  new \in Rows /\ new.slug = row.slug /\ new.versions = row.versions
BY DEF Rows

LEMMA Retitled ==
  ASSUME NEW row \in Rows, NEW title \in Titles,
         NEW new, new = [row EXCEPT !.title = title]
  PROVE  new \in Rows /\ new.slug = row.slug /\ new.versions = row.versions
BY DEF Rows

LEMMA Moved ==
  ASSUME NEW row \in Rows, NEW trashed \in Nat,
         NEW new, new = [row EXCEPT !.trashed = trashed]
  PROVE  new \in Rows /\ new.slug = row.slug /\ new.versions = row.versions
BY DEF Rows

LEMMA Revised ==
  ASSUME NEW row \in Rows, NEW versions \in Seq(Versions),
         NEW new, new = [row EXCEPT !.versions = versions]
  PROVE  new \in Rows /\ new.slug = row.slug /\ new.versions = versions
BY DEF Rows

LEMMA EmptyIsSequence == ASSUME NEW S PROVE <<>> \in Seq(S)
OBVIOUS

LEMMA OneVersion ==
  ASSUME NEW v \in Versions
  PROVE  <<v>> \in Seq(Versions) /\ <<v>> # <<>>
OBVIOUS

LEMMA OneMore ==
  ASSUME NEW versions \in Seq(Versions), NEW v \in Versions
  PROVE  Append(versions, v) \in Seq(Versions) /\ Append(versions, v) # <<>>
BY AppendProperties

LEMMA ItemFields ==
  ASSUME NEW item \in Items
  PROVE  /\ item.slug \in Slugs /\ item.title \in Titles /\ item.labels \in SUBSET Labels
         /\ item.semver \in Nat /\ item.body \in Bodies /\ item.format \in Formats
         /\ Version(item) \in Versions
BY DEF Items, Version, Versions

LEMMA HeadIsItem ==
  ASSUME NEW c, JobOK(job[c]), job[c].items # <<>>
  PROVE  Item(c) \in Items
BY HeadTailProperties DEF JobOK, ItemsOK, Item

LEMMA RowAdded ==
  ASSUME RowsOK, NEW row \in Rows, row.versions # <<>>, IdsOf(row.slug) = {},
         prompts' = With(prompts, lastId + 1, row), lastId' = lastId + 1
  PROVE  RowsMove({row.slug})
<1>1. lastId \in Nat /\ lastId + 1 \notin DOMAIN prompts
  BY DEF RowsOK
<1>2. /\ DOMAIN prompts' = DOMAIN prompts \cup {lastId + 1}
      /\ \A id \in DOMAIN prompts : prompts'[id] = prompts[id]
      /\ prompts'[lastId + 1] = row
  BY <1>1 DEF With
<1>3. \A id \in DOMAIN prompts : prompts[id].slug # row.slug
  BY DEF IdsOf
<1>4. DOMAIN prompts' \subseteq 1..lastId'
  BY <1>1, <1>2 DEF RowsOK
<1>5. RowsOK'
  <2>1. lastId' \in Nat
    BY <1>1
  <2>2. \A id \in DOMAIN prompts' : prompts'[id] \in Rows /\ prompts'[id].versions # <<>>
    BY <1>2 DEF RowsOK
  <2>3. \A i, k \in DOMAIN prompts' : prompts'[i].slug = prompts'[k].slug => i = k
    BY <1>2, <1>3 DEF RowsOK
  <2>4. QED
    BY <1>4, <2>1, <2>2, <2>3 DEF RowsOK
<1>6. \A id \in DOMAIN prompts' : id <= lastId => id \in DOMAIN prompts
  BY <1>1, <1>2
<1>7. QED
  BY <1>1, <1>2, <1>5, <1>6 DEF RowsMove

LEMMA RowsRemoved ==
  ASSUME RowsOK, NEW ids \in SUBSET DOMAIN prompts, NEW touched,
         \A id \in DOMAIN prompts \ ids : prompts[id].slug \in touched,
         UNCHANGED lastId, prompts' = [id \in ids |-> prompts[id]]
  PROVE  RowsMove(touched)
<1>1. RowsOK'
  BY DEF RowsOK
<1>2. lastId <= lastId'
  BY DEF RowsOK
<1>3. QED
  BY <1>1, <1>2 DEF RowsMove

-----------------------------------------------------------------------------
(* The steps of an import *)

LEMMA StateOfJob ==
  ASSUME JobsInv, NEW c \in Clients
  PROVE  /\ RowsOK /\ BundleOK /\ JobOK(job[c]) /\ UpkeepOK(c)
         /\ job[c].phase \in Handling => job[c].items # <<>>
BY DEF JobsInv, JobOK, ItemsOK

LEMMA ResolveKeeps ==
  ASSUME JobsInv, NEW c \in Clients, Resolve(c)
  PROVE  Kept({c})
<1>1. JobOK(job[c]) /\ job[c].items # <<>> /\ Plain(job[c])
  BY StateOfJob, OwnPhase DEF Resolve, In, Handling, OwnPhases
<1>2. UNCHANGED <<prompts, lastId, bundle, files>>
  BY DEF Resolve, Aside, Outside
<1>3. "create" \in Onward /\ "update" \in Onward
  BY DEF Onward, OwnPhases
<1>4. CASE Become(c, [job[c] EXCEPT !.phase = "create"], {})
  <2>1. PICK n : n = [job[c] EXCEPT !.phase = "create"]
    OBVIOUS
  <2>2. JobOK(n) /\ Plain(n)
    BY <1>1, <1>3, <2>1, PhaseNext
  <2>3. QED
    BY <1>2, <1>4, <2>1, <2>2, QuietStep
<1>5. CASE Become(c, Stored(c), {})
  BY <1>1, <1>2, <1>5, StoredJob, QuietStep
<1>6. ASSUME NEW id, Become(c, [job[c] EXCEPT !.phase = "update", !.id = id], {})
      PROVE  Kept({c})
  <2>1. PICK n : n = [job[c] EXCEPT !.phase = "update", !.id = id]
    OBVIOUS
  <2>2. JobOK(n) /\ Plain(n)
    BY <1>1, <1>3, <2>1, PhaseAndId
  <2>3. QED
    BY <1>2, <1>6, <2>1, <2>2, QuietStep
<1>7. job[c].policy \in Strategies
  BY <1>1 DEF JobOK, Plain, Upkeep
<1>8. QED
  BY <1>4, <1>5, <1>6, <1>7 DEF Resolve, Strategies

LEMMA CreateRowKeeps ==
  ASSUME JobsInv, NEW c \in Clients, CreateRow(c)
  PROVE  Kept({c})
<1>1. JobOK(job[c]) /\ job[c].items # <<>> /\ Plain(job[c]) /\ Item(c) \in Items /\ RowsOK
  BY StateOfJob, OwnPhase, HeadIsItem DEF CreateRow, In, Handling, OwnPhases
<1> DEFINE v == Version(Item(c))
           row == [slug |-> Item(c).slug, title |-> Item(c).title, labels |-> {},
                   trashed |-> 0, versions |-> <<v>>]
<1>2. v \in Versions /\ <<v>> \in Seq(Versions) /\ <<v>> # <<>>
  BY <1>1, ItemFields, OneVersion
<1>3. row \in Rows /\ row.versions # <<>> /\ row.slug = Item(c).slug
  <2>1. PICK vs : vs = <<v>>
    OBVIOUS
  <2>2. row = [slug |-> Item(c).slug, title |-> Item(c).title, labels |-> {},
               trashed |-> 0, versions |-> vs]
    BY <2>1
  <2> HIDE DEF row, v
  <2>3. QED
    BY <1>1, <1>2, <2>1, <2>2, ItemFields DEF Rows
<1>4. prompts' = With(prompts, lastId + 1, row) /\ lastId' = lastId + 1
  BY DEF CreateRow
<1>5. IdsOf(Item(c).slug) = {}
  BY DEF CreateRow, Creatable
<1> HIDE DEF row, v
<1>6. RowsMove({Item(c).slug})
  BY <1>1, <1>3, <1>4, <1>5, RowAdded
<1>7. PICK n : n = [job[c] EXCEPT !.phase = "tag", !.id = lastId + 1]
  OBVIOUS
<1>8. "tag" \in Onward
  BY DEF Onward, OwnPhases
<1>9. JobOK(n) /\ Plain(n)
  BY <1>1, <1>7, <1>8, PhaseAndId
<1>10. Become(c, n, {Item(c).slug}) /\ UNCHANGED <<bundle, files>>
  BY <1>7 DEF CreateRow, Aside, Outside
<1>11. QED
  BY <1>6, <1>9, <1>10, PlainStep

LEMMA LabelsEdited ==
  ASSUME JobsInv, NEW id, NEW labels \in SUBSET Labels, UNCHANGED lastId,
         \/ id \in DOMAIN prompts /\ prompts' = [prompts EXCEPT ![id].labels = labels]
         \/ id \notin DOMAIN prompts /\ UNCHANGED prompts
  PROVE  RowsMove(Slug(id))
<1>1. RowsOK
  BY DEF JobsInv
<1>2. CASE id \in DOMAIN prompts /\ prompts' = [prompts EXCEPT ![id].labels = labels]
  <2>1. PICK new : new = [prompts[id] EXCEPT !.labels = labels]
    OBVIOUS
  <2>2. prompts[id] \in Rows /\ prompts[id].versions # <<>>
    BY <1>1, <1>2 DEF RowsOK
  <2>3. new \in Rows /\ new.slug = prompts[id].slug /\ new.versions # <<>>
    BY ZenonT(60), <2>1, <2>2, Relabelled
  <2>4. prompts' = [prompts EXCEPT ![id] = new]
    BY <1>2, <2>1
  <2>5. prompts[id].slug \in Slug(id)
    BY <1>2 DEF Slug
  <2>6. QED
    BY <1>1, <1>2, <2>3, <2>4, <2>5, RowEdited
<1>3. CASE id \notin DOMAIN prompts /\ UNCHANGED prompts
  BY <1>1, <1>3, RowsStay
<1>4. QED
  BY <1>2, <1>3

LEMMA TagRowKeeps ==
  ASSUME JobsInv, NEW c \in Clients, TagRow(c)
  PROVE  Kept({c})
<1>1. JobOK(job[c]) /\ job[c].items # <<>> /\ Plain(job[c]) /\ Item(c) \in Items /\ RowsOK
  BY StateOfJob, OwnPhase, HeadIsItem DEF TagRow, In, Handling, OwnPhases
<1>2. RowsMove(Slug(job[c].id))
  <2>1. CASE job[c].id \in DOMAIN prompts
    <3>1. PICK labels : labels = prompts[job[c].id].labels \cup Item(c).labels
      OBVIOUS
    <3>2. labels \in SUBSET Labels
      BY <1>1, <2>1, <3>1, ItemFields, RowFields DEF RowsOK
    <3>3. prompts' = [prompts EXCEPT ![job[c].id].labels = labels] /\ UNCHANGED lastId
      BY <2>1, <3>1 DEF TagRow
    <3>4. QED
      BY <2>1, <3>2, <3>3, LabelsEdited
  <2>2. CASE job[c].id \notin DOMAIN prompts
    <3>1. UNCHANGED <<prompts, lastId>>
      BY <2>2 DEF TagRow
    <3>2. QED
      BY <1>1, <3>1, RowsStay
  <2>3. QED
    BY <2>1, <2>2
<1>3. UNCHANGED <<bundle, files>>
  BY DEF TagRow, Aside, Outside
<1>4. CASE Become(c, Stored(c), Slug(job[c].id))
  BY <1>1, <1>2, <1>3, <1>4, StoredJob, PlainStep
<1>5. CASE Become(c, Thrown(c), Slug(job[c].id))
  BY <1>1, <1>2, <1>3, <1>5, ThrownJob, PlainStep
<1>6. QED
  BY <1>4, <1>5 DEF TagRow

LEMMA UpdateRowKeeps ==
  ASSUME JobsInv, NEW c \in Clients, UpdateRow(c)
  PROVE  Kept({c})
<1>1. JobOK(job[c]) /\ job[c].items # <<>> /\ Plain(job[c]) /\ Item(c) \in Items /\ RowsOK
  BY StateOfJob, OwnPhase, HeadIsItem DEF UpdateRow, In, Handling, OwnPhases
<1> DEFINE id == job[c].id
<1>2. id \in DOMAIN prompts /\ prompts[id].slug \in Slug(id)
  BY DEF UpdateRow, Active, Slug
<1>3. RowsMove(Slug(id))
  <2>1. PICK new : new = [prompts[id] EXCEPT !.title = Item(c).title]
    OBVIOUS
  <2>2. new \in Rows /\ new.slug = prompts[id].slug /\ new.versions # <<>>
    BY <1>1, <1>2, <2>1, ItemFields, Retitled DEF RowsOK
  <2>3. prompts' = [prompts EXCEPT ![id] = new] /\ UNCHANGED lastId
    BY <1>2, <2>1 DEF UpdateRow
  <2>4. QED
    BY <1>1, <1>2, <2>2, <2>3, RowEdited
<1>4. PICK n : n = [job[c] EXCEPT !.phase = "relabel"]
  OBVIOUS
<1>5. "relabel" \in Onward
  BY DEF Onward, OwnPhases
<1>6. JobOK(n) /\ Plain(n)
  BY <1>1, <1>4, <1>5, PhaseNext
<1>7. Become(c, n, Slug(id)) /\ UNCHANGED <<bundle, files>>
  BY <1>4 DEF UpdateRow, Aside, Outside
<1>8. QED
  BY <1>3, <1>6, <1>7, PlainStep

LEMMA RelabelKeeps ==
  ASSUME JobsInv, NEW c \in Clients, Relabel(c)
  PROVE  Kept({c})
<1>1. JobOK(job[c]) /\ job[c].items # <<>> /\ Plain(job[c]) /\ Item(c) \in Items /\ RowsOK
  BY StateOfJob, OwnPhase, HeadIsItem DEF Relabel, In, Handling, OwnPhases
<1>2. RowsMove(Slug(job[c].id))
  <2>1. CASE job[c].id \in DOMAIN prompts
    <3>1. PICK labels : labels = Item(c).labels
      OBVIOUS
    <3>2. labels \in SUBSET Labels
      BY <1>1, <3>1, ItemFields
    <3>3. prompts' = [prompts EXCEPT ![job[c].id].labels = labels] /\ UNCHANGED lastId
      BY <2>1, <3>1 DEF Relabel
    <3>4. QED
      BY <2>1, <3>2, <3>3, LabelsEdited
  <2>2. CASE job[c].id \notin DOMAIN prompts
    <3>1. UNCHANGED <<prompts, lastId>>
      BY <2>2 DEF Relabel
    <3>2. QED
      BY <1>1, <3>1, RowsStay
  <2>3. QED
    BY <2>1, <2>2
<1>3. UNCHANGED <<bundle, files>>
  BY DEF Relabel, Aside, Outside
<1>4. CASE Active(job[c].id)
  <2>1. PICK p : p = AfterLabels(c)
    OBVIOUS
  <2>2. p \in {"number", "version"}
    BY <2>1 DEF AfterLabels
  <2>3. p \in Onward
    BY <2>2 DEF Onward, OwnPhases
  <2>4. PICK n : n = [job[c] EXCEPT !.phase = p]
    OBVIOUS
  <2>5. JobOK(n) /\ Plain(n)
    BY <1>1, <2>3, <2>4, PhaseNext
  <2>6. Become(c, n, Slug(job[c].id))
    BY <1>4, <2>1, <2>4 DEF Relabel
  <2>7. QED
    BY <1>2, <1>3, <2>5, <2>6, PlainStep
<1>5. CASE ~Active(job[c].id)
  <2>1. Become(c, Thrown(c), Slug(job[c].id))
    BY <1>5 DEF Relabel
  <2>2. QED
    BY <1>1, <1>2, <1>3, <2>1, ThrownJob, PlainStep
<1>6. QED
  BY <1>4, <1>5

LEMMA VersionAdded ==
  ASSUME RowsOK, NEW id \in DOMAIN prompts, NEW v \in Versions, UNCHANGED lastId,
         prompts' = [prompts EXCEPT ![id].versions = Append(prompts[id].versions, v)]
  PROVE  RowsMove({prompts[id].slug})
<1>1. prompts[id] \in Rows
  BY DEF RowsOK
<1>2. PICK vs : vs = Append(prompts[id].versions, v)
  OBVIOUS
<1>3. vs \in Seq(Versions) /\ vs # <<>>
  BY <1>1, <1>2, OneMore, RowFields
<1>4. PICK new : new = [prompts[id] EXCEPT !.versions = vs]
  OBVIOUS
<1>5. new \in Rows /\ new.slug = prompts[id].slug /\ new.versions # <<>>
  BY <1>1, <1>3, <1>4, Revised
<1>6. prompts' = [prompts EXCEPT ![id] = new]
  BY <1>2, <1>4
<1>7. QED
  BY <1>5, <1>6, RowEdited

LEMMA AddVersionKeeps ==
  ASSUME JobsInv, NEW c \in Clients, AddVersion(c)
  PROVE  Kept({c})
<1>1. JobOK(job[c]) /\ job[c].items # <<>> /\ Plain(job[c]) /\ Item(c) \in Items /\ RowsOK
  BY StateOfJob, OwnPhase, HeadIsItem DEF AddVersion, In, Handling, OwnPhases
<1>2. PICK id : id = job[c].id
  OBVIOUS
<1>3. PICK v : v = Version(Item(c))
  OBVIOUS
<1>4. v \in Versions /\ id \in DOMAIN prompts
  BY <1>1, <1>2, <1>3, ItemFields DEF AddVersion, Active
<1>5. /\ prompts' = [prompts EXCEPT ![id].versions = Append(prompts[id].versions, v)]
      /\ UNCHANGED lastId
  BY <1>2, <1>3, <1>4 DEF AddVersion
<1>6. RowsMove({prompts[id].slug})
  BY <1>1, <1>4, <1>5, VersionAdded
<1>7. Become(c, Stored(c), {prompts[id].slug}) /\ UNCHANGED <<bundle, files>>
  BY <1>2 DEF AddVersion, Aside, Outside
<1>8. QED
  BY <1>1, <1>6, <1>7, StoredJob, PlainStep

LEMMA ImportKeeps ==
  ASSUME JobsInv, NEW c \in Clients, ImportStep(c)
  PROVE  Kept({c})
<1>1. ASSUME job[c].phase \in OwnPhases, Throw(c)
      PROVE  Kept({c})
  BY <1>1, StateOfJob, OwnPhase, ThrowKeeps
<1>2. ASSUME Refuse(c) \/ Gone(c) \/ SidecarFails(c)
      PROVE  job[c].phase \in OwnPhases /\ Throw(c)
  BY <1>2 DEF Refuse, Gone, SidecarFails, In, OwnPhases
<1>3. QED
  BY <1>1, <1>2, ResolveKeeps, CreateRowKeeps, TagRowKeeps, UpdateRowKeeps, RelabelKeeps,
     AddVersionKeeps DEF ImportStep

-----------------------------------------------------------------------------
(* The steps of tool calls and of `edit' *)

LEMMA LatestIsVersion ==
  ASSUME RowsOK, NEW id \in DOMAIN prompts
  PROVE  /\ Latest(id) \in Versions /\ Latest(id).semver \in Nat
         /\ Latest(id).body \in Bodies /\ Latest(id).format \in Formats
<1>1. prompts[id].versions \in Seq(Versions) /\ prompts[id].versions # <<>>
  BY RowFields DEF RowsOK
<1>2. PICK vs \in Seq(Versions) : vs = prompts[id].versions
  BY <1>1
<1>3. Len(vs) \in 1..Len(vs)
  BY <1>1, <1>2, EmptySeq, LenProperties
<1>4. vs[Len(vs)] \in Versions
  BY <1>3, ElementOfSeq
<1>5. Latest(id) \in Versions
  BY <1>2, <1>4 DEF Latest, Last
<1>6. QED
  BY <1>5 DEF Versions

LEMMA ItemNumbered ==
  ASSUME NEW item \in Items, NEW n \in Nat, NEW format \in Formats,
         NEW new, new = [item EXCEPT !.semver = n, !.format = format]
  PROVE  new \in Items
BY DEF Items

LEMMA ItemAlike ==
  ASSUME NEW item \in Items, NEW n \in Nat, NEW labels \in SUBSET Labels,
         NEW new, new = [item EXCEPT !.semver = n, !.labels = labels]
  PROVE  new \in Items /\ new.format = item.format
BY DEF Items

LEMMA ItemCopied ==
  ASSUME NEW item \in Items, NEW body \in Bodies, NEW format \in Formats,
         NEW new, new = [item EXCEPT !.body = body, !.format = format]
  PROVE  new \in Items
BY DEF Items

LEMMA ItemRewritten ==
  ASSUME NEW item \in Items, NEW body \in Bodies,
         NEW new, new = [item EXCEPT !.body = body]
  PROVE  new \in Items
BY DEF Items

LEMMA Likely ==
  ASSUME RowsOK, NEW c, job[c].id \in DOMAIN prompts, NEW item \in Items
  PROVE  Likeness(c, item) \in Items
<1>1. Latest(job[c].id).semver \in Nat
  BY LatestIsVersion
<1>2. prompts[job[c].id].labels \in SUBSET Labels
  BY RowFields DEF RowsOK
<1>3. QED
  BY <1>1, <1>2, ItemAlike DEF Likeness

LEMMA ConvertedBody ==
  ASSUME NEW body \in Bodies, NEW from \in Formats, NEW to \in Formats
  PROVE  Converted(body, from, to) \in Bodies
BY DEF Converted, Bodies, OnceTrimmed, Formats

LEMMA WritesKeeps ==
  ASSUME JobsInv, NEW c \in Clients, Plain(job[c]), NEW p \in {"create", "version"},
         NEW item \in Items, Writes(c, p, item), UNCHANGED <<prompts, lastId, Aside>>
  PROVE  Kept({c})
<1>1. JobOK(job[c])
  BY StateOfJob
<1>2. PICK n : n = [job[c] EXCEPT !.phase = p, !.items = <<item>>]
  OBVIOUS
<1>3. p \in Onward
  BY DEF Onward, OwnPhases
<1>4. JobOK(n) /\ Plain(n)
  BY <1>1, <1>2, <1>3, PhaseAndItem
<1>5. Become(c, n, {}) /\ UNCHANGED <<prompts, lastId, bundle, files>>
  BY <1>2 DEF Writes, Aside, Outside
<1>6. QED
  BY <1>4, <1>5, QuietStep

LEMMA BegunHasItem ==
  ASSUME JobsInv, NEW c \in Clients, job[c].op \in {"write", "duplicate", "convert", "edit"},
         job[c].phase = "begun"
  PROVE  Plain(job[c]) /\ Item(c) \in Items
<1>1. JobOK(job[c])
  BY StateOfJob
<1>2. job[c].items # <<>>
  BY <1>1 DEF JobOK, ItemsOK
<1>3. QED
  BY <1>1, <1>2, HeadIsItem DEF Plain, Upkeep

LEMMA ReadForWriteKeeps ==
  ASSUME JobsInv, NEW c \in Clients, ReadForWrite(c)
  PROVE  Kept({c})
<1>1. Plain(job[c]) /\ Item(c) \in Items /\ RowsOK
  BY BegunHasItem, StateOfJob DEF ReadForWrite, In
<1>2. Latest(job[c].id).semver \in Nat
  BY <1>1, LatestIsVersion DEF ReadForWrite, Active
<1>3. PICK item : item = [Item(c) EXCEPT !.semver = Latest(job[c].id).semver]
  OBVIOUS
<1>4. item \in Items
  BY <1>1, <1>2, <1>3 DEF Items
<1>5. Writes(c, "version", item) /\ UNCHANGED <<prompts, lastId, Aside>>
  BY <1>3 DEF ReadForWrite
<1>6. QED
  BY <1>1, <1>4, <1>5, WritesKeeps

LEMMA ReadForCopyKeeps ==
  ASSUME JobsInv, NEW c \in Clients, ReadForCopy(c)
  PROVE  Kept({c})
<1>1. Plain(job[c]) /\ Item(c) \in Items /\ RowsOK
  BY BegunHasItem, StateOfJob DEF ReadForCopy, In
<1>2. job[c].id \in DOMAIN prompts
  BY DEF ReadForCopy, Active
<1>3. PICK last : last = Latest(job[c].id)
  OBVIOUS
<1>4. last.body \in Bodies /\ last.format \in Formats /\ Likeness(c, Item(c)) \in Items
  BY <1>1, <1>2, <1>3, LatestIsVersion, Likely
<1>5. PICK item : item = [Likeness(c, Item(c)) EXCEPT !.body = last.body, !.format = last.format]
  OBVIOUS
<1>6. item \in Items
  BY <1>4, <1>5, ItemCopied
<1>7. Writes(c, "create", item) /\ UNCHANGED <<prompts, lastId, Aside>>
  BY <1>3, <1>5 DEF ReadForCopy
<1>8. QED
  BY <1>1, <1>6, <1>7, WritesKeeps

LEMMA ReadForConversionKeeps ==
  ASSUME JobsInv, NEW c \in Clients, ReadForConversion(c)
  PROVE  Kept({c})
<1>1. Plain(job[c]) /\ Item(c) \in Items /\ RowsOK
  BY BegunHasItem, StateOfJob DEF ReadForConversion, In
<1>2. job[c].id \in DOMAIN prompts /\ UNCHANGED <<prompts, lastId, Aside>>
  BY DEF ReadForConversion, Active
<1>3. PICK last : last = Latest(job[c].id)
  OBVIOUS
<1>4. PICK body : body = Converted(last.body, last.format, Item(c).format)
  OBVIOUS
<1>5. body \in Bodies /\ Likeness(c, Item(c)) \in Items
  BY <1>1, <1>2, <1>3, <1>4, LatestIsVersion, Likely, ItemFields, ConvertedBody
<1>6. PICK item : item = [Likeness(c, Item(c)) EXCEPT !.body = body]
  OBVIOUS
<1>7. item \in Items
  BY <1>5, <1>6, ItemRewritten
<1>8. CASE Writes(c, "create", item)
  BY <1>1, <1>2, <1>7, <1>8, WritesKeeps
<1>9. CASE Writes(c, "version", item)
  BY <1>1, <1>2, <1>7, <1>9, WritesKeeps
<1>10. CASE Become(c, Thrown(c), {})
  BY <1>1, <1>2, <1>10, StateOfJob, ThrownJob, QuietStep DEF Aside, Outside
<1>11. QED
  BY <1>3, <1>4, <1>6, <1>8, <1>9, <1>10 DEF ReadForConversion

LEMMA ReadForUpdateKeeps ==
  ASSUME JobsInv, NEW c \in Clients, ReadForUpdate(c)
  PROVE  Kept({c})
<1>1. Plain(job[c]) /\ Item(c) \in Items /\ RowsOK
  BY StateOfJob, OwnPhase, HeadIsItem DEF ReadForUpdate, In, Handling, OwnPhases
<1>2. Latest(job[c].id).semver \in Nat
  BY <1>1, LatestIsVersion DEF ReadForUpdate, Active
<1>3. PICK n \in Nat : n = Latest(job[c].id).semver + 1
  BY <1>2
<1>4. PICK format \in Formats : format = "markdown"
  BY DEF Formats
<1>5. PICK item : item = [Item(c) EXCEPT !.semver = n, !.format = format]
  OBVIOUS
<1>6. item \in Items
  BY <1>1, <1>5, ItemNumbered
<1>7. Writes(c, "version", item) /\ UNCHANGED <<prompts, lastId, Aside>>
  BY <1>3, <1>4, <1>5 DEF ReadForUpdate
<1>8. QED
  BY <1>1, <1>6, <1>7, WritesKeeps

LEMMA ReadForEditKeeps ==
  ASSUME JobsInv, NEW c \in Clients, ReadForEdit(c)
  PROVE  Kept({c})
<1>1. Plain(job[c]) /\ Item(c) \in Items /\ RowsOK /\ JobOK(job[c])
  BY BegunHasItem, StateOfJob DEF ReadForEdit, In
<1>2. job[c].id \in DOMAIN prompts /\ UNCHANGED <<prompts, lastId, Aside>>
  BY DEF ReadForEdit, Active
<1>3. PICK last : last = Latest(job[c].id)
  OBVIOUS
<1>4. last.semver \in Nat /\ last.format \in Formats
  BY <1>1, <1>2, <1>3, LatestIsVersion
<1>5. PICK n \in Nat : n = last.semver + 1
  BY <1>4
<1>6. PICK item : item = [Item(c) EXCEPT !.semver = n, !.format = last.format]
  OBVIOUS
<1>7. item \in Items
  BY <1>1, <1>4, <1>6, ItemNumbered
<1>8. CASE Writes(c, "version", item)
  BY <1>1, <1>2, <1>7, <1>8, WritesKeeps
<1>9. CASE Become(c, [job[c] EXCEPT !.phase = "done"], {})
  <2>1. PICK k : k = [job[c] EXCEPT !.phase = "done"]
    OBVIOUS
  <2>2. "done" \in Onward /\ "done" \notin Handling
    BY DEF Onward, Handling
  <2>3. JobOK(k) /\ Plain(k)
    BY <1>1, <2>1, <2>2, PhaseNext
  <2>4. QED
    BY <1>2, <1>9, <2>1, <2>3, QuietStep DEF Aside, Outside
<1>10. QED
  BY <1>3, <1>5, <1>6, <1>8, <1>9 DEF ReadForEdit

-----------------------------------------------------------------------------
(* The trash.  A finite set of numbers has a largest one: the one with the *)
(* fewest above it.                                                        *)

LEMMA LargestOf ==
  ASSUME NEW S \in SUBSET Nat, S # {}, IsFiniteSet(S)
  PROVE  Max(S) \in S
<1> DEFINE Above(x) == {y \in S : y > x}
           T == {Cardinality(Above(x)) : x \in S}
           R == OpToRel(<, Nat)
<1>1. \A x \in S : IsFiniteSet(Above(x)) /\ Cardinality(Above(x)) \in Nat
  BY FS_Subset, FS_CardinalityType
<1>2. T \subseteq Nat /\ T # {}
  BY <1>1
<1>3. \A x, y \in Nat : <<x, y>> \in R <=> x < y
  BY DEF OpToRel
<1>4. IsWellFoundedOn(R, Nat)
  BY NatLessThanWellFounded
<1> HIDE DEF R
<1>5. PICK n \in T : \A k \in T : ~ (<<k, n>> \in R)
  BY <1>2, <1>4, WFMin
<1>6. PICK x \in S : n = Cardinality(Above(x))
  BY <1>5
<1>7. ASSUME NEW y \in S, y > x
      PROVE  FALSE
  <2>1. Above(y) \subseteq Above(x) /\ Above(y) # Above(x)
    <3>1. x \in Nat /\ y \in Nat
      OBVIOUS
    <3>2. y \in Above(x) /\ y \notin Above(y)
      BY <1>7, <3>1
    <3>3. ASSUME NEW z \in Above(y)
          PROVE  z \in Above(x)
      <4>1. z \in Nat /\ z \in S /\ z > y
        OBVIOUS
      <4>2. z > x
        BY <1>7, <3>1, <4>1
      <4>3. QED
        BY <4>1, <4>2
    <3>4. QED
      BY <3>2, <3>3
  <2>2. Cardinality(Above(y)) < Cardinality(Above(x))
    BY <1>1, <2>1, FS_Subset
  <2>3. QED
    BY <1>1, <1>3, <1>5, <1>6, <2>2
<1>8. \A y \in S : x >= y
  BY <1>7
<1>9. QED
  BY <1>8 DEF Max

LEMMA SlugHeld ==
  ASSUME NEW id \in DOMAIN prompts
  PROVE  prompts[id].slug \in {prompts[id].slug}
OBVIOUS

LEMMA TrashedKeeps ==
  ASSUME RowsOK, NEW id \in DOMAIN prompts, NEW n \in Nat, UNCHANGED lastId,
         prompts' = [prompts EXCEPT ![id].trashed = n]
  PROVE  RowsMove({prompts[id].slug})
<1>1. prompts[id] \in Rows /\ prompts[id].versions # <<>>
  BY DEF RowsOK
<1>2. PICK new : new = [prompts[id] EXCEPT !.trashed = n]
  OBVIOUS
<1>3. new \in Rows /\ new.slug = prompts[id].slug /\ new.versions # <<>>
  BY <1>1, <1>2, Moved
<1>4. prompts' = [prompts EXCEPT ![id] = new]
  BY <1>2
<1>5. QED
  BY <1>3, <1>4, RowEdited

LEMMA FinishKeeps ==
  ASSUME JobsInv, NEW c \in Clients, NEW touched, Finish(c, touched), Plain(job[c]),
         RowsMove(touched), UNCHANGED <<bundle, files>>
  PROVE  Kept({c})
<1>1. JobOK(job[c])
  BY StateOfJob
<1>2. PICK n : n = [job[c] EXCEPT !.phase = "done"]
  OBVIOUS
<1>3. "done" \in Onward /\ "done" \notin Handling
  BY DEF Onward, Handling
<1>4. JobOK(n) /\ Plain(n)
  BY <1>1, <1>2, <1>3, PhaseNext
<1>5. Become(c, n, touched)
  BY <1>2 DEF Finish
<1>6. QED
  BY <1>4, <1>5, PlainStep

LEMMA SoftDeleteKeeps ==
  ASSUME JobsInv, NEW c \in Clients, SoftDelete(c)
  PROVE  Kept({c})
<1>1. RowsOK /\ Plain(job[c])
  BY StateOfJob DEF SoftDelete, Plain, Upkeep
<1>2. PICK id \in DOMAIN prompts : id = job[c].id
  BY DEF SoftDelete, Active
<1> DEFINE S == {prompts[i].trashed : i \in DOMAIN prompts}
<1>3. IsFiniteSet(DOMAIN prompts)
  <2>1. IsFiniteSet(1..lastId)
    BY <1>1, FS_Interval DEF RowsOK
  <2>2. QED
    BY <1>1, <2>1, FS_Subset DEF RowsOK
<1>4. IsFiniteSet(S) /\ S # {}
  <2>1. IsFiniteSet({prompts[i].trashed : i \in DOMAIN prompts})
    <3> DEFINE f == [i \in DOMAIN prompts |-> prompts[i].trashed]
    <3>1. f \in Surjection(DOMAIN prompts, S)
      BY DEF Surjection
    <3>2. QED
      BY <1>3, <3>1, FS_Surjection
  <2>2. prompts[id].trashed \in S
    OBVIOUS
  <2>3. QED
    BY <2>1, <2>2
<1>5. S \in SUBSET Nat
  BY <1>1, RowFields DEF RowsOK
<1>6. Max(S) \in Nat
  BY <1>4, <1>5, LargestOf
<1>7. PICK n \in Nat : n = 1 + Max(S)
  <2>1. PICK m \in Nat : m = Max(S)
    BY <1>6
  <2>2. 1 + m \in Nat
    OBVIOUS
  <2>3. QED
    BY <2>1, <2>2
<1>8. prompts' = [prompts EXCEPT ![id].trashed = n] /\ UNCHANGED lastId
  BY <1>2, <1>7 DEF SoftDelete
<1>9. RowsMove({prompts[id].slug})
  BY <1>1, <1>8, TrashedKeeps
<1>10. Finish(c, {prompts[id].slug}) /\ UNCHANGED <<bundle, files>>
  BY <1>2 DEF SoftDelete, Aside, Outside
<1>11. QED
  BY <1>1, <1>9, <1>10, FinishKeeps

LEMMA PermanentlyDeleteKeeps ==
  ASSUME JobsInv, NEW c \in Clients, PermanentlyDelete(c)
  PROVE  Kept({c})
<1>1. RowsOK /\ Plain(job[c])
  BY StateOfJob, OwnPhase DEF PermanentlyDelete, In, OwnPhases, Plain, Upkeep
<1>2. PICK id \in DOMAIN prompts : id = job[c].id
  BY DEF PermanentlyDelete
<1>3. PICK ids : ids = DOMAIN prompts \ {id}
  OBVIOUS
<1>4. prompts' = [i \in ids |-> prompts[i]] /\ UNCHANGED lastId
  BY <1>2, <1>3 DEF PermanentlyDelete, Restrict
<1>5. RowsMove({prompts[id].slug})
  <2>1. PICK touched : touched = {prompts[id].slug}
    OBVIOUS
  <2>2. ids \in SUBSET DOMAIN prompts
    BY <1>3
  <2>3. \A i \in DOMAIN prompts \ ids : prompts[i].slug \in touched
    BY <1>3, <2>1
  <2>4. RowsMove(touched)
    BY <1>1, <1>4, <2>2, <2>3, RowsRemoved
  <2>5. QED
    BY <2>1, <2>4
<1>6. Finish(c, {prompts[id].slug}) /\ UNCHANGED <<bundle, files>>
  BY <1>2 DEF PermanentlyDelete, Aside, Outside
<1>7. QED
  BY <1>1, <1>5, <1>6, FinishKeeps

LEMMA GoneAlreadyKeeps ==
  ASSUME JobsInv, NEW c \in Clients, GoneAlready(c)
  PROVE  Kept({c})
<1>1. RowsOK /\ Plain(job[c])
  BY StateOfJob, OwnPhase DEF GoneAlready, In, OwnPhases
<1>2. RowsMove({})
  BY <1>1, RowsStay DEF GoneAlready
<1>3. Finish(c, {}) /\ UNCHANGED <<bundle, files>>
  BY DEF GoneAlready, Aside, Outside
<1>4. QED
  BY <1>1, <1>2, <1>3, FinishKeeps

LEMMA ListTrashKeeps ==
  ASSUME JobsInv, NEW c \in Clients, ListTrash(c)
  PROVE  Kept({c})
<1>1. JobOK(job[c]) /\ Plain(job[c])
  BY StateOfJob DEF ListTrash, Plain, Upkeep
<1>2. PICK id : id = Newest(Trash)
  OBVIOUS
<1>3. PICK n : n = [job[c] EXCEPT !.phase = "restore", !.id = id]
  OBVIOUS
<1>4. "restore" \in Onward /\ "restore" \notin Handling
  BY DEF Onward, OwnPhases, Handling
<1>5. JobOK(n) /\ Plain(n)
  BY <1>1, <1>3, <1>4, PhaseAndId
<1>6. Become(c, n, {}) /\ UNCHANGED <<prompts, lastId, bundle, files>>
  BY <1>2, <1>3 DEF ListTrash, Aside, Outside
<1>7. QED
  BY <1>5, <1>6, QuietStep

LEMMA RestoreTrashKeeps ==
  ASSUME JobsInv, NEW c \in Clients, RestoreTrash(c)
  PROVE  Kept({c})
<1>1. RowsOK /\ Plain(job[c])
  BY StateOfJob, OwnPhase DEF RestoreTrash, In, OwnPhases, Plain, Upkeep
<1>2. PICK id \in DOMAIN prompts : id = job[c].id
  BY DEF RestoreTrash, Trash
<1>3. PICK n \in Nat : n = 0
  OBVIOUS
<1>4. prompts' = [prompts EXCEPT ![id].trashed = n] /\ UNCHANGED lastId
  BY <1>2, <1>3 DEF RestoreTrash
<1>5. RowsMove({prompts[id].slug})
  BY <1>1, <1>4, TrashedKeeps
<1>6. Finish(c, {prompts[id].slug}) /\ UNCHANGED <<bundle, files>>
  BY <1>2 DEF RestoreTrash, Aside, Outside
<1>7. QED
  BY <1>1, <1>5, <1>6, FinishKeeps

LEMMA UnlabelKeeps ==
  ASSUME JobsInv, NEW c \in Clients, Unlabel(c)
  PROVE  Kept({c})
<1>1. RowsOK /\ JobOK(job[c]) /\ Plain(job[c])
  BY StateOfJob DEF Unlabel, Plain, Upkeep
<1>2. PICK id \in DOMAIN prompts : id = job[c].id
  BY DEF Unlabel, Active
<1>3. PICK kept \in SUBSET prompts[id].labels :
        prompts' = [prompts EXCEPT ![id].labels = kept] /\ UNCHANGED lastId
  BY <1>2 DEF Unlabel
<1>4. kept \in SUBSET Labels
  BY <1>1, RowFields DEF RowsOK
<1>5. RowsMove(Slug(id))
  BY <1>3, <1>4, LabelsEdited
<1>6. PICK n : n = [job[c] EXCEPT !.phase = "purge"]
  OBVIOUS
<1>7. "purge" \in Onward /\ "purge" \notin Handling
  BY DEF Onward, OwnPhases, Handling
<1>8. JobOK(n) /\ Plain(n)
  BY <1>1, <1>6, <1>7, PhaseNext
<1>9. Become(c, n, Slug(id)) /\ UNCHANGED <<bundle, files>>
  BY <1>2, <1>6 DEF Unlabel, Aside, Outside
<1>10. QED
  BY <1>5, <1>8, <1>9, PlainStep

LEMMA ToolKeeps ==
  ASSUME JobsInv, NEW c \in Clients, ToolStep(c)
  PROVE  Kept({c})
<1>1. CASE NotFound(c)
  <2>1. Plain(job[c]) /\ Throw(c)
    BY <1>1 DEF NotFound, Plain, Upkeep
  <2>2. QED
    BY <2>1, ThrowKeeps
<1>2. CASE NotInTrash(c)
  <2>1. Plain(job[c]) /\ Throw(c)
    BY <1>2, StateOfJob, OwnPhase DEF NotInTrash, In, OwnPhases, Plain, Upkeep
  <2>2. QED
    BY <2>1, ThrowKeeps
<1>3. QED
  BY <1>1, <1>2, ReadForWriteKeeps, ReadForCopyKeeps, ReadForConversionKeeps, ReadForUpdateKeeps,
     ReadForEditKeeps, UnlabelKeeps, GoneAlreadyKeeps, SoftDeleteKeeps, PermanentlyDeleteKeeps,
     ListTrashKeeps, RestoreTrashKeeps DEF ToolStep

-----------------------------------------------------------------------------
(* Diagnosis and repair *)

LEMMA UnchangedInvalid ==
  ASSUME UNCHANGED prompts
  PROVE  InvalidIds' = InvalidIds /\ \A id : RefusedAsDetected(id)' = RefusedAsDetected(id)
BY DEF InvalidIds, Latest, RefusedAsDetected

LEMMA UpkeepJob ==
  ASSUME NEW j, JobOK(j), j.op \in Upkeep, NEW n, DOMAIN n = Fields, n.op = j.op,
         n.policy = j.policy, n.items = j.items, PhaseOK(n)
  PROVE  JobOK(n)
<1>1. n.phase \notin Handling
  BY DEF PhaseOK, Upkeep, Handling
<1>2. ItemsOK(n)
  BY <1>1 DEF JobOK, ItemsOK, Upkeep
<1>3. QED
  BY <1>2 DEF JobOK

LEMMA RunDiagnosticsKeeps ==
  ASSUME JobsInv, NEW c \in Clients, RunDiagnostics(c)
  PROVE  Kept({c})
<1>1. RowsOK /\ BundleOK /\ JobOK(job[c]) /\ job[c].op = "repair"
  BY StateOfJob DEF RunDiagnostics
<1> DEFINE j == job[c]
<1>2. PICK p : p = IF InvalidIds = {} THEN "done" ELSE "repair"
  OBVIOUS
<1>3. PICK invalid, before : invalid = InvalidIds /\ before = prompts
  OBVIOUS
<1>4. PICK n : n = [j EXCEPT !.left = invalid, !.before = before, !.foreign = {}, !.phase = p]
  OBVIOUS
<1>5. DOMAIN j = Fields
  BY <1>1 DEF JobOK
<1>6. /\ DOMAIN n = Fields /\ n.op = "repair" /\ n.policy = j.policy /\ n.items = j.items
      /\ n.left = invalid /\ n.phase = p
  BY <1>1, <1>4, <1>5 DEF Fields, NoJob
<1>7. PhaseOK(n)
  BY <1>2, <1>3, <1>6 DEF PhaseOK
<1>8. JobOK(n)
  BY <1>1, <1>6, <1>7, UpkeepJob DEF Upkeep
<1>9. Become(c, n, {}) /\ UNCHANGED <<prompts, lastId, bundle, files>>
  BY <1>2, <1>3, <1>4 DEF RunDiagnostics, Aside, Outside
<1>10. job'[c] = n
  BY <1>9 DEF Become
<1>11. RepairOK(c)'
  BY <1>2, <1>3, <1>6, <1>9, <1>10, UnchangedInvalid DEF RepairOK
<1>12. UpkeepOK(c)'
  BY <1>6, <1>10, <1>11 DEF UpkeepOK, ExportOK, FilesOK
<1>13. RowsMove({}) /\ FilesMove /\ BundleOK'
  <2>1. RowsMove({})
    BY <1>1, <1>9, RowsStay
  <2>2. QED
    BY <1>1, <1>9, <2>1 DEF FilesMove, BundleOK
<1>14. QED
  BY <1>8, <1>9, <1>12, <1>13, StepKeeps

(* Detection gives a format its parser accepts, save for a text that no    *)
(* parser accepts before it is trimmed.                                    *)
LEMMA DetectedIsValid ==
  ASSUME NEW body \in Bodies
  PROVE  /\ Detected(body) \in Formats
         /\ body \notin OnceTrimmed => ValidContent(body, Detected(body))
BY DEF Bodies, OnceTrimmed, Formats, Detected, ValidContent

(* Only the format of the latest version is written. *)
LEMMA FormatWritten ==
  ASSUME RowsOK, NEW id \in DOMAIN prompts, UNCHANGED lastId,
         prompts' = [prompts EXCEPT ![id].versions[Len(prompts[id].versions)].format =
                       Detected(Latest(id).body)]
  PROVE  /\ RowsMove({prompts[id].slug})
         /\ id \in InvalidIds' => RefusedAsDetected(id)'
         /\ \A i \in InvalidIds' : i # id => i \in InvalidIds /\ prompts'[i] = prompts[i]
<1>1. prompts[id] \in Rows /\ prompts[id].versions # <<>>
  BY DEF RowsOK
<1>2. PICK vs \in Seq(Versions) : vs = prompts[id].versions
  BY <1>1, RowFields
<1>3. Len(vs) \in 1..Len(vs) /\ DOMAIN vs = 1..Len(vs)
  BY <1>1, <1>2, EmptySeq, LenProperties
<1>4. PICK k \in 1..Len(vs) : k = Len(vs)
  BY <1>3
<1>5. vs[k] \in Versions /\ Latest(id) = vs[k]
  BY <1>2, <1>4, ElementOfSeq DEF Latest, Last
<1>6. PICK f : f = Detected(Latest(id).body)
  OBVIOUS
<1>7. f \in Formats /\ (vs[k].body \notin OnceTrimmed => ValidContent(vs[k].body, f))
  BY <1>5, <1>6, DetectedIsValid DEF Versions
<1>8. PICK v : v = [vs[k] EXCEPT !.format = f]
  OBVIOUS
<1>9. v \in Versions /\ v.body = vs[k].body /\ v.format = f
  BY <1>5, <1>7, <1>8 DEF Versions
<1>10. PICK ws : ws = [vs EXCEPT ![k] = v]
  OBVIOUS
<1>11. ws \in Seq(Versions) /\ Len(ws) = Len(vs) /\ ws # <<>> /\ ws[k] = v
  <2>1. ws \in Seq(Versions) /\ Len(ws) = Len(vs) /\ ws[k] = v
    BY <1>3, <1>9, <1>10, ExceptSeq
  <2>2. QED
    BY <1>1, <1>2, <2>1, EmptySeq
<1>12. PICK new : new = [prompts[id] EXCEPT !.versions = ws]
  OBVIOUS
<1>13. new \in Rows /\ new.slug = prompts[id].slug /\ new.versions = ws
  BY <1>1, <1>11, <1>12, Revised
<1>14. prompts' = [prompts EXCEPT ![id] = new]
  BY <1>2, <1>4, <1>6, <1>8, <1>10, <1>12
<1>15. RowsMove({prompts[id].slug})
  BY <1>11, <1>13, <1>14, RowEdited
<1>16. prompts'[id] = new /\ \A i \in DOMAIN prompts \ {id} : prompts'[i] = prompts[i]
  BY <1>14
<1>17. Latest(id)' = v
  BY <1>4, <1>11, <1>13, <1>16 DEF Latest, Last
<1>18. id \in InvalidIds' => RefusedAsDetected(id)'
  <2>1. id \in InvalidIds' => ~ValidContent(v.body, v.format)
    BY <1>17 DEF InvalidIds
  <2>2. Detected(v.body) = v.format
    BY <1>5, <1>6, <1>9
  <2>3. QED
    BY <1>7, <1>9, <1>17, <2>1, <2>2 DEF RefusedAsDetected
<1>19. \A i \in InvalidIds' : i # id => i \in InvalidIds /\ prompts'[i] = prompts[i]
  BY <1>14, <1>16 DEF InvalidIds, Latest
<1>20. QED
  BY <1>15, <1>18, <1>19

LEMMA RepairKeeps ==
  ASSUME JobsInv, NEW c \in Clients, NEW id, Repair(c, id)
  PROVE  Kept({c})
<1>1. RowsOK /\ BundleOK /\ JobOK(job[c]) /\ RepairOK(c)
  BY StateOfJob DEF UpkeepOK
<1> DEFINE j == job[c]
<1>2. j.op = "repair" /\ j.phase = "repair" /\ DOMAIN j = Fields
  BY <1>1 DEF Repair, In, JobOK, PhaseOK
<1>3. PICK left : left = j.left \ {id}
  OBVIOUS
<1>4. PICK p : p = IF left = {} THEN "done" ELSE "repair"
  OBVIOUS
<1>5. PICK next : next = [j EXCEPT !.left = left, !.phase = p]
  OBVIOUS
<1>6. PICK failed : failed = [next EXCEPT !.failed = next.failed \cup {id}]
  OBVIOUS
<1>7. /\ DOMAIN next = Fields /\ next.op = "repair" /\ next.policy = j.policy /\ next.items = j.items
      /\ next.left = left /\ next.phase = p /\ next.foreign = j.foreign
  BY <1>2, <1>5 DEF Fields, NoJob
<1>8. /\ DOMAIN failed = Fields /\ failed.op = "repair" /\ failed.policy = j.policy
      /\ failed.items = j.items /\ failed.left = left /\ failed.phase = p
      /\ failed.foreign = j.foreign
  BY <1>6, <1>7 DEF Fields, NoJob
<1>9. JobOK(next) /\ JobOK(failed)
  <2>1. PhaseOK(next)
    BY <1>4, <1>7 DEF PhaseOK
  <2>2. PhaseOK(failed)
    BY <1>4, <1>8 DEF PhaseOK
  <2>3. QED
    BY <1>1, <1>2, <1>7, <1>8, <2>1, <2>2, UpkeepJob DEF Upkeep
<1>10. FilesMove /\ BundleOK' /\ UNCHANGED lastId
  BY <1>1 DEF Repair, Aside, Outside, FilesMove, BundleOK
<1>11. CASE Active(id)
  <2>1. /\ prompts' = [prompts EXCEPT ![id].versions[Len(prompts[id].versions)].format =
                         Detected(Latest(id).body)]
        /\ Become(c, next, {prompts[id].slug})
    BY <1>3, <1>4, <1>5, <1>11 DEF Repair
  <2>2. /\ RowsMove({prompts[id].slug})
        /\ id \in InvalidIds' => RefusedAsDetected(id)'
        /\ \A i \in InvalidIds' : i # id => i \in InvalidIds /\ prompts'[i] = prompts[i]
    BY <1>1, <1>10, <1>11, <2>1, FormatWritten DEF Active
  <2>3. job'[c] = next
    BY <2>1 DEF Become
  <2>4. RepairOK(c)'
    <3>1. \A i \in InvalidIds' : i # id /\ RefusedAsDetected(i) => RefusedAsDetected(i)'
      BY <2>2 DEF RefusedAsDetected, Latest
    <3>2. QED
      BY <1>1, <1>2, <1>3, <1>4, <1>7, <2>2, <2>3, <3>1 DEF RepairOK
  <2>5. UpkeepOK(c)'
    BY <1>7, <2>3, <2>4 DEF UpkeepOK, ExportOK, FilesOK
  <2>6. QED
    BY <1>9, <1>10, <2>1, <2>2, <2>5, StepKeeps
<1>12. CASE ~Active(id)
  <2>1. UNCHANGED prompts /\ Become(c, failed, {})
    BY <1>3, <1>4, <1>5, <1>6, <1>12 DEF Repair
  <2>2. RowsMove({})
    BY <1>1, <1>10, <2>1, RowsStay
  <2>3. job'[c] = failed
    BY <2>1 DEF Become
  <2>4. id \in InvalidIds => prompts[id].trashed > 0
    <3>1. ASSUME id \in DOMAIN prompts
          PROVE  prompts[id].trashed > 0
      <4>1. prompts[id].trashed \in Nat
        BY <1>1, <3>1, RowFields DEF RowsOK
      <4>2. prompts[id].trashed # 0
        BY <1>12, <3>1 DEF Active
      <4>3. QED
        BY <4>1, <4>2
    <3>2. QED
      BY <3>1 DEF InvalidIds
  <2>5. RepairOK(c)'
    BY <1>1, <1>2, <1>3, <1>4, <1>8, <2>1, <2>3, <2>4, UnchangedInvalid DEF RepairOK
  <2>6. UpkeepOK(c)'
    BY <1>8, <2>3, <2>5 DEF UpkeepOK, ExportOK, FilesOK
  <2>7. QED
    BY <1>9, <1>10, <2>1, <2>2, <2>6, StepKeeps
<1>13. QED
  BY <1>11, <1>12

-----------------------------------------------------------------------------
(* The export of a bundle *)

LEMMA BundleItemIs ==
  ASSUME RowsOK, NEW id \in DOMAIN prompts
  PROVE  BundleItem(id) \in Items /\ BundleItem(id).slug = prompts[id].slug
<1>1. Latest(id).semver \in Nat /\ Latest(id).body \in Bodies /\ Latest(id).format \in Formats
  BY LatestIsVersion
<1>2. prompts[id].slug \in Slugs /\ prompts[id].title \in Titles /\ prompts[id].labels \in SUBSET Labels
  BY RowFields DEF RowsOK
<1>3. QED
  BY <1>1, <1>2 DEF BundleItem, Items

LEMMA ListAllKeeps ==
  ASSUME JobsInv, NEW c \in Clients, ListAll(c)
  PROVE  Kept({c})
<1>1. RowsOK /\ BundleOK /\ JobOK(job[c]) /\ job[c].op = "export"
  BY StateOfJob DEF ListAll, Listed
<1> DEFINE j == job[c]
           ids == DOMAIN prompts \ Trash
<1>2. PICK read : read = [id \in ids |-> BundleItem(id)]
  OBVIOUS
<1>3. PICK n : n = [j EXCEPT !.read = read, !.phase = "labels"]
  OBVIOUS
<1>4. DOMAIN j = Fields
  BY <1>1 DEF JobOK
<1>5. /\ DOMAIN n = Fields /\ n.op = "export" /\ n.policy = j.policy /\ n.items = j.items
      /\ n.left = j.left /\ n.phase = "labels" /\ n.read = read
  BY <1>1, <1>3, <1>4 DEF Fields, NoJob
<1>6. PhaseOK(n)
  BY <1>1, <1>5 DEF PhaseOK, JobOK
<1>7. JobOK(n)
  BY <1>1, <1>5, <1>6, UpkeepJob DEF Upkeep
<1>8. Become(c, n, {}) /\ UNCHANGED <<prompts, lastId, bundle, files>>
  BY <1>2, <1>3 DEF ListAll, Listed, Aside, Outside
<1>9. job'[c] = n
  BY <1>8 DEF Become
<1>10. \A id \in DOMAIN prompts : BundleItem(id)' = BundleItem(id) /\ (Active(id)' <=> Active(id))
  BY <1>8 DEF BundleItem, Active, Latest
<1>11. ReadOK(c)'
  <2>1. DOMAIN read \subseteq 1..lastId
    BY <1>1, <1>2 DEF RowsOK
  <2>2. \A id \in DOMAIN read :
          read[id] \in Items /\ id \in DOMAIN prompts /\ prompts[id].slug = read[id].slug
    BY <1>1, <1>2, BundleItemIs
  <2>3. \A id \in DOMAIN prompts :
          (id \in DOMAIN read <=> Active(id)) /\ (Active(id) => read[id] = BundleItem(id))
    <3>1. \A id \in DOMAIN prompts : prompts[id].trashed \in Nat
      BY <1>1, RowFields DEF RowsOK
    <3>2. \A id \in DOMAIN prompts : id \in ids <=> Active(id)
      BY <3>1 DEF Trash, Active
    <3>3. QED
      BY <1>2, <3>2
  <2>4. /\ DOMAIN job'[c].read \subseteq 1..lastId'
        /\ \A i, k \in DOMAIN job'[c].read : job'[c].read[i].slug = job'[c].read[k].slug => i = k
    <3>1. \A i, k \in DOMAIN read : read[i].slug = read[k].slug => i = k
      BY <1>1, <2>2 DEF RowsOK
    <3>2. QED
      BY <1>5, <1>8, <1>9, <2>1, <3>1
  <2>5. \A id \in DOMAIN job'[c].read :
          /\ job'[c].read[id] \in Items
          /\ id \in DOMAIN prompts' /\ prompts'[id].slug = job'[c].read[id].slug
    BY <1>5, <1>8, <1>9, <2>2
  <2>6. \A id \in DOMAIN prompts' :
          /\ id \in DOMAIN job'[c].read <=> Active(id)'
          /\ Active(id)' => job'[c].read[id] = BundleItem(id)'
    BY <1>5, <1>8, <1>9, <1>10, <2>3
  <2>7. QED
    BY <2>4, <2>5, <2>6 DEF ReadOK
<1>12. UpkeepOK(c)'
  BY <1>5, <1>9, <1>11 DEF UpkeepOK, RepairOK, ExportOK, FilesOK
<1>13. RowsMove({}) /\ FilesMove /\ BundleOK'
  <2>1. RowsMove({})
    BY <1>1, <1>8, RowsStay
  <2>2. QED
    BY <1>1, <1>8, <2>1 DEF FilesMove, BundleOK
<1>14. QED
  BY <1>7, <1>8, <1>12, <1>13, StepKeeps

(* Every id of a finite set has a place in the order of the bundle. *)
LEMMA PlacesAreIds ==
  ASSUME NEW n \in Nat, NEW ids \in SUBSET (1..n)
  PROVE  /\ Cardinality(ids) \in Nat
         /\ \A i \in ids : Cardinality({k \in ids : k >= i}) \in 1..Cardinality(ids)
         /\ \A k \in 1..Cardinality(ids) :
              \E i \in ids : Cardinality({x \in ids : x >= i}) = k
         /\ \A i, k \in ids : Cardinality({x \in ids : x >= i}) = Cardinality({x \in ids : x >= k})
                                => i = k
<1> DEFINE from(i) == {x \in ids : x >= i}
           place(i) == Cardinality(from(i))
           places == 1..Cardinality(ids)
<1>1. IsFiniteSet(ids) /\ Cardinality(ids) \in Nat
  <2>1. IsFiniteSet(1..n)
    BY FS_Interval
  <2>2. QED
    BY <2>1, FS_Subset, FS_CardinalityType
<1>2. ASSUME NEW i \in ids
      PROVE  IsFiniteSet(from(i)) /\ place(i) \in places
  <2>1. IsFiniteSet(from(i)) /\ place(i) <= Cardinality(ids)
    BY <1>1, FS_Subset
  <2>2. place(i) \in Nat /\ place(i) # 0
    <3>1. i \in from(i)
      OBVIOUS
    <3>2. QED
      BY <2>1, <3>1, FS_CardinalityType, FS_EmptySet
  <2>3. QED
    BY <1>1, <2>1, <2>2
<1>3. ASSUME NEW i \in ids, NEW k \in ids, i > k
      PROVE  place(i) # place(k)
  <2>1. i \in Nat /\ k \in Nat /\ \A x \in ids : x \in Nat
    OBVIOUS
  <2>2. from(i) \in SUBSET from(k)
    <3>1. \A x \in ids : x >= i => x >= k
      BY <1>3, <2>1
    <3>2. QED
      BY <3>1
  <2>3. k \in from(k) /\ k \notin from(i)
    BY <1>3, <2>1
  <2>4. QED
    BY <1>2, <2>2, <2>3, FS_Subset
<1>4. \A i, k \in ids : place(i) = place(k) => i = k
  BY <1>3
<1> DEFINE f == [i \in ids |-> place(i)]
<1>5. f \in Injection(ids, places)
  BY <1>2, <1>4 DEF Injection, IsInjective
<1>6. IsFiniteSet(places) /\ Cardinality(places) = Cardinality(ids)
  BY <1>1, FS_Interval
<1>7. f \in Surjection(ids, places)
  BY <1>1, <1>5, <1>6, FS_Injection
<1>8. \A k \in places : \E i \in ids : place(i) = k
  BY <1>7 DEF Surjection
<1>9. QED
  BY <1>1, <1>2, <1>4, <1>8

LEMMA LabelledItem ==
  ASSUME NEW item \in Items, NEW labels \in SUBSET Labels,
         NEW new, new = [item EXCEPT !.labels = labels]
  PROVE  new \in Items /\ new.slug = item.slug
BY DEF Items

LEMMA OwnLabels ==
  ASSUME NEW item \in Items
  PROVE  [item EXCEPT !.labels = item.labels] = item
BY DEF Items

LEMMA SameLabels ==
  ASSUME RowsOK, NEW id \in DOMAIN prompts
  PROVE  [BundleItem(id) EXCEPT !.labels = prompts[id].labels] = BundleItem(id)
<1>1. BundleItem(id) \in Items
  BY BundleItemIs
<1>2. BundleItem(id).labels = prompts[id].labels
  BY DEF BundleItem
<1>3. PICK item \in Items : item = BundleItem(id)
  BY <1>1
<1>4. [item EXCEPT !.labels = item.labels] = item
  BY OwnLabels
<1>5. QED
  BY <1>2, <1>3, <1>4

(* What is made of the rows that were read, in the order of the bundle. *)
MadeOf(items, ids, made) ==
  /\ items \in Seq(Items) /\ Range(items) = {made[id] : id \in ids}
  /\ (\A i, k \in ids : made[i].slug = made[k].slug => i = k) =>
       \A i, k \in DOMAIN items : items[i].slug = items[k].slug => i = k

LEMMA BundleMade ==
  ASSUME NEW n \in Nat, NEW ids \in SUBSET (1..n), NEW made \in [ids -> Items], NEW items,
         items = [k \in 1..Cardinality(ids) |->
                    made[CHOOSE id \in ids : Cardinality({i \in ids : i >= id}) = k]]
  PROVE  MadeOf(items, ids, made)
<1> DEFINE place(i) == Cardinality({x \in ids : x >= i})
           Nth(k) == CHOOSE id \in ids : place(id) = k
           m == Cardinality(ids)
<1>1. /\ m \in Nat
      /\ \A i \in ids : place(i) \in 1..m
      /\ \A k \in 1..m : \E i \in ids : place(i) = k
      /\ \A i, k \in ids : place(i) = place(k) => i = k
  BY PlacesAreIds
<1>2. items = [k \in 1..m |-> made[Nth(k)]]
  OBVIOUS
<1> HIDE DEF place, m
<1>3. \A k \in 1..m : Nth(k) \in ids /\ place(Nth(k)) = k
  BY <1>1
<1> HIDE DEF Nth
<1>4. \A i \in ids : Nth(place(i)) = i
  BY ZenonT(60), <1>1, <1>3
<1>5. items \in Seq(Items)
  <2>1. \A k \in 1..m : made[Nth(k)] \in Items
    BY <1>3
  <2>2. [k \in 1..m |-> made[Nth(k)]] \in Seq(Items)
    BY <1>1, <2>1
  <2>3. QED
    BY <1>2, <2>2
<1>6. DOMAIN items = 1..m /\ \A k \in 1..m : items[k] = made[Nth(k)]
  BY <1>2
<1>7. ASSUME NEW x \in Range(items)
      PROVE  x \in {made[id] : id \in ids}
  <2>1. PICK k \in 1..m : x = items[k]
    BY <1>6, <1>7 DEF Range
  <2>2. Nth(k) \in ids /\ x = made[Nth(k)]
    BY <1>3, <1>6, <2>1
  <2>3. QED
    BY <2>2
<1>8. ASSUME NEW id \in ids
      PROVE  made[id] \in Range(items)
  <2>1. place(id) \in 1..m /\ items[place(id)] = made[id]
    BY <1>1, <1>4, <1>6
  <2>2. QED
    BY <1>6, <2>1 DEF Range
<1>9. ASSUME \A i, k \in ids : made[i].slug = made[k].slug => i = k,
             NEW i \in DOMAIN items, NEW k \in DOMAIN items, items[i].slug = items[k].slug
      PROVE  i = k
  <2>1. PICK x, y : x = Nth(i) /\ y = Nth(k)
    OBVIOUS
  <2>2. x \in ids /\ y \in ids /\ place(x) = i /\ place(y) = k
    BY <1>3, <1>6, <2>1
  <2>3. made[x].slug = made[y].slug
    BY <1>6, <1>9, <2>1
  <2>4. QED
    BY <1>9, <2>2, <2>3
<1>10. Range(items) = {made[id] : id \in ids}
  BY <1>7, <1>8
<1>11. QED
  BY <1>5, <1>9, <1>10 DEF MadeOf

LEMMA ExportBundleKeeps ==
  ASSUME JobsInv, NEW c \in Clients, ExportBundle(c)
  PROVE  Kept({c})
<1>1. RowsOK /\ JobOK(job[c]) /\ job[c].op = "export" /\ ReadOK(c)
  <2>1. JobOK(job[c]) /\ RowsOK /\ ExportOK(c) /\ job[c].phase = "labels"
    BY StateOfJob DEF ExportBundle, In, UpkeepOK
  <2>2. job[c].op = "export"
    BY SMTT(60), <2>1 DEF JobOK, PhaseOK
  <2>3. QED
    BY SMTT(60), <2>1, <2>2 DEF ExportOK
<1> DEFINE rows == job[c].read
           labelled == [id \in DOMAIN rows |->
                          IF id \in DOMAIN prompts
                          THEN [rows[id] EXCEPT !.labels = prompts[id].labels] ELSE rows[id]]
           items == [k \in 1..Cardinality(DOMAIN rows) |->
                       labelled[CHOOSE id \in DOMAIN rows :
                                  Cardinality({i \in DOMAIN rows : i >= id}) = k]]
<1>2. /\ Become(c, [job[c] EXCEPT !.phase = "done", !.done = items], {})
      /\ UNCHANGED <<prompts, lastId, files>> /\ bundle' = items
  BY DEF ExportBundle
<1>3. PICK foreign : foreign = job[c].foreign
  OBVIOUS
<1>4. /\ DOMAIN rows \subseteq 1..lastId
      /\ \A i, k \in DOMAIN rows : rows[i].slug = rows[k].slug => i = k
      /\ \A id \in DOMAIN rows :
           /\ rows[id] \in Items
           /\ rows[id].slug \in foreign \/ (id \in DOMAIN prompts /\ prompts[id].slug = rows[id].slug)
      /\ \A id \in DOMAIN prompts : prompts[id].slug \notin foreign =>
           /\ id \in DOMAIN rows <=> Active(id)
           /\ Active(id) => rows[id] = BundleItem(id)
  BY <1>1, <1>3 DEF ReadOK
<1> HIDE DEF rows
<1>5. DOMAIN labelled = DOMAIN rows /\ \A id \in DOMAIN rows :
        labelled[id] = IF id \in DOMAIN prompts
                       THEN [rows[id] EXCEPT !.labels = prompts[id].labels] ELSE rows[id]
  OBVIOUS
<1>6. \A id \in DOMAIN rows : labelled[id] \in Items /\ labelled[id].slug = rows[id].slug
  <2>1. SUFFICES ASSUME NEW id \in DOMAIN rows
                 PROVE  labelled[id] \in Items /\ labelled[id].slug = rows[id].slug
    OBVIOUS
  <2>2. CASE id \in DOMAIN prompts
    <3>1. prompts[id].labels \in SUBSET Labels /\ rows[id] \in Items
      BY <1>1, <1>4, <2>2, RowFields DEF RowsOK
    <3>2. labelled[id] = [rows[id] EXCEPT !.labels = prompts[id].labels]
      BY <1>5, <2>2
    <3>3. QED
      BY <3>1, <3>2, LabelledItem
  <2>3. CASE id \notin DOMAIN prompts
    BY <1>4, <1>5, <2>3
  <2>4. QED
    BY <2>2, <2>3
<1>7. labelled \in [DOMAIN rows -> Items]
  BY <1>6
<1> HIDE DEF labelled
<1>8. /\ items \in Seq(Items) /\ Range(items) = {labelled[id] : id \in DOMAIN rows}
      /\ \A i, k \in DOMAIN items : items[i].slug = items[k].slug => i = k
  <2>1. lastId \in Nat /\ DOMAIN rows \in SUBSET (1..lastId)
    BY <1>1, <1>4 DEF RowsOK
  <2>2. \A i, k \in DOMAIN rows : labelled[i].slug = labelled[k].slug => i = k
    BY <1>4, <1>6
  <2>3. PICK n, ids, made, its :
          n = lastId /\ ids = DOMAIN rows /\ made = labelled /\ its = items
    OBVIOUS
  <2>4. its = [k \in 1..Cardinality(ids) |->
                made[CHOOSE id \in ids : Cardinality({i \in ids : i >= id}) = k]]
    BY <2>3
  <2> HIDE DEF items
  <2>5. n \in Nat /\ ids \in SUBSET (1..n) /\ made \in [ids -> Items]
    BY <1>7, <2>1, <2>3
  <2>6. MadeOf(its, ids, made)
    BY <2>4, <2>5, BundleMade
  <2>7. QED
    BY <2>2, <2>3, <2>6 DEF MadeOf
<1> HIDE DEF items
<1>9. PICK n : n = [job[c] EXCEPT !.phase = "done", !.done = items]
  OBVIOUS
<1>10. Become(c, n, {}) /\ UNCHANGED <<prompts, lastId, files>> /\ bundle' = items
  BY <1>2, <1>9
<1>11. /\ DOMAIN n = Fields /\ n.op = "export" /\ n.policy = job[c].policy
       /\ n.items = job[c].items /\ n.left = job[c].left /\ n.phase = "done"
       /\ n.done = items /\ n.foreign = foreign
  BY <1>1, <1>3, <1>9 DEF Fields, NoJob, JobOK
<1>12. PhaseOK(n)
  BY <1>1, <1>11 DEF PhaseOK, JobOK
<1>13. JobOK(n)
  BY <1>1, <1>11, <1>12, UpkeepJob DEF Upkeep
<1>14. job'[c] = n
  BY <1>10 DEF Become
<1>15. ASSUME NEW id \in DOMAIN prompts, prompts[id].slug \notin foreign
       PROVE  {item \in Range(items) : item.slug = prompts[id].slug} =
                IF Active(id) THEN {BundleItem(id)} ELSE {}
  <2>1. \A i \in DOMAIN rows : rows[i].slug = prompts[id].slug => i = id
    BY <1>1, <1>4, <1>15 DEF RowsOK
  <2>2. {item \in Range(items) : item.slug = prompts[id].slug} =
          IF id \in DOMAIN rows THEN {labelled[id]} ELSE {}
    <3>1. ASSUME NEW item \in Range(items), item.slug = prompts[id].slug
          PROVE  id \in DOMAIN rows /\ item = labelled[id]
      BY <1>6, <1>8, <2>1, <3>1
    <3>2. ASSUME id \in DOMAIN rows
          PROVE  labelled[id] \in Range(items) /\ labelled[id].slug = prompts[id].slug
      <4>1. rows[id].slug = prompts[id].slug
        BY <1>1, <1>4, <1>15, <3>2, BundleItemIs
      <4>2. QED
        BY <1>6, <1>8, <3>2, <4>1
    <3>3. QED
      BY <3>1, <3>2
  <2>3. Active(id) => labelled[id] = BundleItem(id)
    <3>1. SUFFICES ASSUME Active(id) PROVE labelled[id] = BundleItem(id)
      OBVIOUS
    <3>2. id \in DOMAIN rows /\ rows[id] = BundleItem(id)
      BY <1>4, <1>15, <3>1
    <3>3. labelled[id] = [rows[id] EXCEPT !.labels = prompts[id].labels]
      BY <1>5, <3>2
    <3>4. QED
      BY <1>1, <3>2, <3>3, SameLabels
  <2>4. QED
    BY <1>4, <1>15, <2>2, <2>3
<1>16. WholeOK(c)'
  <2>1. \A id \in DOMAIN prompts : (Active(id)' <=> Active(id)) /\ BundleItem(id)' = BundleItem(id)
    BY <1>10 DEF Active, BundleItem, Latest
  <2>2. SUFFICES ASSUME NEW id \in DOMAIN prompts', prompts'[id].slug \notin job'[c].foreign
                 PROVE  {item \in Range(job'[c].done) : item.slug = prompts'[id].slug} =
                          IF Active(id)' THEN {BundleItem(id)'} ELSE {}
    BY DEF WholeOK, Range
  <2>3. QED
    BY <1>10, <1>11, <1>14, <1>15, <2>1, <2>2
<1>17. UpkeepOK(c)'
  BY <1>11, <1>14, <1>16 DEF UpkeepOK, RepairOK, ExportOK, FilesOK
<1>18. RowsMove({}) /\ FilesMove /\ BundleOK'
  <2>1. RowsMove({})
    BY <1>1, <1>10, RowsStay
  <2>2. QED
    BY <1>8, <1>10, <2>1 DEF FilesMove, BundleOK
<1>19. QED
  BY <1>10, <1>13, <1>17, <1>18, StepKeeps

-----------------------------------------------------------------------------
(* The export of each prompt to a file of its own *)

(* What was written stays true when a step adds one file to the report. *)
LEMMA OneFileMore ==
  ASSUME RowsOK, NEW c, FilesOK(c), job[c].op = "bulkExport", RowsMove({}), FilesMove,
         NEW name, NEW file, NEW foreign,
         job[c].foreign = foreign, job'[c].foreign = foreign, job'[c].op = "bulkExport",
         job'[c].done = Append(job[c].done, [x \in {name} |-> file]),
         FileOK(foreign, name, file)'
  PROVE  FilesOK(c)'
<1> DEFINE S == Range(job[c].done)
           new == [x \in {name} |-> file]
<1>1. job[c].done \in Seq(S)
  BY DEF FilesOK
<1>2. PICK done \in Seq(S) : done = job[c].done
  BY <1>1
<1>3. PICK more : more = Append(done, new)
  OBVIOUS
<1> HIDE DEF S
<1>4. done \in Seq(S \cup {new})
  BY <1>2
<1>5. /\ more \in Seq(S \cup {new}) /\ Len(more) = Len(done) + 1 /\ Len(done) \in Nat
      /\ \A i \in 1..Len(done) : more[i] = done[i]
      /\ more[Len(done) + 1] = new
  BY <1>3, <1>4, AppendProperties
<1>6. DOMAIN done = 1..Len(done) /\ DOMAIN more = 1..(Len(done) + 1)
  BY <1>2, <1>5
<1>7. job'[c].done = more
  BY <1>2, <1>3
<1>8. more \in Seq(Range(more))
  BY <1>5, <1>6 DEF Range
<1>9. ASSUME NEW i \in 1..Len(done), NEW x \in DOMAIN done[i]
      PROVE  FileOK(foreign, x, done[i][x])'
  <2>1. PICK old : old = done[i][x]
    OBVIOUS
  <2>2. FileOK(foreign, x, old)
    BY <1>2, <1>6, <2>1 DEF FilesOK
  <2>3. FileOK(foreign \cup {}, x, old)'
    BY <2>2, FileStays
  <2>4. QED
    BY <2>1, <2>3 DEF FileOK
<1>10. ASSUME NEW x \in DOMAIN new
       PROVE  FileOK(foreign, x, new[x])'
  BY DEF FileOK
<1>11. ASSUME NEW i \in DOMAIN more, NEW x \in DOMAIN more[i]
       PROVE  FileOK(foreign, x, more[i][x])'
  <2>1. CASE i \in 1..Len(done)
    BY <1>5, <1>9, <2>1
  <2>2. CASE i = Len(done) + 1
    BY <1>5, <1>10, <2>2
  <2>3. QED
    BY <1>5, <1>6, <2>1, <2>2
<1>12. QED
  BY ZenonT(60), <1>7, <1>8, <1>11 DEF FilesOK, FileOK

LEMMA ExportFileKeeps ==
  ASSUME JobsInv, NEW c \in Clients, NEW id \in job[c].left, ExportFile(c, id)
  PROVE  Kept({c})
<1>1. RowsOK /\ BundleOK /\ JobOK(job[c]) /\ FilesOK(c)
  BY StateOfJob DEF UpkeepOK
<1> DEFINE j == job[c]
<1>2. /\ j.op = "bulkExport" /\ DOMAIN j = Fields
      /\ UNCHANGED <<prompts, bundle, lastId>>
  BY <1>1 DEF ExportFile, JobOK
<1>3. BundleOK' /\ RowsMove({})
  BY <1>1, <1>2, RowsStay DEF BundleOK
<1>4. PICK foreign : foreign = j.foreign
  OBVIOUS
<1>5. ASSUME NEW n, Become(c, n, {}), DOMAIN n = Fields, n.op = "bulkExport",
             n.policy = j.policy, n.items = j.items, n.phase \in {"done", "begun"},
             FilesMove, FilesOK(c)'
      PROVE  Kept({c})
  <2>1. PhaseOK(n)
    BY <1>5 DEF PhaseOK
  <2>2. JobOK(n)
    BY <1>1, <1>2, <1>5, <2>1, UpkeepJob DEF Upkeep
  <2>3. job'[c] = n
    BY <1>5 DEF Become
  <2>4. UpkeepOK(c)'
    BY <1>5, <2>3 DEF UpkeepOK, RepairOK, ExportOK
  <2>5. QED
    BY <1>3, <1>5, <2>2, <2>4, StepKeeps
<1> DEFINE left == j.left \ {id}
           to == IF j.policy = "asIs" THEN Latest(id).format ELSE j.policy
           file == Rendered(id, to)
           name == FileName(id, to)
           Left(rest) == [j EXCEPT !.left = rest, !.phase = IF rest = {} THEN "done" ELSE "begun"]
           Done == Active(id)
                     /\ (to = Latest(id).format \/ ValidContent(Latest(id).body, Latest(id).format))
<1>6. ASSUME NEW rest
      PROVE  /\ DOMAIN Left(rest) = Fields /\ Left(rest).op = "bulkExport"
             /\ Left(rest).policy = j.policy /\ Left(rest).items = j.items
             /\ Left(rest).phase \in {"done", "begun"}
             /\ Left(rest).done = j.done /\ Left(rest).foreign = j.foreign
  <2>1. PICK p \in {"done", "begun"} : p = IF rest = {} THEN "done" ELSE "begun"
    OBVIOUS
  <2>2. PICK n : n = [j EXCEPT !.left = rest, !.phase = p]
    OBVIOUS
  <2>3. Left(rest) = n
    BY <2>1, <2>2
  <2> HIDE DEF Left, j
  <2>4. /\ DOMAIN n = Fields /\ n.op = j.op /\ n.policy = j.policy /\ n.items = j.items
        /\ n.phase = p /\ n.done = j.done /\ n.foreign = j.foreign
    BY <1>2, <2>2 DEF Fields, NoJob
  <2>5. QED
    BY <1>2, <2>1, <2>3, <2>4
<1>7. CASE Done
  <2>1. /\ files' = With(files, name, file)
        /\ Become(c, [Left(left) EXCEPT !.done = Append(Left(left).done, [x \in {name} |-> file])], {})
    BY <1>7 DEF ExportFile, Rendered
  <2> HIDE DEF Left, left, to, file, name, Done
  <2>2. PICK m, more : m = Left(left) /\ more = Append(m.done, [x \in {name} |-> file])
    OBVIOUS
  <2>3. PICK n : n = [m EXCEPT !.done = more]
    OBVIOUS
  <2>4. Become(c, n, {}) /\ job'[c] = n
    BY <2>1, <2>2, <2>3 DEF Become
  <2>5. /\ DOMAIN m = Fields /\ m.op = "bulkExport" /\ m.policy = j.policy /\ m.items = j.items
        /\ m.phase \in {"done", "begun"} /\ m.done = j.done /\ m.foreign = j.foreign
    BY <1>6, <2>2
  <2> HIDE DEF j
  <2>6. /\ DOMAIN n = Fields /\ n.op = m.op /\ n.policy = m.policy /\ n.items = m.items
        /\ n.phase = m.phase /\ n.done = more /\ n.foreign = m.foreign
    BY <2>3, <2>5 DEF Fields, NoJob
  <2>7. id \in DOMAIN prompts /\ name[1] = prompts[id].slug /\ name[2] = to
    BY <1>7 DEF Active, FileName, name, Done
  <2>8. PICK x, f, t : x = name /\ f = file /\ t = to
    OBVIOUS
  <2>9. f = Rendered(id, t) /\ Rendered(id, t)' = Rendered(id, t) /\ f.id = id
    BY <1>2, <2>8 DEF Rendered, Latest, file
  <2>10. /\ x \in DOMAIN files' /\ files'[x] = f
         /\ \A y \in DOMAIN files : y \in DOMAIN files' /\ (y # x => files'[y] = files[y])
    BY <2>1, <2>8 DEF With
  <2>11. FilesMove
    BY <1>2, <2>7, <2>8, <2>9, <2>10 DEF FilesMove
  <2>12. FileOK(foreign, x, f)'
    <3>1. id \in Nat /\ id <= lastId
      BY <1>1, <2>7 DEF RowsOK
    <3>2. Slug(id)' \subseteq {x[1]}
      BY <1>2, <2>7, <2>8 DEF Slug
    <3>3. /\ id \in DOMAIN prompts' /\ f = Rendered(id, x[2])'
      BY <1>2, <2>7, <2>8, <2>9
    <3>4. QED
      BY <1>2, <2>9, <2>10, <3>1, <3>2, <3>3 DEF FileOK
  <2>13. FilesOK(c)'
    <3>1. /\ job[c].foreign = foreign /\ job'[c].foreign = foreign /\ job'[c].op = "bulkExport"
          /\ job[c].op = "bulkExport"
          /\ job'[c].done = Append(job[c].done, [y \in {x} |-> f])
      BY <1>2, <1>4, <2>2, <2>4, <2>5, <2>6, <2>8 DEF j
    <3>2. QED
      BY <1>1, <1>3, <2>11, <2>12, <3>1, OneFileMore
  <2>14. QED
    BY <1>5, <2>4, <2>5, <2>6, <2>11, <2>13
<1>8. CASE ~Done
  <2>1. PICK rest : /\ UNCHANGED files
                    /\ Become(c, [Left(rest) EXCEPT !.failed = Left(rest).failed \cup {id}], {})
    <3>1. /\ UNCHANGED files
          /\ Become(c, [Left(IF j.keepGoing THEN left ELSE {}) EXCEPT
                          !.failed = Left(IF j.keepGoing THEN left ELSE {}).failed \cup {id}], {})
      BY <1>8 DEF ExportFile
    <3> HIDE DEF Left, left
    <3>2. QED
      BY <3>1
  <2>2. PICK m, failed : m = Left(rest) /\ failed = m.failed \cup {id}
    OBVIOUS
  <2>3. PICK n : n = [m EXCEPT !.failed = failed]
    OBVIOUS
  <2> HIDE DEF Left
  <2>4. Become(c, n, {}) /\ job'[c] = n
    BY <2>1, <2>2, <2>3 DEF Become
  <2>5. /\ DOMAIN m = Fields /\ m.op = "bulkExport" /\ m.policy = j.policy /\ m.items = j.items
        /\ m.phase \in {"done", "begun"} /\ m.done = j.done /\ m.foreign = j.foreign
    BY <1>6, <2>2
  <2> HIDE DEF j
  <2>6. /\ DOMAIN n = Fields /\ n.op = m.op /\ n.policy = m.policy /\ n.items = m.items
        /\ n.phase = m.phase /\ n.done = m.done /\ n.foreign = m.foreign
    BY <2>3, <2>5 DEF Fields, NoJob
  <2>7. FilesMove
    BY <2>1 DEF FilesMove
  <2>8. FilesOK(c)'
    <3>1. /\ job'[c].op = job[c].op /\ job'[c].done = job[c].done
          /\ job'[c].foreign = job[c].foreign \cup {}
      BY <1>2, <2>4, <2>5, <2>6 DEF j
    <3>2. QED
      BY <1>1, <1>3, <2>7, <3>1, OthersFiles
  <2>9. QED
    BY <1>5, <2>4, <2>5, <2>6, <2>7, <2>8
<1>9. QED
  BY <1>7, <1>8

-----------------------------------------------------------------------------
(* Snapshots and the migration of tags *)

LEMMA SnapshotKeeps ==
  ASSUME JobsInv, NEW c \in Clients,
         SnapshotPrompts(c) \/ SnapshotVersions(c) \/ NoSnapshot(c) \/ ClearPrompts(c) \/ ClearIndex(c)
  PROVE  Kept({c})
<1>1. RowsOK /\ JobOK(job[c])
  BY StateOfJob
<1>2. {"versions", "clear index"} \subseteq Onward \ Handling
  BY DEF Onward, OwnPhases, Handling
<1>3. CASE SnapshotPrompts(c)
  <2>1. Plain(job[c])
    BY <1>3 DEF SnapshotPrompts, Plain, Upkeep
  <2>2. PICK n : n = [job[c] EXCEPT !.read = prompts, !.phase = "versions"]
    OBVIOUS
  <2>3. JobOK(n) /\ Plain(n)
    BY <1>1, <1>2, <2>1, <2>2, PhaseAndRead
  <2>4. Become(c, n, {}) /\ UNCHANGED <<prompts, lastId, bundle, files>>
    BY <1>3, <2>2 DEF SnapshotPrompts, Aside, Outside
  <2>5. QED
    BY <2>3, <2>4, QuietStep
<1>4. CASE SnapshotVersions(c)
  <2>1. Plain(job[c])
    BY <1>1, <1>4, OwnPhase DEF SnapshotVersions, In, OwnPhases
  <2>2. Finish(c, {}) /\ UNCHANGED <<prompts, lastId, bundle, files>>
    BY <1>4 DEF SnapshotVersions
  <2>3. QED
    BY <1>1, <2>1, <2>2, RowsStay, FinishKeeps
<1>5. CASE NoSnapshot(c)
  BY <1>5, ThrowKeeps DEF NoSnapshot, Plain, Upkeep
<1>6. CASE ClearPrompts(c)
  <2>1. Plain(job[c])
    BY <1>6 DEF ClearPrompts, Plain, Upkeep
  <2>2. PICK n : n = [job[c] EXCEPT !.phase = "clear index", !.before = prompts]
    OBVIOUS
  <2>3. JobOK(n) /\ Plain(n)
    BY <1>1, <1>2, <2>1, <2>2, PhaseAndBefore
  <2>4. PICK touched : touched = {prompts[id].slug : id \in DOMAIN prompts}
    OBVIOUS
  <2>5. /\ Become(c, n, touched) /\ UNCHANGED <<lastId, bundle, files>>
        /\ prompts' = <<>>
    BY <1>6, <2>2, <2>4 DEF ClearPrompts, Aside, Outside
  <2>6. DOMAIN prompts' = {}
    BY <2>5
  <2>7. RowsOK'
    BY <1>1, <2>5, <2>6 DEF RowsOK
  <2>8. lastId <= lastId'
    BY <1>1, <2>5 DEF RowsOK
  <2>9. RowsMove(touched)
    BY <2>4, <2>6, <2>7, <2>8 DEF RowsMove
  <2>10. QED
    BY <2>3, <2>5, <2>9, PlainStep
<1>7. CASE ClearIndex(c)
  BY <1>1, <1>7, OwnPhase, ThrowKeeps DEF ClearIndex, In, OwnPhases
<1>8. QED
  BY <1>3, <1>4, <1>5, <1>6, <1>7

LEMMA MigrationKeeps ==
  ASSUME JobsInv, NEW c \in Clients, ReadTags(c) \/ ReadTaggings(c) \/ Migrate(c)
  PROVE  Kept({c})
<1>1. RowsOK /\ JobOK(job[c])
  BY StateOfJob
<1>2. Plain(job[c])
  BY <1>1, OwnPhase DEF ReadTags, ReadTaggings, Migrate, In, OwnPhases, Plain, Upkeep
<1>3. UNCHANGED <<prompts, lastId, bundle, files>>
  BY DEF ReadTags, ReadTaggings, Migrate, Aside, Outside, Migrating
<1>4. {"taggings", "migrate"} \subseteq Onward \ Handling
  BY DEF Onward, OwnPhases, Handling
<1>5. ASSUME NEW p \in Onward \ Handling, NEW r,
             Become(c, [job[c] EXCEPT !.read = r, !.phase = p], {})
      PROVE  Kept({c})
  <2>1. PICK n : n = [job[c] EXCEPT !.read = r, !.phase = p]
    OBVIOUS
  <2>2. JobOK(n) /\ Plain(n)
    BY <1>1, <1>2, <2>1, PhaseAndRead
  <2>3. QED
    BY <1>3, <1>5, <2>1, <2>2, QuietStep
<1>6. CASE ReadTags(c)
  <2>1. PICK r : r = [tags |-> Sources[legacy].tags]
    OBVIOUS
  <2>2. Become(c, [job[c] EXCEPT !.read = r, !.phase = "taggings"], {})
    BY <1>6, <2>1 DEF ReadTags
  <2>3. QED
    BY <1>4, <1>5, <2>2
<1>7. CASE ReadTaggings(c)
  <2>1. PICK r : r = [tags |-> job[c].read.tags, taggings |-> Sources[legacy].taggings]
    OBVIOUS
  <2>2. Become(c, [job[c] EXCEPT !.read = r, !.phase = "migrate"], {})
    BY <1>7, <2>1 DEF ReadTaggings
  <2>3. QED
    BY <1>4, <1>5, <2>2
<1>8. CASE Migrate(c)
  <2>1. CASE Finish(c, {})
    BY <1>1, <1>2, <1>3, <2>1, RowsStay, FinishKeeps
  <2>2. CASE Become(c, Thrown(c), {})
    BY <1>1, <1>2, <1>3, <2>2, ThrownJob, QuietStep
  <2>3. QED
    BY <1>8, <2>1, <2>2 DEF Migrate
<1>9. QED
  BY <1>6, <1>7, <1>8

LEMMA StepOfJobKeeps ==
  ASSUME JobsInv, NEW c \in Clients, Step(c)
  PROVE  Kept({c})
<1>1. CASE UpkeepStep(c)
  BY <1>1, RunDiagnosticsKeeps, RepairKeeps, ListAllKeeps, ExportBundleKeeps, ExportFileKeeps,
     SnapshotKeeps, MigrationKeeps DEF UpkeepStep
<1>2. CASE End(c)
  <2>1. Become(c, NoJob, {}) /\ UNCHANGED <<prompts, lastId, bundle, files>>
    BY <1>2 DEF End, Aside, Outside
  <2>2. FilesMove /\ BundleOK' /\ RowsMove({})
    BY <2>1, StateOfJob, RowsStay DEF FilesMove, BundleOK
  <2>3. UpkeepOK(c)'
    <3>1. job'[c] = NoJob
      BY <2>1 DEF Become
    <3>2. QED
      BY <3>1, NoJobOK, PlainUpkeep DEF Upkeep
  <2>4. QED
    BY <2>1, <2>2, <2>3, NoJobOK, StepKeeps
<1>3. QED
  BY <1>1, <1>2, ImportKeeps, ToolKeeps DEF Step

-----------------------------------------------------------------------------
(* What others do *)

LEMMA CrashKeeps ==
  ASSUME JobsInv, NEW c \in Clients, Crash(c)
  PROVE  Kept({c})
<1>1. Become(c, NoJob, {}) /\ UNCHANGED <<prompts, lastId, bundle, files>>
  BY DEF Crash, Outside
<1>2. FilesMove /\ BundleOK' /\ RowsMove({})
  BY <1>1, StateOfJob, RowsStay DEF FilesMove, BundleOK
<1>3. job'[c] = NoJob
  BY <1>1 DEF Become
<1>4. UpkeepOK(c)'
  BY <1>3, NoJobOK, PlainUpkeep DEF Upkeep
<1>5. QED
  BY <1>1, <1>2, <1>4, NoJobOK, StepKeeps

LEMMA DesktopKeeps ==
  ASSUME JobsInv, NEW id \in DOMAIN prompts, NEW v \in Desktop, DesktopAdds(id, v)
  PROVE  Kept({})
<1>1. v \in Versions /\ RowsOK /\ BundleOK
  BY JobsAssumption DEF JobsAssumption, JobsInv
<1>2. PICK touched : touched = {prompts[id].slug}
  OBVIOUS
<1>3. /\ prompts' = [prompts EXCEPT ![id].versions = Append(prompts[id].versions, v)]
      /\ UNCHANGED <<lastId, bundle, files>>
  BY DEF DesktopAdds, Outside
<1>4. RowsMove(touched)
  BY <1>1, <1>2, <1>3, VersionAdded
<1>5. FilesMove /\ BundleOK'
  BY <1>1, <1>3 DEF FilesMove, BundleOK
<1>6. DOMAIN job' = Clients
  BY DEF DesktopAdds
<1>7. ASSUME NEW d \in Clients
      PROVE  JobOK(job'[d]) /\ UpkeepOK(d)' /\ Learns(d, touched)
  <2>1. job'[d] = IF job[d].op = "none" THEN NoJob
                  ELSE [job[d] EXCEPT !.foreign = job[d].foreign \cup touched]
    BY <1>2 DEF DesktopAdds
  <2>2. QED
    BY <1>4, <1>5, <2>1, OthersKeep
<1>8. JobsInv'
  BY <1>4, <1>5, <1>6, <1>7 DEF JobsInv, RowsMove
<1>9. Spread(touched, {})
  BY <1>4, <1>7 DEF Spread
<1>10. QED
  BY <1>8, <1>9 DEF Kept

LEMMA SameKeeps ==
  ASSUME JobsInv, UNCHANGED <<prompts, lastId, bundle, files, job>>
  PROVE  Kept({})
<1>1. RowsOK' /\ BundleOK' /\ RowsMove({}) /\ FilesMove
  BY RowsStay DEF JobsInv, RowsOK, BundleOK, FilesMove
<1>2. ASSUME NEW d \in Clients
      PROVE  JobOK(job'[d]) /\ UpkeepOK(d)'
  <2>1. job'[d] = job[d] /\ job'[d].foreign = job[d].foreign \cup {}
    OBVIOUS
  <2>2. RowsOK /\ JobOK(job[d]) /\ RepairOK(d) /\ ExportOK(d) /\ FilesOK(d)
    BY DEF JobsInv, UpkeepOK
  <2>3. RepairOK(d)'
    BY <1>1, <2>1, <2>2, OthersRepair
  <2>4. ExportOK(d)'
    BY <1>1, <2>1, <2>2, OthersExport
  <2>5. FilesOK(d)'
    BY <1>1, <2>1, <2>2, OthersFiles
  <2>6. QED
    BY <2>1, <2>2, <2>3, <2>4, <2>5 DEF UpkeepOK
<1>3. DOMAIN job' = Clients
  BY DEF JobsInv
<1>4. JobsInv'
  BY <1>1, <1>2, <1>3 DEF JobsInv
<1>5. Spread({}, {})
  BY <1>1 DEF Spread, Learns
<1>6. QED
  BY <1>4, <1>5 DEF Kept

LEMMA OthersDoKeep ==
  ASSUME JobsInv, Others
  PROVE  JobsInv'
<1>1. ASSUME LegacyMoves \/ \E label \in AppTags : AppTag(label)
      PROVE  JobsInv'
  <2>1. UNCHANGED <<prompts, lastId, bundle, files, job>>
    BY <1>1 DEF LegacyMoves, AppTag, Outside
  <2>2. QED
    BY <2>1, SameKeeps DEF Kept
<1>2. QED
  BY <1>1, DesktopKeeps, CrashKeeps DEF Others, Kept

-----------------------------------------------------------------------------
(* The beginning of a job *)

OpOf(request) == IF request.op = "importFile" THEN "import" ELSE request.op
ItemsOf(request) == IF request.op = "importFile" THEN bundle ELSE request.items
LeftOf(request) == IF request.op = "bulkExport" THEN DOMAIN prompts ELSE {}
OpenedAs(request, id, n) == n = [Opened(request) EXCEPT !.id = id]

LEMMA OpenedFields ==
  ASSUME NEW request, NEW id, NEW n, OpenedAs(request, id, n)
  PROVE  /\ DOMAIN n = Fields /\ n.op = OpOf(request) /\ n.policy = request.policy
         /\ n.items = ItemsOf(request) /\ n.done = NoJob.done
         /\ n.left = LeftOf(request)
         /\ n.phase = FirstPhase(request.op, ItemsOf(request))
<1>1. PICK items, op, left, phase, before, policy, keepGoing :
        /\ items = ItemsOf(request) /\ op = OpOf(request)
        /\ left = LeftOf(request)
        /\ phase = FirstPhase(request.op, ItemsOf(request)) /\ before = prompts
        /\ policy = request.policy /\ keepGoing = request.keepGoing
  OBVIOUS
<1>2. Opened(request) =
        [NoJob EXCEPT !.op = op, !.policy = policy, !.keepGoing = keepGoing, !.items = items,
                      !.before = before, !.left = left, !.phase = phase]
  BY <1>1 DEF Opened, OpOf, ItemsOf, LeftOf
<1>3. PICK m : m = Opened(request)
  OBVIOUS
<1>4. /\ DOMAIN m = Fields /\ m.op = op /\ m.policy = policy /\ m.items = items
      /\ m.done = NoJob.done /\ m.left = left /\ m.phase = phase
  BY <1>2, <1>3 DEF Fields, NoJob
<1>5. n = [m EXCEPT !.id = id]
  BY <1>3 DEF OpenedAs
<1>6. /\ DOMAIN n = Fields /\ n.op = m.op /\ n.policy = m.policy /\ n.items = m.items
      /\ n.done = m.done /\ n.left = m.left /\ n.phase = m.phase
  BY <1>4, <1>5 DEF Fields, NoJob
<1>7. QED
  BY <1>1, <1>4, <1>6

LEMMA RequestIs ==
  ASSUME BundleOK, NEW request \in Requests
  PROVE  /\ ItemsOf(request) \in Seq(Items)
         /\ request.op \in WithItem => ItemsOf(request) # <<>>
         /\ request.op # "bulkExport" => request.policy \in Strategies
         /\ request.op # "none"
<1>1. request \in Jobs /\ (request.op \in WithItem => request.items # <<>>)
  BY JobsAssumption DEF JobsAssumption
<1>2. request.items \in Seq(Items)
  <2>1. PICK none \in Seq(Items) : none = <<>>
    BY EmptyIsSequence
  <2>2. request.items \in Seq(Items) \cup {none}
    BY <1>1, <2>1 DEF Jobs
  <2>3. QED
    BY <2>1, <2>2
<1>3. request.op # "none" /\ (request.op # "bulkExport" => request.policy \in Strategies)
  BY <1>1 DEF Jobs, WithItem
<1>4. QED
  BY <1>1, <1>2, <1>3 DEF ItemsOf, BundleOK, WithItem

LEMMA BeginKeeps ==
  ASSUME JobsInv, NEW c \in Clients, NEW request \in Requests, Begin(c, request)
  PROVE  Kept({c})
<1>1. RowsOK /\ BundleOK
  BY StateOfJob
<1>2. PICK id : Become(c, [Opened(request) EXCEPT !.id = id], {})
  BY DEF Begin
<1>3. PICK n : OpenedAs(request, id, n)
  BY DEF OpenedAs
<1>4. PICK items \in Seq(Items) : items = ItemsOf(request)
  BY <1>1, RequestIs
<1>5. /\ request.op \in WithItem => items # <<>>
      /\ request.op # "bulkExport" => request.policy \in Strategies
      /\ request.op # "none"
  BY <1>1, <1>4, RequestIs
<1>6. /\ DOMAIN n = Fields /\ n.op = OpOf(request) /\ n.policy = request.policy
      /\ n.items = items /\ n.done = <<>>
      /\ n.left = IF request.op = "bulkExport" THEN DOMAIN prompts ELSE {}
      /\ n.phase = FirstPhase(request.op, items)
  <2>1. /\ DOMAIN n = Fields /\ n.op = OpOf(request) /\ n.policy = request.policy
        /\ n.items = ItemsOf(request) /\ n.done = NoJob.done
        /\ n.left = LeftOf(request)
        /\ n.phase = FirstPhase(request.op, ItemsOf(request))
    BY <1>3, OpenedFields
  <2>2. QED
    BY <1>4, <2>1 DEF LeftOf, NoJob
<1>7. /\ n.phase = IF request.op \in {"import", "importFile"} THEN After(items)
                   ELSE IF request.op \in {"update", "version"} THEN request.op ELSE "begun"
      /\ After(items) \in {"next", "done"} /\ (After(items) = "next" => items # <<>>)
  BY <1>6 DEF FirstPhase, After
<1>8. ItemsOK(n)
  BY <1>5, <1>6, <1>7 DEF ItemsOK, OpOf, WithItem, Handling
<1>9. PhaseOK(n)
  BY <1>5, <1>6, <1>7 DEF PhaseOK, OpOf
<1>10. JobOK(n)
  BY <1>5, <1>6, <1>8, <1>9 DEF JobOK, OpOf
<1>11. Become(c, n, {}) /\ UNCHANGED <<prompts, lastId, bundle, files>>
  BY <1>2, <1>3 DEF Begin, Outside, OpenedAs
<1>12. job'[c] = n
  BY <1>11 DEF Become
<1>13. UpkeepOK(c)'
  <2>1. RepairOK(c)'
    BY <1>6, <1>7, <1>12 DEF RepairOK, OpOf
  <2>2. ExportOK(c)'
    BY <1>6, <1>7, <1>12 DEF ExportOK, OpOf
  <2>3. FilesOK(c)'
    <3>1. PICK none, S : none = <<>> /\ S = Range(none)
      OBVIOUS
    <3>2. none \in Seq(S) /\ DOMAIN none = {}
      BY <3>1, EmptyIsSequence
    <3>3. job'[c].done = none
      BY <1>6, <1>12, <3>1
    <3>4. QED
      BY <3>1, <3>2, <3>3 DEF FilesOK
  <2>4. QED
    BY <2>1, <2>2, <2>3 DEF UpkeepOK
<1>14. FilesMove /\ BundleOK' /\ RowsMove({})
  BY <1>1, <1>11, RowsStay DEF FilesMove, BundleOK
<1>15. QED
  BY <1>10, <1>11, <1>13, <1>14, StepKeeps

-----------------------------------------------------------------------------
LEMMA InitJobs ==
  ASSUME Init
  PROVE  JobsInv
<1>1. RowsOK
  BY JobsAssumption DEF JobsAssumption, Init, RowsOK
<1>2. BundleOK
  BY EmptyIsSequence DEF Init, BundleOK
<1>3. ASSUME NEW c \in Clients
      PROVE  JobOK(job[c]) /\ UpkeepOK(c)
  <2>1. job[c] = NoJob
    BY DEF Init
  <2>2. UpkeepOK(c)
    BY <2>1, NoJobOK DEF UpkeepOK, RepairOK, ExportOK, FilesOK
  <2>3. QED
    BY <2>1, <2>2, NoJobOK
<1>4. DOMAIN job = Clients
  BY DEF Init
<1>5. QED
  BY <1>1, <1>2, <1>3, <1>4 DEF JobsInv

LEMMA NextJobs ==
  ASSUME JobsInv, [Next]_vars
  PROVE  JobsInv'
<1>1. CASE UNCHANGED vars
  BY <1>1, SameKeeps DEF vars, Kept
<1>2. CASE Next
  BY <1>2, BeginKeeps, StepOfJobKeeps, OthersDoKeep DEF Next, Kept
<1>3. QED
  BY <1>1, <1>2

-----------------------------------------------------------------------------
(* Counting *)

LEMMA SmallestOf ==
  ASSUME NEW T \in SUBSET Nat, T # {}
  PROVE  \E x \in T : \A y \in T : x <= y
<1> DEFINE R == OpToRel(<, Nat)
<1>1. IsWellFoundedOn(R, Nat)
  BY NatLessThanWellFounded
<1>2. \A x, y \in Nat : <<x, y>> \in R <=> x < y
  BY DEF OpToRel
<1> HIDE DEF R
<1>3. PICK x \in T : \A y \in T : ~ (<<y, x>> \in R)
  BY <1>1, WFMin
<1>4. ASSUME NEW y \in T PROVE x <= y
  <2>1. x \in Nat /\ y \in Nat /\ <<y, x>> \notin R
    BY <1>3
  <2>2. ~(y < x)
    BY <1>2, <2>1
  <2>3. QED
    BY <2>1, <2>2
<1>5. QED
  BY <1>4

LEMMA UpTo ==
  ASSUME NEW n \in Nat, NEW S, 0 \in S, \A i \in 1..n : i - 1 \in S => i \in S
  PROVE  \A i \in 0..n : i \in S
<1> DEFINE C == {i \in 0..n : i \notin S}
<1>1. SUFFICES ASSUME C # {}
               PROVE  FALSE
  OBVIOUS
<1>2. C \in SUBSET Nat
  OBVIOUS
<1>3. PICK m \in C : \A k \in C : m <= k
  BY <1>1, <1>2, SmallestOf
<1>4. m \in 1..n /\ m - 1 \in 0..n
  BY <1>3
<1>5. m - 1 \notin C
  BY <1>3, <1>4
<1>6. QED
  BY <1>3, <1>4, <1>5

(* A function that is defined from each number to the next one exists. *)
Walks(g, n, base, step) == g[0] = base /\ \A i \in 1..n : g[i] = step[<<g[i - 1], i>>]

LEMMA StepByStep ==
  ASSUME NEW n \in Nat, NEW V, NEW base \in V, NEW step \in [V \X (1..n) -> V]
  PROVE  \E g \in [0..n -> V] : Walks(g, n, base, step)
<1> DEFINE Are(g, m) == /\ g[0] = base
                        /\ \A i \in 1..m : g[i] = step[<<g[i - 1], i>>]
           S == {m \in 0..n : \E g \in [0..n -> V] : Are(g, m)}
<1>1. 0 \in S
  <2>1. [i \in 0..n |-> base] \in [0..n -> V] /\ Are([i \in 0..n |-> base], 0)
    OBVIOUS
  <2> HIDE DEF Are
  <2>2. QED
    BY <2>1
<1>2. ASSUME NEW m \in 1..n, m - 1 \in S
      PROVE  m \in S
  <2>1. PICK g \in [0..n -> V] : Are(g, m - 1)
    BY <1>2
  <2> DEFINE h == [g EXCEPT ![m] = step[<<g[m - 1], m>>]]
  <2>2. h \in [0..n -> V]
    <3>1. m - 1 \in 0..n /\ <<g[m - 1], m>> \in V \X (1..n)
      OBVIOUS
    <3>2. step[<<g[m - 1], m>>] \in V
      BY <3>1
    <3>3. QED
      BY <3>2
  <2>3. h[0] = base
    BY <2>1
  <2>4. ASSUME NEW i \in 1..m
        PROVE  h[i] = step[<<h[i - 1], i>>]
    <3>1. h[i - 1] = g[i - 1]
      <4>1. i - 1 \in 0..n /\ i - 1 # m
        OBVIOUS
      <4>2. QED
        BY <4>1
    <3>2. CASE i = m
      <4>1. h[m] = step[<<g[m - 1], m>>]
        BY DEF h
      <4>2. h[m - 1] = g[m - 1]
        BY <3>1, <3>2
      <4> HIDE DEF h
      <4>3. QED
        BY <3>2, <4>1, <4>2
    <3>3. CASE i # m
      <4>1. i \in 1..(m - 1) /\ h[i] = g[i]
        BY <3>3
      <4>2. QED
        BY <2>1, <3>1, <4>1
    <3>4. QED
      BY <3>2, <3>3
  <2> HIDE DEF h
  <2>5. Are(h, m) /\ m \in 0..n
    BY <2>3, <2>4
  <2> HIDE DEF Are
  <2>6. QED
    BY <2>2, <2>5
<1>3. n \in S
  <2> HIDE DEF S
  <2>1. \A i \in 1..n : i - 1 \in S => i \in S
    BY <1>2
  <2>2. n \in 0..n
    OBVIOUS
  <2>3. QED
    BY <1>1, <2>1, <2>2, UpTo
<1>4. QED
  BY <1>3 DEF Walks

-----------------------------------------------------------------------------
(* The items of a slug, and what they leave of its history *)

LEMMA NamedIs ==
  ASSUME NEW items \in Seq(Items), NEW slug
  PROVE  \E f \in [0..Len(items) -> Seq(Items)] :
           /\ f[0] = <<>>
           /\ \A i \in 1..Len(items) :
                f[i] = IF items[i].slug = slug THEN Append(f[i - 1], items[i]) ELSE f[i - 1]
           /\ Named(items, slug) = f[Len(items)]
<1> DEFINE n == Len(items)
           V == Seq(Items)
           next(kept, i) == IF items[i].slug = slug THEN Append(kept, items[i]) ELSE kept
           Are(f) == f = [i \in 0..n |-> IF i = 0 THEN <<>> ELSE next(f[i - 1], i)]
           step == [p \in V \X (1..n) |-> next(p[1], p[2])]
<1>1. n \in Nat /\ \A i \in 1..n : items[i] \in Items
  OBVIOUS
<1>2. \A kept \in V, i \in 1..n : next(kept, i) \in V
  BY <1>1
<1>3. <<>> \in V /\ step \in [V \X (1..n) -> V]
  <2>1. <<>> \in V
    OBVIOUS
  <2> HIDE DEF V, next
  <2>2. QED
    BY <1>1, <1>2, <2>1
<1>4. PICK g \in [0..n -> V] : Walks(g, n, <<>>, step)
  <2>1. n \in Nat
    BY <1>1
  <2> HIDE DEF step, n, V
  <2>2. QED
    BY <1>3, <2>1, StepByStep
<1>5. \A i \in 1..n : g[i] = next(g[i - 1], i)
  <2> HIDE DEF V, next
  <2>1. \A i \in 1..n : <<g[i - 1], i>> \in V \X (1..n)
    BY SMTT(60), <1>1
  <2>2. QED
    BY <1>4, <2>1 DEF Walks
<1>6. Are(g)
  <2> HIDE DEF V, next
  <2>1. QED
    BY <1>4, <1>5 DEF Walks
<1>7. PICK f : Are(f) /\ Named(items, slug) = f[n]
  <2>1. Named(items, slug) = (CHOOSE f : Are(f))[n]
    BY DEF Named
  <2> HIDE DEF Are
  <2>2. QED
    BY <1>6, <2>1
<1>8. f[0] = <<>> /\ \A i \in 1..n : f[i] = next(f[i - 1], i)
  <2>1. n \in Nat /\ f = [i \in 0..n |-> IF i = 0 THEN <<>> ELSE next(f[i - 1], i)]
    BY <1>1, <1>7
  <2> HIDE DEF V, next, n
  <2>2. QED
    BY <2>1
<1>9. \A i \in 0..n : f[i] \in V
  <2> DEFINE T == {i \in 0..n : f[i] \in V}
  <2> HIDE DEF V, next
  <2>1. 0 \in T
    BY <1>1, <1>3, <1>8
  <2>2. \A i \in 1..n : i - 1 \in T => i \in T
    BY <1>1, <1>2, <1>8
  <2> HIDE DEF T
  <2>3. \A i \in 0..n : i \in T
    BY <1>1, <2>1, <2>2, UpTo
  <2>4. QED
    BY <2>3 DEF T
<1>10. f \in [0..n -> V]
  <2> HIDE DEF V, next
  <2>1. f = [i \in 0..n |-> f[i]]
    BY <1>7
  <2>2. QED
    BY <1>9, <2>1
<1>11. QED
  BY <1>7, <1>8, <1>10

LEMMA NamedAppend ==
  ASSUME NEW items \in Seq(Items), NEW item \in Items, NEW slug
  PROVE  /\ Named(items, slug) \in Seq(Items)
         /\ Named(Append(items, item), slug) =
              IF item.slug = slug THEN Append(Named(items, slug), item) ELSE Named(items, slug)
<1> DEFINE n == Len(items)
           longer == Append(items, item)
           next(kept, x) == IF x.slug = slug THEN Append(kept, x) ELSE kept
<1>1. n \in Nat /\ longer \in Seq(Items) /\ Len(longer) = n + 1 /\ longer[n + 1] = item
      /\ \A i \in 1..n : longer[i] = items[i]
  OBVIOUS
<1>2. PICK f \in [0..n -> Seq(Items)] :
        /\ f[0] = <<>>
        /\ \A i \in 1..n : f[i] = next(f[i - 1], items[i])
        /\ Named(items, slug) = f[n]
  BY NamedIs
<1> HIDE DEF longer
<1>3. PICK more \in [0..(n + 1) -> Seq(Items)] :
        /\ more[0] = <<>>
        /\ \A i \in 1..(n + 1) : more[i] = next(more[i - 1], longer[i])
        /\ Named(longer, slug) = more[n + 1]
  <2>1. PICK m : m = n + 1 /\ Len(longer) = m
    BY <1>1
  <2>2. \E more \in [0..m -> Seq(Items)] :
          /\ more[0] = <<>>
          /\ \A i \in 1..m : more[i] = next(more[i - 1], longer[i])
          /\ Named(longer, slug) = more[m]
    BY <1>1, <2>1, NamedIs
  <2>3. QED
    BY <2>1, <2>2
<1> HIDE DEF n, next
<1>4. \A i \in 0..n : more[i] = f[i]
  <2> DEFINE T == {i \in 0..n : more[i] = f[i]}
  <2>1. 0 \in T
    BY <1>1, <1>2, <1>3
  <2>2. ASSUME NEW i \in 1..n, i - 1 \in T
        PROVE  i \in T
    <3>1. i \in 1..(n + 1) /\ more[i - 1] = f[i - 1] /\ longer[i] = items[i]
      BY SMTT(60), <1>1, <2>2
    <3>2. more[i] = f[i]
      BY <1>2, <1>3, <3>1
    <3>3. QED
      BY <3>2
  <2> HIDE DEF T
  <2>3. \A i \in 0..n : i \in T
    BY <1>1, <2>1, <2>2, UpTo
  <2>4. QED
    BY <2>3 DEF T
<1>5. n \in 0..n /\ n + 1 \in 1..(n + 1) /\ (n + 1) - 1 = n
  BY <1>1
<1>6. more[n + 1] = next(more[n], item)
  BY <1>1, <1>3, <1>5
<1>7. Named(items, slug) \in Seq(Items)
  BY <1>1, <1>2, <1>5
<1>8. Named(longer, slug) = next(Named(items, slug), item)
  BY <1>2, <1>3, <1>4, <1>5, <1>6
<1>9. QED
  BY <1>7, <1>8 DEF longer, next

LEMMA NamedEmpty == ASSUME NEW slug PROVE Named(<<>>, slug) = <<>>
<1>1. PICK none \in Seq(Items) : none = <<>> /\ Len(none) = 0
  BY EmptySeq
<1>2. PICK f \in [0..Len(none) -> Seq(Items)] : f[0] = <<>> /\ Named(none, slug) = f[Len(none)]
  BY NamedIs
<1>3. QED
  BY <1>1, <1>2

Texts(items) == [i \in DOMAIN items |-> Version(items[i])]

LEMMA VersionIs ==
  ASSUME NEW item \in Items
  PROVE  Version(item) \in Versions
BY DEF Version, Items, Versions

LEMMA TextsAre ==
  ASSUME NEW items \in Seq(Items), NEW item \in Items
  PROVE  /\ Texts(items) \in Seq(Versions) /\ Len(Texts(items)) = Len(items)
         /\ Texts(Append(items, item)) = Append(Texts(items), Version(item))
<1>1. ASSUME NEW some \in Seq(Items)
      PROVE  Texts(some) \in Seq(Versions) /\ Len(Texts(some)) = Len(some)
             /\ \A i \in 1..Len(some) : Texts(some)[i] = Version(some[i])
  <2>1. DOMAIN some = 1..Len(some) /\ Len(some) \in Nat
    OBVIOUS
  <2>2. \A i \in 1..Len(some) : Version(some[i]) \in Versions
    BY <2>1, VersionIs
  <2> DEFINE t == [i \in 1..Len(some) |-> Version(some[i])]
  <2>3. t \in [1..Len(some) -> Versions]
    BY <2>2
  <2>4. t \in Seq(Versions) /\ Len(t) = Len(some)
    BY <2>1, <2>3
  <2>5. QED
    BY <2>1, <2>4 DEF Texts
<1>2. PICK longer \in Seq(Items) : longer = Append(items, item)
  BY AppendProperties
<1>3. Len(items) \in Nat /\ Len(longer) = Len(items) + 1 /\ longer[Len(items) + 1] = item
      /\ \A i \in 1..Len(items) : longer[i] = items[i]
  BY <1>2, AppendProperties
<1> DEFINE s == Texts(longer)
           t == Append(Texts(items), Version(item))
<1>4. t \in Seq(Versions) /\ Len(t) = Len(items) + 1 /\ t[Len(items) + 1] = Version(item)
      /\ \A i \in 1..Len(items) : t[i] = Version(items[i])
  BY <1>1, AppendProperties, VersionIs
<1>5. s \in Seq(Versions) /\ Len(s) = Len(items) + 1
      /\ \A i \in 1..Len(longer) : s[i] = Version(longer[i])
  BY <1>1, <1>3
<1> HIDE DEF s, t
<1>6. \A i \in 1..Len(s) : s[i] = t[i]
  BY <1>3, <1>4, <1>5
<1>7. s = t
  BY <1>4, <1>5, <1>6, SeqEqual
<1>8. QED
  BY <1>1, <1>2, <1>7 DEF s, t

(* One more item adds its version, unless items of a known slug are        *)
(* skipped.                                                                *)
LEMMA GrownMore ==
  ASSUME NEW history \in Seq(Versions), NEW items \in Seq(Items), NEW item \in Items,
         NEW policy
  PROVE  /\ policy # "skip" =>
              Grown(history, Append(items, item), policy) =
                Append(Grown(history, items, policy), Version(item))
         /\ policy = "skip" /\ Grown(history, items, policy) # <<>> =>
              Grown(history, Append(items, item), policy) = Grown(history, items, policy)
<1> DEFINE T == Texts(items)
           v == Version(item)
           all == history \o T
           more == history \o Append(T, v)
           one == <<v>>
<1>1. T \in Seq(Versions) /\ Texts(Append(items, item)) = Append(T, v) /\ v \in Versions
  BY TextsAre, VersionIs
<1>2. one \in Seq(Versions) /\ all \in Seq(Versions)
  <2>1. v \in Versions /\ T \in Seq(Versions)
    BY <1>1
  <2> HIDE DEF v, T
  <2>2. QED
    BY <2>1, ConcatProperties
<1>3. more = all \o one /\ more = Append(all, v)
  <2>1. Append(T, v) = T \o one
    BY <1>1, AppendIsConcat
  <2>2. more = all \o one
    BY <1>1, <1>2, <2>1, ConcatAssociative
  <2>3. QED
    BY <1>1, <1>2, <2>2, AppendIsConcat
<1>4. policy # "skip" =>
        /\ Grown(history, Append(items, item), policy) = more
        /\ Grown(history, items, policy) = all
  BY <1>1 DEF Grown, Texts
<1>5. policy = "skip" =>
        /\ Grown(history, Append(items, item), policy) =
             SubSeq(more, 1, IF history = <<>> /\ more # <<>> THEN 1 ELSE Len(history))
        /\ Grown(history, items, policy) =
             SubSeq(all, 1, IF history = <<>> /\ all # <<>> THEN 1 ELSE Len(history))
  BY <1>1 DEF Grown, Texts
<1> HIDE DEF T, v, all, more, one
<1>6. CASE history # <<>>
  <2>1. Len(history) \in Nat /\ Len(history) >= 1
    BY <1>6
  <2>2. SubSeq(all, 1, Len(history)) = SubSeq(history, 1, Len(history))
    BY <1>1, <2>1, SubSeqOfConcat1 DEF all
  <2>3. Append(T, v) \in Seq(Versions)
    BY <1>1
  <2>4. SubSeq(more, 1, Len(history)) = SubSeq(history, 1, Len(history))
    BY <2>1, <2>3, SubSeqOfConcat1 DEF more
  <2>5. QED
    BY <1>3, <1>4, <1>5, <1>6, <2>2, <2>4 DEF v
<1>7. CASE history = <<>>
  <2>1. Len(history) = 0
    BY <1>7
  <2>2. CASE all = <<>>
    <3>1. SubSeq(all, 1, 0) = <<>>
      BY SubSeqEmpty
    <3>2. QED
      BY <1>3, <1>4, <1>5, <1>7, <2>1, <2>2, <3>1 DEF v
  <2>3. CASE all # <<>>
    <3>1. Len(all) \in Nat /\ Len(all) >= 1
      BY <1>2, <2>3
    <3>2. SubSeq(all \o one, 1, 1) = SubSeq(all, 1, 1)
      BY <1>2, <3>1, SubSeqOfConcat1
    <3>3. more # <<>>
      BY <1>1, <1>2, <1>3, AppendProperties
    <3>4. QED
      BY <1>3, <1>4, <1>5, <1>7, <2>3, <3>2, <3>3 DEF v
  <2>4. QED
    BY <2>2, <2>3
<1>8. QED
  BY <1>6, <1>7

LEMMA GrownNone ==
  ASSUME NEW history \in Seq(Versions), NEW items \in Seq(Items), NEW policy
  PROVE  /\ Grown(history, <<>>, policy) = history
         /\ Grown(history, items, policy) = <<>> => history = <<>> /\ items = <<>>
<1> DEFINE all(some) == history \o Texts(some)
           cut(some) == SubSeq(all(some), 1,
                               IF history = <<>> /\ all(some) # <<>> THEN 1 ELSE Len(history))
<1>1. \A some : Grown(history, some, policy) = IF policy = "skip" THEN cut(some) ELSE all(some)
  BY DEF Grown, Texts
<1>2. PICK none \in Seq(Items) : none = <<>>
  BY EmptySeq
<1>3. Texts(none) = <<>>
  BY <1>2 DEF Texts
<1>4. all(none) = history
  BY <1>3, ConcatEmptySeq
<1>5. SubSeq(history, 1, Len(history)) = history
  BY SubSeqFull
<1>6. Grown(history, none, policy) = history
  BY <1>1, <1>4, <1>5
<1>7. Texts(items) \in Seq(Versions) /\ Len(Texts(items)) = Len(items)
  <2>1. CASE items = <<>>
    <3>1. Texts(items) = <<>> /\ <<>> \in Seq(Versions)
      BY <1>2, <1>3, <2>1, EmptySeq
    <3>2. QED
      BY <2>1, <3>1
  <2>2. CASE items # <<>>
    <3>1. PICK item : item \in Items
      BY <2>2, HeadTailProperties
    <3>2. QED
      BY <3>1, TextsAre
  <2>3. QED
    BY <2>1, <2>2
<1>8. Len(all(items)) = Len(history) + Len(items) /\ all(items) \in Seq(Versions)
  <2>1. PICK t \in Seq(Versions) : t = Texts(items) /\ Len(t) = Len(items)
    BY <1>7
  <2>2. Len(history \o t) = Len(history) + Len(t) /\ history \o t \in Seq(Versions)
    BY ConcatProperties
  <2>3. QED
    BY <2>1, <2>2
<1> HIDE DEF all
<1>9. ASSUME Grown(history, items, policy) = <<>>
      PROVE  history = <<>> /\ items = <<>>
  <2>1. Len(history) \in Nat /\ Len(items) \in Nat
    OBVIOUS
  <2>2. CASE all(items) = <<>>
    <3>1. Len(all(items)) = 0
      BY <2>2
    <3>2. Len(history) + Len(items) = 0
      BY <1>8, <3>1
    <3>3. Len(history) = 0 /\ Len(items) = 0
      BY <2>1, <3>2
    <3>4. QED
      BY <3>3, EmptySeq
  <2>3. CASE all(items) # <<>>
    <3>1. PICK n \in Nat : n = IF history = <<>> THEN 1 ELSE Len(history)
      BY <2>1
    <3>2. n >= 1 /\ n <= Len(all(items))
      <4>1. Len(all(items)) # 0 /\ Len(all(items)) \in Nat
        BY <1>8, <2>3, EmptySeq
      <4>2. history # <<>> => Len(history) # 0
        BY EmptySeq
      <4>3. QED
        BY <1>8, <2>1, <3>1, <4>1, <4>2
    <3>3. \A i \in 1..n : all(items)[i] \in Versions
      BY <1>8, <3>2
    <3>4. Len(SubSeq(all(items), 1, n)) = n
      BY <3>2, <3>3, SubSeqProperties
    <3>5. SubSeq(all(items), 1, n) # <<>>
      BY <3>2, <3>4, EmptySeq
    <3>6. cut(items) = SubSeq(all(items), 1, n)
      BY <2>3, <3>1
    <3>7. QED
      BY <1>1, <1>9, <2>3, <3>5, <3>6
  <2>4. QED
    BY <2>2, <2>3
<1>10. QED
  BY <1>2, <1>6, <1>9

LEMMA GrownFirst ==
  ASSUME NEW item \in Items, NEW policy
  PROVE  Grown(<<>>, Append(<<>>, item), policy) = <<Version(item)>>
<1>1. PICK none \in Seq(Items), before \in Seq(Versions) : none = <<>> /\ before = <<>>
  BY EmptySeq
<1>2. Version(item) \in Versions
  BY VersionIs
<1> DEFINE one == <<Version(item)>>
<1>3. Texts(none) = <<>> /\ Texts(Append(none, item)) = Append(Texts(none), Version(item))
  BY <1>1, TextsAre DEF Texts
<1>4. one = Append(before, Version(item)) /\ one \in Seq(Versions) /\ one # <<>> /\ Len(one) = 1
  BY <1>1, <1>2
<1> HIDE DEF one
<1>5. Texts(Append(none, item)) = one
  BY <1>1, <1>3, <1>4
<1>6. before \o one = one
  BY <1>1, <1>4, ConcatEmptySeq
<1>7. SubSeq(one, 1, 1) = one
  BY <1>4, SubSeqFull
<1>8. Grown(before, Append(none, item), policy) = one
  BY <1>1, <1>4, <1>5, <1>6, <1>7 DEF Grown, Texts
<1>9. QED
  BY <1>1, <1>8 DEF one

-----------------------------------------------------------------------------
(* How far an import has come *)

ImportPhases == {"next", "create", "tag", "update", "relabel", "version", "done", "failed"}

(* The items whose versions are stored; the slug of the item it fell over. *)
Reached(j) == IF j.phase = "tag" THEN Append(j.done, Head(j.items)) ELSE j.done
Stuck(j) == IF j.phase = "failed" /\ j.items # <<>> THEN {Head(j.items).slug} ELSE {}

(* What the import made of each slug, and the row it is about to update.   *)
ToldOK(lib, j) ==
  \A s \in Slugs :
    /\ History(j.before, s) \in Seq(Versions)
    /\ s \notin j.foreign \cup j.failed \cup Stuck(j) =>
         History(lib, s) = Grown(History(j.before, s), Named(Reached(j), s), j.policy)

TargetOK(lib, last, j) ==
  j.phase \in {"update", "relabel", "version"} =>
    /\ j.policy = "addVersion" /\ j.id \in Nat /\ j.id <= last
    /\ j.id \in DOMAIN lib => lib[j.id].slug = Head(j.items).slug

BeforeOK(j) == \A id \in DOMAIN j.before : j.before[id].slug \in Slugs

Imported(lib, last, j) ==
  j.op = "import" =>
    /\ j.phase \in ImportPhases /\ j.done \in Seq(Items)
    /\ BeforeOK(j) /\ ToldOK(lib, j) /\ TargetOK(lib, last, j)

ImportOK(c) == Imported(prompts, lastId, job[c])
ImportsInv == \A c \in Clients : ImportOK(c)

(* A slug belongs to one row, or to none. *)
LEMMA HistoryOf ==
  ASSUME NEW lib, NEW s,
         \A i, k \in DOMAIN lib : lib[i].slug = lib[k].slug => i = k
  PROVE  /\ \A id \in DOMAIN lib : lib[id].slug = s => History(lib, s) = lib[id].versions
         /\ (\A id \in DOMAIN lib : lib[id].slug # s) => History(lib, s) = <<>>
<1> DEFINE ids == {i \in DOMAIN lib : lib[i].slug = s}
<1>1. History(lib, s) = IF ids = {} THEN <<>> ELSE lib[CHOOSE i \in ids : TRUE].versions
  BY DEF History
<1>2. ASSUME NEW id \in DOMAIN lib, lib[id].slug = s
      PROVE  History(lib, s) = lib[id].versions
  <2>1. ids = {id}
    BY <1>2
  <2> HIDE DEF ids
  <2>2. (CHOOSE i \in ids : TRUE) = id
    BY <2>1
  <2>3. QED
    BY <1>1, <2>1, <2>2
<1>3. QED
  BY <1>1, <1>2

LEMMA HistoryStays ==
  ASSUME RowsOK, NEW touched, RowsMove(touched), NEW s, s \notin touched
  PROVE  History(prompts', s) = History(prompts, s)
<1>1. /\ \A i, k \in DOMAIN prompts : prompts[i].slug = prompts[k].slug => i = k
      /\ \A i, k \in DOMAIN prompts' : prompts'[i].slug = prompts'[k].slug => i = k
  BY DEF RowsMove, RowsOK
<1>2. CASE \E id \in DOMAIN prompts : prompts[id].slug = s
  <2>1. PICK id \in DOMAIN prompts : prompts[id].slug = s
    BY <1>2
  <2>2. id \in DOMAIN prompts' /\ prompts'[id] = prompts[id]
    BY <2>1 DEF RowsMove
  <2>3. History(prompts, s) = prompts[id].versions
    BY <1>1, <2>1, HistoryOf
  <2>4. History(prompts', s) = prompts'[id].versions
    BY <1>1, <2>1, <2>2, HistoryOf
  <2>5. QED
    BY <2>2, <2>3, <2>4
<1>3. CASE \A id \in DOMAIN prompts : prompts[id].slug # s
  <2>1. \A id \in DOMAIN prompts' : prompts'[id].slug # s
    BY <1>3 DEF RowsMove
  <2>2. QED
    BY <1>1, <1>3, <2>1, HistoryOf
<1>4. QED
  BY <1>2, <1>3

(* The jobs of others *)
LEMMA OthersImport ==
  ASSUME JobsInv, NEW d \in Clients, ImportOK(d), NEW touched, RowsMove(touched),
         Learns(d, touched)
  PROVE  ImportOK(d)'
<1>1. PICK j, n : j = job[d] /\ n = job'[d]
  OBVIOUS
<1>2. ImportOK(d)' <=> Imported(prompts', lastId', n)
  BY <1>1 DEF ImportOK
<1>3. Imported(prompts, lastId, j) /\ RowsOK
  BY <1>1 DEF ImportOK, JobsInv
<1>4. SUFFICES ASSUME n.op = "import"
               PROVE  Imported(prompts', lastId', n)
  BY <1>2 DEF Imported
<1>5. /\ n.op = j.op /\ n.phase = j.phase /\ n.policy = j.policy /\ n.items = j.items
      /\ n.done = j.done /\ n.id = j.id /\ n.failed = j.failed /\ n.before = j.before
      /\ n.foreign = j.foreign \cup touched
  BY <1>1, <1>4 DEF Learns
<1>6. Reached(n) = Reached(j) /\ Stuck(n) = Stuck(j)
  BY <1>5 DEF Reached, Stuck
<1>7. ToldOK(prompts', n)
  <2>1. ToldOK(prompts, j)
    BY <1>3, <1>4, <1>5 DEF Imported
  <2>2. ASSUME NEW s \in Slugs, s \notin n.foreign
        PROVE  History(prompts', s) = History(prompts, s)
    BY <1>3, <1>5, <2>2, HistoryStays
  <2>3. QED
    BY <1>5, <1>6, <2>1, <2>2 DEF ToldOK
<1>8. TargetOK(prompts', lastId', n)
  <2>1. SUFFICES ASSUME n.phase \in {"update", "relabel", "version"}
                 PROVE  /\ n.policy = "addVersion" /\ n.id \in Nat /\ n.id <= lastId'
                        /\ n.id \in DOMAIN prompts' => prompts'[n.id].slug = Head(n.items).slug
    BY DEF TargetOK
  <2>2. /\ j.policy = "addVersion" /\ j.id \in Nat /\ j.id <= lastId
        /\ j.id \in DOMAIN prompts => prompts[j.id].slug = Head(j.items).slug
    BY <1>3, <1>4, <1>5, <2>1 DEF Imported, TargetOK
  <2>3. lastId \in Nat /\ lastId' \in Nat /\ lastId <= lastId'
    BY DEF RowsMove, RowsOK, JobsInv
  <2>4. j.id \in DOMAIN prompts' => j.id \in DOMAIN prompts /\ prompts'[j.id].slug = prompts[j.id].slug
    BY <2>2 DEF RowsMove
  <2>5. QED
    BY <1>5, <2>2, <2>3, <2>4
<1>9. BeforeOK(n)
  BY <1>3, <1>4, <1>5 DEF Imported, BeforeOK
<1>10. QED
  BY <1>3, <1>5, <1>7, <1>8, <1>9 DEF Imported

-----------------------------------------------------------------------------
(* The steps of an import *)

LEMMA StoredFields ==
  ASSUME NEW c, DOMAIN job[c] = Fields, NEW n, n = Stored(c)
  PROVE  /\ n.op = job[c].op /\ n.policy = job[c].policy /\ n.before = job[c].before
         /\ n.foreign = job[c].foreign /\ n.failed = job[c].failed
         /\ n.items = Tail(job[c].items) /\ n.phase = After(Tail(job[c].items))
         /\ n.done = Append(job[c].done, Head(job[c].items))
<1>1. PICK j, rest, p, d : /\ j = job[c] /\ rest = Tail(job[c].items)
                           /\ p = After(Tail(job[c].items))
                           /\ d = Append(job[c].done, Head(job[c].items))
  OBVIOUS
<1>2. n = [j EXCEPT !.items = rest, !.phase = p, !.done = d] /\ DOMAIN j = Fields
  BY <1>1 DEF Stored
<1>3. /\ n.op = j.op /\ n.policy = j.policy /\ n.before = j.before
      /\ n.foreign = j.foreign /\ n.failed = j.failed
      /\ n.items = rest /\ n.phase = p /\ n.done = d
  BY <1>2 DEF Fields, NoJob
<1>4. QED
  BY <1>1, <1>3

LEMMA ThrownFields ==
  ASSUME NEW c, DOMAIN job[c] = Fields, NEW n, n = Thrown(c)
  PROVE  /\ n.op = job[c].op /\ n.policy = job[c].policy /\ n.before = job[c].before
         /\ n.foreign = job[c].foreign /\ n.done = job[c].done
         /\ IF job[c].items # <<>> /\ job[c].keepGoing
            THEN /\ n.failed = job[c].failed \cup {Head(job[c].items).slug}
                 /\ n.phase = After(Tail(job[c].items))
            ELSE /\ n.failed = job[c].failed
                 /\ n.items = job[c].items /\ n.phase = "failed"
<1>1. PICK j, rest, p, f : /\ j = job[c] /\ rest = Tail(job[c].items)
                           /\ p = After(Tail(job[c].items))
                           /\ f = job[c].failed \cup {Head(job[c].items).slug}
  OBVIOUS
<1>2. DOMAIN j = Fields
  BY <1>1
<1>3. CASE job[c].items # <<>> /\ job[c].keepGoing
  <2>1. n = [j EXCEPT !.items = rest, !.phase = p, !.failed = f]
    BY <1>1, <1>3 DEF Thrown
  <2>2. /\ n.op = j.op /\ n.policy = j.policy /\ n.before = j.before
        /\ n.foreign = j.foreign /\ n.done = j.done /\ n.failed = f /\ n.phase = p
    BY <1>2, <2>1 DEF Fields, NoJob
  <2>3. QED
    BY <1>1, <1>3, <2>2
<1>4. CASE ~(job[c].items # <<>> /\ job[c].keepGoing)
  <2>1. n = [j EXCEPT !.phase = "failed"]
    BY <1>1, <1>4 DEF Thrown
  <2>2. /\ n.op = j.op /\ n.policy = j.policy /\ n.before = j.before
        /\ n.foreign = j.foreign /\ n.done = j.done /\ n.failed = j.failed
        /\ n.items = j.items /\ n.phase = "failed"
    BY <1>2, <2>1 DEF Fields, NoJob
  <2>3. QED
    BY <1>1, <1>4, <2>2
<1>5. QED
  BY <1>3, <1>4

LEMMA PhaseFields ==
  ASSUME NEW j, DOMAIN j = Fields, NEW p, NEW n, n = [j EXCEPT !.phase = p]
  PROVE  /\ n.op = j.op /\ n.policy = j.policy /\ n.before = j.before
         /\ n.foreign = j.foreign /\ n.failed = j.failed
         /\ n.items = j.items /\ n.done = j.done /\ n.phase = p /\ n.id = j.id
BY DEF Fields, NoJob

LEMMA PhaseIdFields ==
  ASSUME NEW j, DOMAIN j = Fields, NEW p, NEW i, NEW n, n = [j EXCEPT !.phase = p, !.id = i]
  PROVE  /\ n.op = j.op /\ n.policy = j.policy /\ n.before = j.before
         /\ n.foreign = j.foreign /\ n.failed = j.failed
         /\ n.items = j.items /\ n.done = j.done /\ n.phase = p /\ n.id = i
BY DEF Fields, NoJob

(* What is thrown leaves the slug of the item aside. *)
LEMMA ImportThrown ==
  ASSUME JobsInv, NEW c \in Clients, ImportOK(c), NEW lib, NEW last, NEW n, n = Thrown(c),
         job[c].phase \in ImportPhases \ {"done", "failed"},
         \A s \in Slugs : History(lib, s) = History(prompts, s)
  PROVE  Imported(lib, last, n)
<1>1. PICK j : j = job[c]
  OBVIOUS
<1>2. DOMAIN j = Fields /\ j.items \in Seq(Items) /\ j.items # <<>>
  BY <1>1 DEF JobsInv, JobOK, ItemsOK, ImportPhases, Handling
<1>3. /\ n.op = j.op /\ n.policy = j.policy /\ n.before = j.before
      /\ n.foreign = j.foreign /\ n.done = j.done
      /\ IF j.keepGoing
         THEN /\ n.failed = j.failed \cup {Head(j.items).slug}
              /\ n.phase = After(Tail(j.items))
         ELSE /\ n.failed = j.failed
              /\ n.items = j.items /\ n.phase = "failed"
  BY <1>1, <1>2, ThrownFields
<1>4. SUFFICES ASSUME j.op = "import"
               PROVE  Imported(lib, last, n)
  BY <1>3 DEF Imported
<1>5. j.done \in Seq(Items) /\ ToldOK(prompts, j) /\ BeforeOK(j)
  BY <1>1, <1>4 DEF ImportOK, Imported
<1>6. After(Tail(j.items)) \in {"next", "done"} /\ Head(j.items) \in Items
  BY <1>2, RestOfItems
<1>7. n.phase \in {"next", "done", "failed"}
  BY <1>3, <1>6
<1>8. ToldOK(lib, n)
  <2>1. ASSUME NEW s \in Slugs, s \notin n.foreign \cup n.failed \cup Stuck(n)
        PROVE  History(lib, s) = Grown(History(n.before, s), Named(Reached(n), s), n.policy)
    <3>1. s # Head(j.items).slug
      BY <1>2, <1>3, <2>1 DEF Stuck
    <3>2. s \notin j.foreign \cup j.failed \cup Stuck(j)
      <4>1. Stuck(j) = {}
        BY <1>1 DEF Stuck, ImportPhases
      <4>2. QED
        BY <1>3, <2>1, <4>1
    <3>3. History(lib, s) = Grown(History(j.before, s), Named(Reached(j), s), j.policy)
      BY <1>5, <3>2 DEF ToldOK
    <3>4. Named(Reached(j), s) = Named(j.done, s)
      <4>1. Named(Append(j.done, Head(j.items)), s) = Named(j.done, s)
        BY <1>5, <1>6, <3>1, NamedAppend
      <4>2. QED
        BY <4>1 DEF Reached
    <3>5. Reached(n) = n.done
      BY <1>7 DEF Reached
    <3>6. QED
      BY <1>3, <3>3, <3>4, <3>5
  <2>2. QED
    BY <1>3, <1>5, <2>1 DEF ToldOK
<1>9. TargetOK(lib, last, n)
  BY <1>7 DEF TargetOK
<1>10. BeforeOK(n)
  BY <1>3, <1>5 DEF BeforeOK
<1>11. QED
  BY <1>3, <1>5, <1>7, <1>8, <1>9, <1>10 DEF Imported, ImportPhases

(* An item whose versions are stored is one of those it got through. *)
LEMMA ImportStored ==
  ASSUME JobsInv, NEW c \in Clients, NEW lib, NEW last, NEW n, n = Stored(c),
         job[c].items # <<>>, job[c].done \in Seq(Items), BeforeOK(job[c]),
         \A s \in Slugs : History(job[c].before, s) \in Seq(Versions),
         \A s \in Slugs : s \notin job[c].foreign \cup job[c].failed =>
           History(lib, s) = Grown(History(job[c].before, s),
                                   Named(Append(job[c].done, Head(job[c].items)), s),
                                   job[c].policy)
  PROVE  Imported(lib, last, n)
<1>1. PICK j : j = job[c]
  OBVIOUS
<1>2. DOMAIN j = Fields /\ j.items \in Seq(Items) /\ j.items # <<>>
  BY <1>1 DEF JobsInv, JobOK, ItemsOK
<1>3. /\ n.op = j.op /\ n.policy = j.policy /\ n.before = j.before
      /\ n.foreign = j.foreign /\ n.failed = j.failed
      /\ n.phase = After(Tail(j.items)) /\ n.done = Append(j.done, Head(j.items))
  BY <1>1, <1>2, StoredFields
<1>4. n.phase \in {"next", "done"} /\ Head(j.items) \in Items
  BY <1>2, <1>3, RestOfItems
<1>5. n.done \in Seq(Items)
  BY <1>1, <1>3, <1>4, AppendProperties
<1>6. Reached(n) = n.done /\ Stuck(n) = {}
  BY <1>4 DEF Reached, Stuck
<1>7. ToldOK(lib, n)
  BY <1>1, <1>3, <1>6 DEF ToldOK
<1>8. TargetOK(lib, last, n)
  BY <1>4 DEF TargetOK
<1>9. BeforeOK(n)
  BY <1>1, <1>3 DEF BeforeOK
<1>10. QED
  BY <1>4, <1>5, <1>7, <1>8, <1>9 DEF Imported, ImportPhases

LEMMA CreatedHistory ==
  ASSUME RowsOK, NEW row \in Rows, NEW s, row.slug = s, IdsOf(s) = {},
         prompts' = With(prompts, lastId + 1, row), NEW t \in Slugs
  PROVE  /\ History(prompts, s) = <<>>
         /\ History(prompts', t) = IF t = s THEN row.versions ELSE History(prompts, t)
<1>1. /\ DOMAIN prompts' = DOMAIN prompts \cup {lastId + 1} /\ prompts'[lastId + 1] = row
      /\ \A i \in DOMAIN prompts : i # lastId + 1 => prompts'[i] = prompts[i]
  BY DEF With
<1>2. lastId \in Nat /\ \A i \in DOMAIN prompts : i <= lastId /\ i # lastId + 1
  BY DEF RowsOK
<1>3. \A i \in DOMAIN prompts : prompts[i].slug # s
  BY DEF IdsOf
<1>4. \A i, k \in DOMAIN prompts : prompts[i].slug = prompts[k].slug => i = k
  BY DEF RowsOK
<1>5. \A i \in DOMAIN prompts : prompts'[i] = prompts[i]
  BY <1>1, <1>2
<1>6. \A i, k \in DOMAIN prompts' : prompts'[i].slug = prompts'[k].slug => i = k
  BY <1>1, <1>3, <1>4, <1>5
<1>7. History(prompts, s) = <<>>
  BY <1>3, <1>4, HistoryOf
<1>8. CASE t = s
  <2>1. lastId + 1 \in DOMAIN prompts' /\ prompts'[lastId + 1].slug = s
    BY <1>1
  <2>2. QED
    BY <1>1, <1>6, <1>7, <1>8, <2>1, HistoryOf
<1>9. CASE t # s
  <2>1. CASE \E i \in DOMAIN prompts : prompts[i].slug = t
    <3>1. PICK i \in DOMAIN prompts : prompts[i].slug = t
      BY <2>1
    <3>2. i \in DOMAIN prompts' /\ prompts'[i] = prompts[i]
      BY <1>1, <1>5
    <3>3. History(prompts, t) = prompts[i].versions /\ History(prompts', t) = prompts'[i].versions
      BY <1>4, <1>6, <3>1, <3>2, HistoryOf
    <3>4. QED
      BY <1>7, <1>9, <3>2, <3>3
  <2>2. CASE \A i \in DOMAIN prompts : prompts[i].slug # t
    <3>1. \A i \in DOMAIN prompts' : prompts'[i].slug # t
      BY <1>1, <1>5, <1>9, <2>2
    <3>2. QED
      BY <1>4, <1>6, <1>7, <1>9, <2>2, <3>1, HistoryOf
  <2>3. QED
    BY <2>1, <2>2
<1>10. QED
  BY <1>8, <1>9

LEMMA EditedHistory ==
  ASSUME RowsOK, NEW id \in DOMAIN prompts, NEW row, row.slug = prompts[id].slug,
         prompts' = [prompts EXCEPT ![id] = row], NEW t
  PROVE  History(prompts', t) =
           IF t = row.slug THEN row.versions ELSE History(prompts, t)
<1>1. \A i, k \in DOMAIN prompts : prompts[i].slug = prompts[k].slug => i = k
  BY DEF RowsOK
<1>2. PICK lib : lib = prompts'
  OBVIOUS
<1>3. DOMAIN lib = DOMAIN prompts /\ lib[id] = row
      /\ \A i \in DOMAIN prompts : i # id => lib[i] = prompts[i]
  BY <1>2
<1>4. /\ \A i \in DOMAIN prompts : lib[i].slug = prompts[i].slug
      /\ \A i, k \in DOMAIN lib : lib[i].slug = lib[k].slug => i = k
  BY <1>1, <1>3
<1> SUFFICES History(lib, t) = IF t = row.slug THEN row.versions ELSE History(prompts, t)
  BY <1>2
<1>5. CASE t = row.slug
  BY <1>3, <1>4, <1>5, HistoryOf
<1>6. CASE t # row.slug /\ \E i \in DOMAIN prompts : prompts[i].slug = t
  <2>1. PICK i \in DOMAIN prompts : prompts[i].slug = t
    BY <1>6
  <2>2. i # id /\ lib[i] = prompts[i] /\ i \in DOMAIN lib
    BY <1>3, <1>6, <2>1
  <2>3. History(prompts, t) = prompts[i].versions /\ History(lib, t) = lib[i].versions
    BY <1>1, <1>4, <2>1, <2>2, HistoryOf
  <2>4. QED
    BY <1>6, <2>2, <2>3
<1>7. CASE t # row.slug /\ \A i \in DOMAIN prompts : prompts[i].slug # t
  <2>1. \A i \in DOMAIN lib : lib[i].slug # t
    BY <1>3, <1>4, <1>7
  <2>2. QED
    BY <1>1, <1>4, <1>7, <2>1, HistoryOf
<1>8. QED
  BY <1>5, <1>6, <1>7

(* What the steps of an import have in common: the item in hand. *)
LEMMA InHand ==
  ASSUME JobsInv, NEW c \in Clients, ImportOK(c), job[c].op = "import",
         job[c].phase \in Handling
  PROVE  /\ DOMAIN job[c] = Fields /\ job[c].items \in Seq(Items) /\ job[c].items # <<>>
         /\ Head(job[c].items) \in Items /\ Head(job[c].items).slug \in Slugs
         /\ job[c].done \in Seq(Items) /\ Stuck(job[c]) = {}
         /\ job[c].phase # "number" /\ job[c].policy \in Strategies
         /\ ToldOK(prompts, job[c]) /\ TargetOK(prompts, lastId, job[c]) /\ BeforeOK(job[c])
<1>1. PICK j : j = job[c]
  OBVIOUS
<1>2. DOMAIN j = Fields /\ j.items \in Seq(Items) /\ j.items # <<>> /\ j.policy \in Strategies
  BY <1>1 DEF JobsInv, JobOK, ItemsOK
<1>3. Head(j.items) \in Items
  BY <1>2, RestOfItems
<1>4. Head(j.items).slug \in Slugs
  BY <1>3 DEF Items
<1>5. /\ j.done \in Seq(Items) /\ j.phase \in ImportPhases
      /\ ToldOK(prompts, j) /\ TargetOK(prompts, lastId, j) /\ BeforeOK(j)
  BY <1>1 DEF ImportOK, Imported
<1>6. Stuck(j) = {} /\ j.phase # "number"
  BY <1>1, <1>5 DEF Stuck, Handling, ImportPhases
<1>7. QED
  BY <1>1, <1>2, <1>3, <1>4, <1>5, <1>6

(* A step to another phase that leaves the histories *)
LEMMA ImportOnward ==
  ASSUME JobsInv, NEW c \in Clients, ImportOK(c), job[c].op = "import", job[c].phase \in Handling \ {"tag"},
         NEW lib, NEW last, \A s \in Slugs : History(lib, s) = History(prompts, s),
         NEW p \in ImportPhases \ {"tag", "failed"}, NEW i, NEW n,
         n = [job[c] EXCEPT !.phase = p] \/ n = [job[c] EXCEPT !.phase = p, !.id = i],
         p \in {"update", "relabel", "version"} =>
           /\ job[c].policy = "addVersion" /\ n.id \in Nat /\ n.id <= last
           /\ n.id \in DOMAIN lib => lib[n.id].slug = Head(job[c].items).slug
  PROVE  Imported(lib, last, n)
<1>1. PICK j : j = job[c]
  OBVIOUS
<1>2. DOMAIN j = Fields /\ j.done \in Seq(Items) /\ ToldOK(prompts, j) /\ Stuck(j) = {} /\ BeforeOK(j)
  BY <1>1, InHand
<1>3. /\ n.op = j.op /\ n.policy = j.policy /\ n.before = j.before
      /\ n.foreign = j.foreign /\ n.failed = j.failed
      /\ n.items = j.items /\ n.done = j.done /\ n.phase = p
  <2>1. CASE n = [job[c] EXCEPT !.phase = p]
    BY <1>1, <1>2, <2>1, PhaseFields
  <2>2. CASE n = [job[c] EXCEPT !.phase = p, !.id = i]
    BY <1>1, <1>2, <2>2 DEF Fields, NoJob
  <2>3. QED
    BY <2>1, <2>2
<1>4. Reached(n) = Reached(j) /\ Stuck(n) = {}
  BY <1>1, <1>3 DEF Reached, Stuck
<1>5. ToldOK(lib, n)
  BY <1>2, <1>3, <1>4 DEF ToldOK
<1>6. TargetOK(lib, last, n)
  BY <1>1, <1>3 DEF TargetOK
<1>7. BeforeOK(n)
  BY <1>2, <1>3 DEF BeforeOK
<1>8. QED
  BY <1>2, <1>3, <1>5, <1>6, <1>7 DEF Imported

LEMMA ResolveImports ==
  ASSUME JobsInv, NEW c \in Clients, ImportOK(c), job[c].op = "import", Resolve(c)
  PROVE  Imported(prompts', lastId', job'[c])
<1>1. /\ prompts' = prompts /\ lastId' = lastId
      /\ job[c].phase = "next" /\ job[c].phase \in Handling \ {"tag"}
  BY DEF Resolve, In, Handling
<1>2. /\ job[c].items # <<>> /\ job[c].done \in Seq(Items) /\ Head(job[c].items) \in Items
      /\ Head(job[c].items).slug \in Slugs
      /\ ToldOK(prompts, job[c]) /\ Stuck(job[c]) = {} /\ job[c].policy \in Strategies
      /\ BeforeOK(job[c])
  BY <1>1, InHand
<1>3. PICK ids : ids = {id \in IdsOf(Item(c).slug) : Active(id)}
  OBVIOUS
<1>4. \/ /\ job[c].policy = "create" \/ ids = {}
         /\ Become(c, [job[c] EXCEPT !.phase = "create"], {})
      \/ job[c].policy = "skip" /\ ids # {} /\ Become(c, Stored(c), {})
      \/ /\ job[c].policy = "addVersion"
         /\ \E id \in ids : Become(c, [job[c] EXCEPT !.phase = "update", !.id = id], {})
  BY ZenonT(60), <1>2, <1>3 DEF Resolve, Strategies
<1>5. CASE Become(c, [job[c] EXCEPT !.phase = "create"], {})
  <2>1. job'[c] = [job[c] EXCEPT !.phase = "create"]
    BY <1>5 DEF Become
  <2>2. "create" \in ImportPhases \ {"tag", "failed"}
    BY DEF ImportPhases
  <2>3. QED
    BY <1>1, <2>1, <2>2, ImportOnward
<1>6. CASE job[c].policy = "skip" /\ ids # {} /\ Become(c, Stored(c), {})
  <2>1. PICK id \in DOMAIN prompts : prompts[id].slug = Head(job[c].items).slug
    BY <1>3, <1>6 DEF IdsOf, Item
  <2>2. prompts[id].versions # <<>> /\ \A i, k \in DOMAIN prompts : prompts[i].slug = prompts[k].slug => i = k
    BY <2>1 DEF JobsInv, RowsOK
  <2>3. History(prompts, Head(job[c].items).slug) # <<>>
    BY <2>1, <2>2, HistoryOf
  <2>4. \A s \in Slugs : History(job[c].before, s) \in Seq(Versions)
    BY <1>2 DEF ToldOK
  <2>5. ASSUME NEW s \in Slugs, s \notin job[c].foreign \cup job[c].failed
        PROVE  History(prompts, s) = Grown(History(job[c].before, s),
                                           Named(Append(job[c].done, Head(job[c].items)), s),
                                           job[c].policy)
    <3>1. Reached(job[c]) = job[c].done
      BY <1>1 DEF Reached
    <3>2. History(prompts, s) = Grown(History(job[c].before, s), Named(job[c].done, s), "skip")
      BY <1>2, <1>6, <2>5, <3>1 DEF ToldOK
    <3>3. /\ Named(job[c].done, s) \in Seq(Items)
          /\ Named(Append(job[c].done, Head(job[c].items)), s) =
               IF Head(job[c].items).slug = s
               THEN Append(Named(job[c].done, s), Head(job[c].items)) ELSE Named(job[c].done, s)
      BY <1>2, NamedAppend
    <3>4. CASE Head(job[c].items).slug # s
      BY <1>6, <3>2, <3>3, <3>4
    <3>5. CASE Head(job[c].items).slug = s
      <4>1. Grown(History(job[c].before, s), Named(job[c].done, s), "skip") # <<>>
        BY <2>3, <3>2, <3>5
      <4>2. Grown(History(job[c].before, s), Append(Named(job[c].done, s), Head(job[c].items)), "skip")
              = Grown(History(job[c].before, s), Named(job[c].done, s), "skip")
        BY <1>2, <2>4, <3>3, <4>1, GrownMore
      <4>3. QED
        BY <1>6, <3>2, <3>3, <3>5, <4>2
    <3>6. QED
      BY <3>4, <3>5
  <2>6. job'[c] = Stored(c)
    BY <1>6 DEF Become
  <2>7. QED
    BY <1>1, <1>2, <2>4, <2>5, <2>6, ImportStored
<1>7. CASE /\ job[c].policy = "addVersion"
           /\ \E id \in ids : Become(c, [job[c] EXCEPT !.phase = "update", !.id = id], {})
  <2>1. PICK id \in ids : Become(c, [job[c] EXCEPT !.phase = "update", !.id = id], {})
    BY <1>7
  <2>2. PICK n : n = [job[c] EXCEPT !.phase = "update", !.id = id]
    OBVIOUS
  <2>3. job'[c] = n
    BY <2>1, <2>2 DEF Become
  <2>4. n.id = id
    <3>1. DOMAIN job[c] = Fields
      BY <1>1, InHand
    <3>2. QED
      BY <2>2, <3>1 DEF Fields, NoJob
  <2>5. id \in DOMAIN prompts /\ prompts[id].slug = Head(job[c].items).slug
    BY <1>3 DEF IdsOf, Item
  <2>6. id \in Nat /\ id <= lastId
    BY <2>5 DEF JobsInv, RowsOK
  <2>7. "update" \in ImportPhases \ {"tag", "failed"}
    BY SMTT(60) DEF ImportPhases
  <2>8. Imported(prompts, lastId, n)
    BY <1>1, <1>7, <2>2, <2>4, <2>5, <2>6, <2>7, ImportOnward
  <2>9. QED
    BY <1>1, <2>3, <2>8
<1>8. QED
  BY <1>4, <1>5, <1>6, <1>7

LEMMA CreateRowImports ==
  ASSUME JobsInv, NEW c \in Clients, ImportOK(c), job[c].op = "import", CreateRow(c)
  PROVE  Imported(prompts', lastId', job'[c])
<1>1. job[c].phase = "create" /\ job[c].phase \in Handling
  BY DEF CreateRow, In, Handling
<1>2. PICK j, item, h : j = job[c] /\ item = Head(job[c].items) /\ h = Head(job[c].items).slug
  OBVIOUS
<1>3. /\ DOMAIN j = Fields /\ j.items # <<>> /\ item = Head(j.items) /\ h = item.slug
      /\ j.done \in Seq(Items) /\ item \in Items /\ h \in Slugs
      /\ ToldOK(prompts, j) /\ Stuck(j) = {} /\ BeforeOK(j)
  BY <1>1, <1>2, InHand
<1>4. PICK n : n = [j EXCEPT !.phase = "tag", !.id = lastId + 1] /\ job'[c] = n
  BY <1>2 DEF CreateRow, Become
<1>5. /\ n.op = j.op /\ n.policy = j.policy /\ n.before = j.before
      /\ n.foreign = j.foreign /\ n.failed = j.failed
      /\ n.items = j.items /\ n.done = j.done /\ n.phase = "tag"
  BY <1>3, <1>4 DEF Fields, NoJob
<1>6. PICK row : row = [slug |-> h, title |-> item.title, labels |-> {},
                        trashed |-> 0, versions |-> <<Version(item)>>]
  OBVIOUS
<1>7. row \in Rows /\ row.slug = h /\ row.versions = <<Version(item)>>
  <2>1. PICK vs : vs = <<Version(item)>>
    OBVIOUS
  <2>2. vs \in Seq(Versions)
    BY <1>3, <2>1, VersionIs
  <2>3. row = [slug |-> h, title |-> item.title, labels |-> {}, trashed |-> 0, versions |-> vs]
    BY <1>6, <2>1
  <2>4. item.title \in Titles
    BY <1>3 DEF Items
  <2>5. row \in Rows /\ row.slug = h /\ row.versions = vs
    BY <1>3, <2>2, <2>3, <2>4 DEF Rows
  <2>6. QED
    BY <2>1, <2>5
<1>8. IdsOf(h) = {} /\ prompts' = With(prompts, lastId + 1, row) /\ RowsOK
  BY <1>2, <1>6 DEF CreateRow, Creatable, Item, JobsInv
<1>9. ASSUME NEW s \in Slugs
      PROVE  /\ History(prompts, h) = <<>>
             /\ History(prompts', s) = IF s = h THEN <<Version(item)>> ELSE History(prompts, s)
  <2>1. /\ History(prompts, h) = <<>>
        /\ History(prompts', s) = IF s = h THEN row.versions ELSE History(prompts, s)
    <3>1. row \in Rows /\ row.slug = h
      BY <1>7
    <3>2. QED
      BY <1>8, <3>1, CreatedHistory
  <2>2. QED
    BY <1>7, <2>1
<1>10. Reached(n) = Append(j.done, item) /\ Stuck(n) = {} /\ Reached(j) = j.done
  BY <1>1, <1>2, <1>3, <1>5 DEF Reached, Stuck
<1>11. ASSUME NEW s \in Slugs, s \notin n.foreign \cup n.failed \cup Stuck(n)
       PROVE  History(prompts', s) = Grown(History(n.before, s), Named(Reached(n), s), n.policy)
  <2>1. PICK H, N : H = History(j.before, s) /\ N = Named(j.done, s)
    OBVIOUS
  <2>2. H \in Seq(Versions) /\ History(prompts, s) = Grown(H, N, j.policy)
    BY <1>3, <1>5, <1>10, <1>11, <2>1 DEF ToldOK
  <2>3. N \in Seq(Items) /\ Named(Append(j.done, item), s) = IF h = s THEN Append(N, item) ELSE N
    <3>1. j.done \in Seq(Items) /\ item \in Items /\ h = item.slug
      BY <1>3
    <3>2. QED
      BY ZenonT(60), <2>1, <3>1, NamedAppend
  <2>4. CASE s # h
    BY <1>5, <1>9, <1>10, <2>1, <2>2, <2>3, <2>4
  <2>5. CASE s = h
    <3>1. Grown(H, N, j.policy) = <<>>
      BY <1>3, <1>9, <2>2, <2>5
    <3>2. H = <<>> /\ N = <<>>
      BY <2>2, <2>3, <3>1, GrownNone
    <3>3. Grown(H, Append(N, item), j.policy) = <<Version(item)>>
      BY <1>3, <2>2, <2>3, <3>2, GrownFirst
    <3>4. QED
      BY <1>3, <1>5, <1>9, <1>10, <2>1, <2>3, <2>5, <3>3
  <2>6. QED
    BY <2>4, <2>5
<1>12. ToldOK(prompts', n)
  BY <1>3, <1>5, <1>11 DEF ToldOK
<1>13. TargetOK(prompts', lastId', n)
  BY <1>5 DEF TargetOK
<1>14. BeforeOK(n)
  BY <1>3, <1>5 DEF BeforeOK
<1>15. QED
  BY <1>3, <1>4, <1>5, <1>12, <1>13, <1>14 DEF Imported, ImportPhases

(* A row whose labels or title change keeps its history. *)
LEMMA LabelsLeaveHistory ==
  ASSUME RowsOK, NEW id,
         \/ UNCHANGED prompts
         \/ id \in DOMAIN prompts /\ \E v : prompts' = [prompts EXCEPT ![id].labels = v]
         \/ id \in DOMAIN prompts /\ \E v : prompts' = [prompts EXCEPT ![id].title = v]
  PROVE  \A s \in Slugs : History(prompts', s) = History(prompts, s)
<1>1. SUFFICES ASSUME NEW s \in Slugs
               PROVE  History(prompts', s) = History(prompts, s)
  OBVIOUS
<1>2. ASSUME id \in DOMAIN prompts, NEW row, row.slug = prompts[id].slug,
             row.versions = prompts[id].versions, prompts' = [prompts EXCEPT ![id] = row]
      PROVE  History(prompts', s) = History(prompts, s)
  <2>1. History(prompts', s) = IF s = row.slug THEN row.versions ELSE History(prompts, s)
    BY <1>2, EditedHistory
  <2>2. prompts[id].slug = s => History(prompts, s) = prompts[id].versions
    BY <1>2, HistoryOf DEF RowsOK
  <2>3. QED
    BY <1>2, <2>1, <2>2
<1>3. id \in DOMAIN prompts => prompts[id] \in Rows
  BY DEF RowsOK
<1>4. ASSUME id \in DOMAIN prompts, NEW v, prompts' = [prompts EXCEPT ![id].labels = v]
      PROVE  History(prompts', s) = History(prompts, s)
  <2>1. PICK old, row : old = prompts[id] /\ row = [old EXCEPT !.labels = v]
    OBVIOUS
  <2>2. old \in Rows
    BY <1>3, <1>4, <2>1
  <2>3. row.slug = old.slug /\ row.versions = old.versions
    BY <2>1, <2>2 DEF Rows
  <2>4. prompts' = [prompts EXCEPT ![id] = row]
    BY <1>4, <2>1
  <2>5. QED
    BY <1>2, <1>4, <2>1, <2>3, <2>4
<1>5. ASSUME id \in DOMAIN prompts, NEW v, prompts' = [prompts EXCEPT ![id].title = v]
      PROVE  History(prompts', s) = History(prompts, s)
  <2>1. PICK old, row : old = prompts[id] /\ row = [old EXCEPT !.title = v]
    OBVIOUS
  <2>2. old \in Rows
    BY <1>3, <1>5, <2>1
  <2>3. row.slug = old.slug /\ row.versions = old.versions
    BY <2>1, <2>2 DEF Rows
  <2>4. prompts' = [prompts EXCEPT ![id] = row]
    BY <1>5, <2>1
  <2>5. QED
    BY <1>2, <1>5, <2>1, <2>3, <2>4
<1>6. QED
  BY <1>4, <1>5

LEMMA TagRowImports ==
  ASSUME JobsInv, NEW c \in Clients, ImportOK(c), job[c].op = "import", TagRow(c)
  PROVE  Imported(prompts', lastId', job'[c])
<1>1. job[c].phase = "tag" /\ job[c].phase \in Handling
  BY DEF TagRow, In, Handling
<1>2. /\ job[c].items # <<>> /\ job[c].done \in Seq(Items)
      /\ ToldOK(prompts, job[c]) /\ Stuck(job[c]) = {} /\ BeforeOK(job[c])
  BY <1>1, InHand
<1>3. \A s \in Slugs : History(prompts', s) = History(prompts, s)
  BY LabelsLeaveHistory DEF TagRow, JobsInv
<1>4. job'[c] = Stored(c) \/ job'[c] = Thrown(c)
  BY DEF TagRow, Become
<1>5. CASE job'[c] = Stored(c)
  <2>1. Reached(job[c]) = Append(job[c].done, Head(job[c].items))
    BY <1>1 DEF Reached
  <2>2. \A s \in Slugs : s \notin job[c].foreign \cup job[c].failed =>
          History(prompts', s) = Grown(History(job[c].before, s),
                                       Named(Append(job[c].done, Head(job[c].items)), s),
                                       job[c].policy)
    BY <1>2, <1>3, <2>1 DEF ToldOK
  <2>3. \A s \in Slugs : History(job[c].before, s) \in Seq(Versions)
    BY <1>2 DEF ToldOK
  <2>4. QED
    BY <1>2, <1>5, <2>2, <2>3, ImportStored
<1>6. CASE job'[c] = Thrown(c)
  <2>1. job[c].phase \in ImportPhases \ {"done", "failed"}
    BY <1>1 DEF ImportPhases
  <2>2. QED
    BY <1>3, <1>6, <2>1, ImportThrown
<1>7. QED
  BY <1>4, <1>5, <1>6

LEMMA UpdateRowImports ==
  ASSUME JobsInv, NEW c \in Clients, ImportOK(c), job[c].op = "import", UpdateRow(c)
  PROVE  Imported(prompts', lastId', job'[c])
<1>1. job[c].phase = "update" /\ job[c].phase \in Handling \ {"tag"}
  BY DEF UpdateRow, In, Handling
<1>2. DOMAIN job[c] = Fields /\ TargetOK(prompts, lastId, job[c])
  BY <1>1, InHand
<1>3. PICK id : id = job[c].id
  OBVIOUS
<1>4. id \in DOMAIN prompts /\ prompts' = [prompts EXCEPT ![id].title = Item(c).title] /\ lastId' = lastId
  BY <1>3 DEF UpdateRow, Active
<1>5. \A s \in Slugs : History(prompts', s) = History(prompts, s)
  BY <1>4, LabelsLeaveHistory DEF JobsInv
<1>6. PICK n : n = [job[c] EXCEPT !.phase = "relabel"] /\ job'[c] = n
  BY DEF UpdateRow, Become
<1>7. n.id = id
  BY <1>2, <1>3, <1>6, PhaseFields
<1>8. prompts[id] \in Rows
  BY <1>4 DEF JobsInv, RowsOK
<1>9. id \in DOMAIN prompts' => prompts'[id].slug = prompts[id].slug
  BY <1>4, <1>8 DEF Rows
<1>10. /\ job[c].policy = "addVersion" /\ id \in Nat /\ id <= lastId
       /\ id \in DOMAIN prompts' => prompts'[id].slug = Head(job[c].items).slug
  BY <1>1, <1>2, <1>3, <1>4, <1>9 DEF TargetOK
<1>11. "relabel" \in ImportPhases \ {"tag", "failed"}
  BY DEF ImportPhases
<1>12. PICK lib, last : lib = prompts' /\ last = lastId'
  BY SMTT(60)
<1>13. Imported(lib, last, n)
  BY <1>1, <1>4, <1>5, <1>6, <1>7, <1>10, <1>11, <1>12, ImportOnward
<1>14. QED
  BY <1>6, <1>12, <1>13

LEMMA RelabelImports ==
  ASSUME JobsInv, NEW c \in Clients, ImportOK(c), job[c].op = "import", Relabel(c)
  PROVE  Imported(prompts', lastId', job'[c])
<1>1. job[c].phase = "relabel" /\ job[c].phase \in Handling \ {"tag"}
  BY DEF Relabel, In, Handling
<1>2. DOMAIN job[c] = Fields /\ TargetOK(prompts, lastId, job[c])
  BY <1>1, InHand
<1>3. PICK id : id = job[c].id
  OBVIOUS
<1>4. /\ lastId' = lastId
      /\ \/ prompts' = prompts
         \/ id \in DOMAIN prompts /\ prompts' = [prompts EXCEPT ![id].labels = Item(c).labels]
  BY <1>3 DEF Relabel
<1>5. \A s \in Slugs : History(prompts', s) = History(prompts, s)
  BY <1>4, LabelsLeaveHistory DEF JobsInv
<1>6. job'[c] = [job[c] EXCEPT !.phase = "version"] \/ job'[c] = Thrown(c)
  BY DEF Relabel, Become, AfterLabels
<1>7. CASE job'[c] = [job[c] EXCEPT !.phase = "version"]
  <2>1. PICK n : n = [job[c] EXCEPT !.phase = "version"] /\ job'[c] = n
    BY <1>7
  <2>2. n.id = id
    BY <1>2, <1>3, <2>1, PhaseFields
  <2>3. id \in DOMAIN prompts' => id \in DOMAIN prompts /\ prompts'[id].slug = prompts[id].slug
    <3>1. id \in DOMAIN prompts => prompts[id] \in Rows
      BY DEF JobsInv, RowsOK
    <3>2. QED
      BY <1>4, <3>1 DEF Rows
  <2>4. /\ job[c].policy = "addVersion" /\ id \in Nat /\ id <= lastId
        /\ id \in DOMAIN prompts' => prompts'[id].slug = Head(job[c].items).slug
    BY <1>1, <1>2, <1>3, <2>3 DEF TargetOK
  <2>5. "version" \in ImportPhases \ {"tag", "failed"}
    BY SMTT(60) DEF ImportPhases
  <2>6. PICK lib, last : lib = prompts' /\ last = lastId'
    OBVIOUS
  <2>7. Imported(lib, last, n)
    BY <1>1, <1>4, <1>5, <2>1, <2>2, <2>4, <2>5, <2>6, ImportOnward
  <2>8. QED
    BY <2>1, <2>6, <2>7
<1>8. CASE job'[c] = Thrown(c)
  <2>1. job[c].phase \in ImportPhases \ {"done", "failed"}
    BY <1>1 DEF ImportPhases
  <2>2. QED
    BY <1>5, <1>8, <2>1, ImportThrown
<1>9. QED
  BY <1>6, <1>7, <1>8

LEMMA AddVersionImports ==
  ASSUME JobsInv, NEW c \in Clients, ImportOK(c), job[c].op = "import", AddVersion(c)
  PROVE  Imported(prompts', lastId', job'[c])
<1>1. job[c].phase = "version" /\ job[c].phase \in Handling
  BY DEF AddVersion, In, Handling
<1>2. PICK j, item, id : j = job[c] /\ item = Head(job[c].items) /\ id = job[c].id
  OBVIOUS
<1>3. /\ j.items # <<>> /\ item \in Items /\ j.done \in Seq(Items) /\ Stuck(j) = {}
      /\ ToldOK(prompts, j) /\ TargetOK(prompts, lastId, j) /\ BeforeOK(j)
  BY <1>1, <1>2, InHand
<1>4. id \in DOMAIN prompts /\ job'[c] = Stored(c)
      /\ prompts' = [prompts EXCEPT ![id].versions = Append(prompts[id].versions, Version(item))]
  BY <1>2 DEF AddVersion, Active, Become, Item
<1>5. j.policy = "addVersion" /\ prompts[id].slug = item.slug /\ prompts[id] \in Rows /\ RowsOK
  BY <1>1, <1>2, <1>3, <1>4 DEF TargetOK, JobsInv, RowsOK
<1>6. PICK old, row : old = prompts[id]
        /\ row = [old EXCEPT !.versions = Append(prompts[id].versions, Version(item))]
  OBVIOUS
<1>7. prompts' = [prompts EXCEPT ![id] = row]
  BY <1>4, <1>6
<1>8. row.slug = item.slug /\ row.versions = Append(old.versions, Version(item))
  BY <1>5, <1>6 DEF Rows
<1>9. History(prompts, item.slug) = old.versions
  BY <1>4, <1>5, <1>6, HistoryOf DEF RowsOK
<1>10. ASSUME NEW s
       PROVE  History(prompts', s) = IF s = item.slug
                                     THEN Append(History(prompts, s), Version(item))
                                     ELSE History(prompts, s)
  <2>1. History(prompts', s) = IF s = row.slug THEN row.versions ELSE History(prompts, s)
    <3>1. RowsOK /\ id \in DOMAIN prompts /\ row.slug = prompts[id].slug
      BY <1>4, <1>5, <1>8
    <3>2. QED
      BY ZenonT(60), <1>7, <3>1, EditedHistory
  <2>2. QED
    BY <1>8, <1>9, <2>1
<1>11. ASSUME NEW s \in Slugs, s \notin j.foreign \cup j.failed
       PROVE  History(prompts', s) =
                Grown(History(j.before, s), Named(Append(j.done, item), s), j.policy)
  <2>1. PICK H, N : H = History(j.before, s) /\ N = Named(j.done, s)
    OBVIOUS
  <2>2. H \in Seq(Versions) /\ History(prompts, s) = Grown(H, N, j.policy)
    <3>1. Reached(j) = j.done
      BY <1>1, <1>2 DEF Reached
    <3>2. QED
      BY <1>3, <1>11, <2>1, <3>1 DEF ToldOK
  <2>3. N \in Seq(Items) /\ Named(Append(j.done, item), s) = IF item.slug = s THEN Append(N, item) ELSE N
    BY ZenonT(60), <1>3, <2>1, NamedAppend
  <2>4. Grown(H, Append(N, item), j.policy) = Append(Grown(H, N, j.policy), Version(item))
    <3>1. j.policy # "skip"
      BY <1>5
    <3>2. QED
      BY <1>3, <2>2, <2>3, <3>1, GrownMore
  <2>5. QED
    BY <1>10, <2>1, <2>2, <2>3, <2>4
<1>12. \A s \in Slugs : History(j.before, s) \in Seq(Versions)
  BY <1>3 DEF ToldOK
<1>13. PICK lib, last, n : lib = prompts' /\ last = lastId' /\ n = job'[c]
  OBVIOUS
<1>14. \A s \in Slugs : s \notin job[c].foreign \cup job[c].failed =>
         History(lib, s) = Grown(History(job[c].before, s),
                                 Named(Append(job[c].done, Head(job[c].items)), s),
                                 job[c].policy)
  BY <1>2, <1>11, <1>13
<1>15. Imported(lib, last, n)
  BY <1>2, <1>3, <1>4, <1>12, <1>13, <1>14, ImportStored
<1>16. QED
  BY <1>13, <1>15

LEMMA ThrowImports ==
  ASSUME JobsInv, NEW c \in Clients, ImportOK(c), job[c].op = "import",
         Refuse(c) \/ Gone(c) \/ SidecarFails(c)
  PROVE  Imported(prompts', lastId', job'[c])
<1>1. job[c].phase \in Handling \ {"next"}
  BY DEF Refuse, Gone, SidecarFails, In, Handling
<1>2. job[c].phase \in ImportPhases \ {"done", "failed"}
  BY <1>1, InHand DEF Handling, ImportPhases
<1>3. job'[c] = Thrown(c) /\ prompts' = prompts
  BY DEF Refuse, Gone, SidecarFails, Throw, Become
<1>4. QED
  BY <1>2, <1>3, ImportThrown

LEMMA ImportStepImports ==
  ASSUME JobsInv, NEW c \in Clients, ImportOK(c), job[c].op = "import", ImportStep(c)
  PROVE  Imported(prompts', lastId', job'[c])
BY ResolveImports, CreateRowImports, TagRowImports, UpdateRowImports, RelabelImports,
   AddVersionImports, ThrowImports DEF ImportStep

-----------------------------------------------------------------------------
(* No other step of a job makes an import of it. *)

OpStays(c) == job'[c].op = job[c].op

(* What a migration has read is only there while it has these phases. *)
Reading == {"taggings", "migrate"}
NotReading(c) == job'[c].phase \notin Reading

LEMMA OpOfStored ==
  ASSUME NEW c, DOMAIN job[c] = Fields
  PROVE  /\ Stored(c).op = job[c].op /\ Thrown(c).op = job[c].op
         /\ Stored(c).phase \notin Reading /\ Thrown(c).phase \notin Reading
<1>1. Stored(c).op = job[c].op /\ Thrown(c).op = job[c].op
  BY StoredFields, ThrownFields
<1>2. \A items : After(items) \in {"done", "next"}
  BY DEF After
<1>3. Stored(c).phase \in {"done", "next"} /\ Thrown(c).phase \in {"done", "next", "failed"}
  BY <1>2, StoredFields, ThrownFields
<1>4. QED
  BY <1>1, <1>3 DEF Reading

LEMMA ImportOpStays ==
  ASSUME NEW c \in Clients, DOMAIN job[c] = Fields, JobOK(job[c]), ImportStep(c)
  PROVE  OpStays(c) /\ NotReading(c)
<1>1. /\ Stored(c).op = job[c].op /\ Thrown(c).op = job[c].op
      /\ Stored(c).phase \notin Reading /\ Thrown(c).phase \notin Reading
  BY OpOfStored
<1>2. "op" \in DOMAIN job[c] /\ "phase" \in DOMAIN job[c]
  BY DEF Fields, NoJob
<1> USE <1>1, <1>2 DEF Become, OpStays, NotReading, Reading
<1>3. CASE Resolve(c)
  <2>1. \/ job'[c] = [job[c] EXCEPT !.phase = "create"]
        \/ job'[c] = Stored(c)
        \/ \E id : job'[c] = [job[c] EXCEPT !.phase = "update", !.id = id]
    <3>1. PICK ids : ids = {id \in IdsOf(Item(c).slug) : Active(id)}
      OBVIOUS
    <3>2. CASE job[c].policy = "create" \/ ids = {}
      BY <1>3, <3>1, <3>2 DEF Resolve
    <3>3. CASE job[c].policy = "skip" /\ ids # {}
      BY ZenonT(60), <1>3, <3>1, <3>3 DEF Resolve
    <3>4. CASE job[c].policy = "addVersion" /\ ids # {}
      BY ZenonT(60), <1>3, <3>1, <3>4 DEF Resolve
    <3>5. job[c].policy \in Strategies
      BY <1>3 DEF Resolve, In, JobOK, PhaseOK
    <3>6. QED
      BY <3>2, <3>3, <3>4, <3>5 DEF Strategies
  <2>2. QED
    BY ZenonT(60), <2>1
<1>4. CASE CreateRow(c)
  BY <1>4 DEF CreateRow
<1>5. CASE Refuse(c) \/ Gone(c) \/ SidecarFails(c)
  BY <1>5 DEF Refuse, Gone, SidecarFails, Throw
<1>6. CASE TagRow(c)
  BY <1>6 DEF TagRow
<1>7. CASE UpdateRow(c)
  BY <1>7 DEF UpdateRow
<1>8. CASE Relabel(c)
  BY <1>8 DEF Relabel, AfterLabels
<1>9. CASE AddVersion(c)
  BY <1>9 DEF AddVersion
<1>10. QED
  BY <1>3, <1>4, <1>5, <1>6, <1>7, <1>8, <1>9 DEF ImportStep

LEMMA ToolOpStays ==
  ASSUME NEW c \in Clients, DOMAIN job[c] = Fields, ToolStep(c)
  PROVE  OpStays(c) /\ NotReading(c)
<1>1. /\ Stored(c).op = job[c].op /\ Thrown(c).op = job[c].op
      /\ Stored(c).phase \notin Reading /\ Thrown(c).phase \notin Reading
  BY OpOfStored
<1>2. "op" \in DOMAIN job[c] /\ "phase" \in DOMAIN job[c]
  BY DEF Fields, NoJob
<1> USE <1>1, <1>2 DEF Become, OpStays, NotReading, Reading, Writes, Finish, Throw
<1>3. CASE ReadForWrite(c) \/ ReadForCopy(c)
  BY <1>3 DEF ReadForWrite, ReadForCopy
<1>4. CASE ReadForConversion(c)
  BY <1>4 DEF ReadForConversion
<1>5. CASE NotFound(c) \/ NotInTrash(c)
  BY <1>5 DEF NotFound, NotInTrash
<1>6. CASE ReadForUpdate(c)
  BY <1>6 DEF ReadForUpdate
<1>7. CASE ReadForEdit(c)
  BY <1>7 DEF ReadForEdit
<1>8. CASE Unlabel(c)
  BY <1>8 DEF Unlabel
<1>9. CASE GoneAlready(c) \/ SoftDelete(c) \/ PermanentlyDelete(c)
  BY <1>9 DEF GoneAlready, SoftDelete, PermanentlyDelete
<1>10. CASE ListTrash(c)
  BY <1>10 DEF ListTrash
<1>11. CASE RestoreTrash(c)
  BY <1>11 DEF RestoreTrash
<1>12. QED
  BY <1>3, <1>4, <1>5, <1>6, <1>7, <1>8, <1>9, <1>10, <1>11 DEF ToolStep

LEMMA UpkeepOpStays ==
  ASSUME NEW c \in Clients, DOMAIN job[c] = Fields, UpkeepStep(c)
  PROVE  OpStays(c) /\ (NotReading(c) \/ ReadTags(c) \/ ReadTaggings(c))
<1>1. /\ Stored(c).op = job[c].op /\ Thrown(c).op = job[c].op
      /\ Stored(c).phase \notin Reading /\ Thrown(c).phase \notin Reading
  BY OpOfStored
<1>2. "op" \in DOMAIN job[c] /\ "phase" \in DOMAIN job[c]
  BY DEF Fields, NoJob
<1> USE <1>1, <1>2 DEF Become, OpStays, NotReading, Reading, Finish, Throw
<1>3. CASE RunDiagnostics(c)
  BY ZenonT(60), <1>3 DEF RunDiagnostics
<1>4. ASSUME NEW id, Repair(c, id)
      PROVE  OpStays(c) /\ NotReading(c)
  BY ZenonT(60), <1>4 DEF Repair
<1>5. CASE ListAll(c)
  BY <1>5 DEF ListAll, Listed
<1>6. CASE ExportBundle(c)
  BY ZenonT(60), <1>6 DEF ExportBundle
<1>7. ASSUME NEW id, ExportFile(c, id)
      PROVE  OpStays(c) /\ NotReading(c)
  BY ZenonT(60), <1>7 DEF ExportFile
<1>8. CASE SnapshotPrompts(c) \/ SnapshotVersions(c) \/ NoSnapshot(c)
  BY <1>8 DEF SnapshotPrompts, SnapshotVersions, NoSnapshot
<1>9. CASE ClearPrompts(c) \/ ClearIndex(c)
  BY <1>9 DEF ClearPrompts, ClearIndex
<1>10. CASE ReadTags(c) \/ ReadTaggings(c)
  BY <1>10 DEF ReadTags, ReadTaggings
<1>11. CASE Migrate(c)
  BY <1>11 DEF Migrate
<1>12. QED
  BY <1>3, <1>4, <1>5, <1>6, <1>7, <1>8, <1>9, <1>10, <1>11 DEF UpkeepStep

(* The other jobs have phases or operations of their own. *)
LEMMA OnlyImportSteps ==
  ASSUME NEW c \in Clients, ImportOK(c), job[c].op = "import"
  PROVE  ~ToolStep(c) /\ ~UpkeepStep(c)
<1>1. job[c].phase \in ImportPhases
  BY DEF ImportOK, Imported
<1>2. ~ToolStep(c)
  BY SMTT(60), <1>1 DEF ToolStep, ImportPhases, In, ReadForWrite, ReadForCopy, ReadForConversion, NotFound,
     ReadForUpdate, ReadForEdit, Unlabel, GoneAlready, SoftDelete, PermanentlyDelete,
     ListTrash, RestoreTrash, NotInTrash
<1>3. ~UpkeepStep(c)
  BY <1>1 DEF UpkeepStep, ImportPhases, In, RunDiagnostics, Repair, ListAll, Listed,
     ExportBundle, ExportFile, SnapshotPrompts, SnapshotVersions, NoSnapshot, ClearPrompts,
     ClearIndex, ReadTags, ReadTaggings, Migrate
<1>4. QED
  BY <1>2, <1>3

LEMMA StepOfJobImports ==
  ASSUME JobsInv, NEW c \in Clients, ImportOK(c), Step(c)
  PROVE  ImportOK(c)'
<1>1. SUFFICES Imported(prompts', lastId', job'[c])
  BY DEF ImportOK
<1>2. DOMAIN job[c] = Fields /\ JobOK(job[c])
  BY DEF JobsInv, JobOK
<1>3. CASE End(c)
  <2>1. job'[c].op = "none"
    BY <1>3, NoJobOK DEF End, Become
  <2>2. QED
    BY <2>1 DEF Imported
<1>4. CASE ~End(c) /\ job[c].op = "import"
  BY <1>4, OnlyImportSteps, ImportStepImports DEF Step
<1>5. CASE ~End(c) /\ job[c].op # "import"
  <2>1. OpStays(c)
    BY <1>2, <1>5, ImportOpStays, ToolOpStays, UpkeepOpStays DEF Step
  <2>2. QED
    BY <1>5, <2>1 DEF OpStays, Imported
<1>6. QED
  BY <1>3, <1>4, <1>5

-----------------------------------------------------------------------------
(* What becomes of the imports *)

LEMMA OpenedRest ==
  ASSUME NEW request, NEW id, NEW n, OpenedAs(request, id, n)
  PROVE  n.before = prompts /\ n.failed = {} /\ n.foreign = {}
<1>1. PICK items, op, left, phase, policy, keepGoing :
        /\ items = ItemsOf(request) /\ op = OpOf(request)
        /\ left = LeftOf(request)
        /\ phase = FirstPhase(request.op, ItemsOf(request))
        /\ policy = request.policy /\ keepGoing = request.keepGoing
  OBVIOUS
<1>2. Opened(request) =
        [NoJob EXCEPT !.op = op, !.policy = policy, !.keepGoing = keepGoing, !.items = items,
                      !.before = prompts, !.left = left, !.phase = phase]
  BY <1>1 DEF Opened, OpOf, ItemsOf, LeftOf
<1>3. PICK m : m = Opened(request)
  OBVIOUS
<1>4. DOMAIN m = Fields /\ m.before = prompts /\ m.failed = {} /\ m.foreign = {}
  BY <1>2, <1>3 DEF Fields, NoJob
<1>5. n = [m EXCEPT !.id = id]
  BY <1>3 DEF OpenedAs
<1>6. QED
  BY <1>4, <1>5 DEF Fields, NoJob

LEMMA BeginImports ==
  ASSUME JobsInv, NEW c \in Clients, NEW request \in Requests, Begin(c, request)
  PROVE  ImportOK(c)'
<1>1. PICK id : Become(c, [Opened(request) EXCEPT !.id = id], {})
  BY DEF Begin
<1>2. PICK n : OpenedAs(request, id, n) /\ n = job'[c]
  BY <1>1 DEF OpenedAs, Become
<1>3. /\ n.op = OpOf(request) /\ n.done = <<>> /\ n.before = prompts
      /\ n.failed = {} /\ n.foreign = {}
      /\ n.phase = FirstPhase(request.op, ItemsOf(request))
  BY <1>2, OpenedFields, OpenedRest DEF NoJob
<1>4. SUFFICES ASSUME n.op = "import"
               PROVE  n.phase \in ImportPhases /\ n.done \in Seq(Items)
                      /\ BeforeOK(n) /\ ToldOK(prompts', n) /\ TargetOK(prompts', lastId', n)
  BY <1>2 DEF ImportOK, Imported
<1>5. n.phase \in {"next", "done"}
  BY <1>3, <1>4 DEF OpOf, FirstPhase, After
<1>6. Reached(n) = <<>> /\ Stuck(n) = {} /\ prompts' = prompts
  BY <1>3, <1>5 DEF Reached, Stuck, Begin
<1>7. ASSUME NEW s \in Slugs
      PROVE  History(prompts, s) \in Seq(Versions)
             /\ History(prompts, s) = Grown(History(prompts, s), Named(<<>>, s), n.policy)
  <2>1. History(prompts, s) \in Seq(Versions)
    <3>1. /\ \A i, k \in DOMAIN prompts : prompts[i].slug = prompts[k].slug => i = k
          /\ \A i \in DOMAIN prompts : prompts[i].versions \in Seq(Versions)
      BY RowFields DEF JobsInv, RowsOK
    <3>2. CASE \E i \in DOMAIN prompts : prompts[i].slug = s
      BY <3>1, <3>2, HistoryOf
    <3>3. CASE \A i \in DOMAIN prompts : prompts[i].slug # s
      BY <3>1, <3>3, HistoryOf, EmptySeq
    <3>4. QED
      BY <3>2, <3>3
  <2>2. QED
    BY <2>1, NamedEmpty, GrownNone, EmptySeq
<1>8. ToldOK(prompts', n)
  BY <1>3, <1>6, <1>7 DEF ToldOK
<1>9. TargetOK(prompts', lastId', n)
  BY <1>5 DEF TargetOK
<1>10. BeforeOK(n)
  BY <1>3, RowFields DEF BeforeOK, JobsInv, RowsOK
<1>11. QED
  BY <1>3, <1>5, <1>8, <1>9, <1>10, EmptySeq DEF ImportPhases

LEMMA SpreadImports ==
  ASSUME JobsInv, ImportsInv, NEW own, Kept(own),
         \A c \in Clients \cap own : ImportOK(c)'
  PROVE  ImportsInv'
<1>1. PICK touched : Spread(touched, own)
  BY DEF Kept
<1>2. ASSUME NEW d \in Clients \ own
      PROVE  ImportOK(d)'
  BY <1>1, OthersImport DEF Spread, ImportsInv
<1>3. QED
  BY <1>2 DEF ImportsInv

LEMMA NextImports ==
  ASSUME JobsInv, ImportsInv, [Next]_vars
  PROVE  ImportsInv'
<1>1. ASSUME UNCHANGED <<prompts, lastId, bundle, files, job>>
      PROVE  ImportsInv'
  BY <1>1, SameKeeps, SpreadImports
<1>2. ASSUME NEW c \in Clients, NEW request \in Requests, Begin(c, request)
      PROVE  ImportsInv'
  <2>1. Kept({c}) /\ ImportOK(c)'
    BY <1>2, BeginKeeps, BeginImports
  <2>2. QED
    BY <2>1, SpreadImports
<1>3. ASSUME NEW c \in Clients, Step(c)
      PROVE  ImportsInv'
  <2>1. Kept({c}) /\ ImportOK(c)'
    BY <1>3, StepOfJobKeeps, StepOfJobImports DEF ImportsInv
  <2>2. QED
    BY <2>1, SpreadImports
<1>4. ASSUME NEW c \in Clients, Crash(c)
      PROVE  ImportsInv'
  <2>1. job'[c] = NoJob
    BY <1>4 DEF Crash, Become
  <2>2. ImportOK(c)'
    BY <2>1, NoJobOK DEF ImportOK, Imported
  <2>3. QED
    BY <1>4, <2>2, CrashKeeps, SpreadImports
<1>5. CASE Others
  <2>1. ASSUME NEW id \in DOMAIN prompts, NEW v \in Desktop, DesktopAdds(id, v)
        PROVE  ImportsInv'
    BY <2>1, DesktopKeeps, SpreadImports
  <2>2. ASSUME LegacyMoves \/ \E label \in AppTags : AppTag(label)
        PROVE  ImportsInv'
    BY <1>1, <2>2 DEF LegacyMoves, AppTag, Outside
  <2>3. QED
    BY <1>4, <1>5, <2>1, <2>2 DEF Others
<1>6. QED
  BY <1>1, <1>2, <1>3, <1>5 DEF Next, vars

LEMMA InitImports ==
  ASSUME Init
  PROVE  ImportsInv
BY NoJobOK DEF Init, ImportsInv, ImportOK, Imported

(* The history that an import leaves is the one its items say. *)
LEMMA PrefixHeld ==
  ASSUME JobsInv, NEW c \in Clients, ImportOK(c), job[c].op = "import", NEW s \in Slugs,
         s \notin job[c].foreign \cup job[c].failed,
         job[c].items = <<>> \/ job[c].phase = "next" \/ s # Head(job[c].items).slug
  PROVE  History(prompts, s) =
           Grown(History(job[c].before, s), Named(job[c].done, s), job[c].policy)
<1>1. PICK j : j = job[c]
  OBVIOUS
<1>2. j.done \in Seq(Items) /\ j.items \in Seq(Items) /\ ToldOK(prompts, j)
      /\ (j.phase \in Handling => j.items # <<>>)
  BY <1>1 DEF ImportOK, Imported, JobsInv, JobOK, ItemsOK
<1>3. s \notin Stuck(j)
  BY <1>1 DEF Stuck
<1>4. History(prompts, s) = Grown(History(j.before, s), Named(Reached(j), s), j.policy)
  BY <1>1, <1>2, <1>3 DEF ToldOK
<1>5. Named(Reached(j), s) = Named(j.done, s)
  <2>1. CASE j.phase = "tag"
    <3>1. j.items # <<>> /\ Head(j.items) \in Items /\ s # Head(j.items).slug
      BY <1>1, <1>2, <2>1, RestOfItems DEF Handling
    <3>2. Named(Append(j.done, Head(j.items)), s) = Named(j.done, s)
      BY <1>2, <3>1, NamedAppend
    <3>3. QED
      BY <2>1, <3>2 DEF Reached
  <2>2. CASE j.phase # "tag"
    BY <2>2 DEF Reached
  <2>3. QED
    BY <2>1, <2>2
<1>6. QED
  BY <1>1, <1>4, <1>5

-----------------------------------------------------------------------------
(* The target of the migration.  Its tags have ids of their own, each      *)
(* tagging has one of them, and the application has not given a label      *)
(* whose id a tag already has: the tag and its tagging come together.      *)

AnyTag == Tags \cup {[id |-> label.id, name |-> label.name, kind |-> label.kind] : label \in AppTags}
Holds(tags, id) == \E i \in DOMAIN tags : tags[i].id = id

TargetTags(tags, taggings) ==
  /\ tags \in Seq(AnyTag)
  /\ \A i, k \in DOMAIN tags : tags[i].id = tags[k].id => i = k
  /\ \A t \in taggings : Holds(tags, t.tag)
  /\ \A label \in AppTags : Holds(tags, label.id) => \E t \in taggings : t.id = label.id

(* Where a merge stands *)
StateFields == {"tags", "taggings", "ids", "sound"}
MergeOK(state) ==
  /\ DOMAIN state = StateFields
  /\ TargetTags(state.tags, state.taggings)
  /\ \A id \in DOMAIN state.ids : Holds(state.tags, state.ids[id])

LEMMA FirstIs ==
  ASSUME NEW n \in Nat, NEW S \in SUBSET (1..n), S # {}
  PROVE  First(S) \in S
<1>1. S \in SUBSET Nat
  OBVIOUS
<1>2. \E i \in S : \A j \in S : i <= j
  BY <1>1, SmallestOf
<1>3. QED
  BY <1>2 DEF First

(* A sequence of tags with one more, or with one changed *)
LEMMA TagChanged ==
  ASSUME NEW tags \in Seq(AnyTag), NEW k \in DOMAIN tags, NEW tag \in AnyTag, tag.id = tags[k].id,
         NEW new, new = [tags EXCEPT ![k] = tag]
  PROVE  /\ new \in Seq(AnyTag) /\ DOMAIN new = DOMAIN tags
         /\ \A i \in DOMAIN tags : new[i].id = tags[i].id
<1>1. tags \in [1..Len(tags) -> AnyTag] /\ Len(tags) \in Nat /\ DOMAIN tags = 1..Len(tags)
  OBVIOUS
<1>2. new \in [1..Len(tags) -> AnyTag]
  BY <1>1
<1>3. new \in Seq(AnyTag)
  BY <1>1, <1>2
<1>4. QED
  BY <1>1, <1>3

LEMMA TagAdded ==
  ASSUME NEW tags \in Seq(AnyTag), NEW tag \in AnyTag, NEW new, new = Append(tags, tag)
  PROVE  /\ new \in Seq(AnyTag) /\ DOMAIN new = DOMAIN tags \cup {Len(tags) + 1}
         /\ Len(tags) + 1 \notin DOMAIN tags
         /\ new[Len(tags) + 1] = tag /\ \A i \in DOMAIN tags : new[i] = tags[i]
<1>1. /\ new \in Seq(AnyTag) /\ Len(new) = Len(tags) + 1
      /\ \A i \in 1..Len(tags) : new[i] = tags[i]
      /\ new[Len(tags) + 1] = tag
  BY AppendProperties
<1>2. DOMAIN new = 1..(Len(tags) + 1) /\ DOMAIN tags = 1..Len(tags) /\ Len(tags) \in Nat
  BY <1>1
<1>3. QED
  BY <1>1, <1>2

(* One tag of the source *)
LEMMA MergeTagKeeps ==
  ASSUME NEW state, MergeOK(state), NEW tag \in Tags
  PROVE  MergeOK(MergeTag(state, tag))
<1> DEFINE own == WithId(state.tags, tag.id)
           alike == Alike(state.tags, tag)
<1>1. PICK tags, taggings, ids : tags = state.tags /\ taggings = state.taggings /\ ids = state.ids
  OBVIOUS
<1>2. /\ DOMAIN state = StateFields /\ tags \in Seq(AnyTag)
      /\ \A i, k \in DOMAIN tags : tags[i].id = tags[k].id => i = k
      /\ \A t \in taggings : Holds(tags, t.tag)
      /\ \A label \in AppTags : Holds(tags, label.id) => \E t \in taggings : t.id = label.id
      /\ \A id \in DOMAIN ids : Holds(tags, ids[id])
  BY <1>1 DEF MergeOK, TargetTags
<1>3. own \in SUBSET (1..Len(tags)) /\ alike \in SUBSET (1..Len(tags)) /\ Len(tags) \in Nat
      /\ DOMAIN tags = 1..Len(tags)
  BY <1>1, <1>2 DEF WithId, Alike
<1>4. tag \in AnyTag /\ \A label \in AppTags : label.id # tag.id
  BY TagsAssumption DEF AnyTag, TagsAssumption
<1>5. ASSUME NEW new, new \in Seq(AnyTag),
             \A i, k \in DOMAIN new : new[i].id = new[k].id => i = k,
             \A x : Holds(tags, x) => Holds(new, x),
             \A x : Holds(new, x) => Holds(tags, x) \/ x = tag.id,
             NEW id, Holds(new, id), NEW n, DOMAIN n = StateFields,
             n.tags = new, n.taggings = taggings, n.ids = With(ids, tag.id, id)
      PROVE  MergeOK(n)
  <2>1. TargetTags(new, taggings)
    BY <1>2, <1>4, <1>5 DEF TargetTags
  <2>2. \A x \in DOMAIN n.ids : n.ids[x] = id \/ (x \in DOMAIN ids /\ n.ids[x] = ids[x])
    BY <1>5 DEF With
  <2>3. \A x \in DOMAIN n.ids : Holds(new, n.ids[x])
    BY <1>2, <1>5, <2>2
  <2>4. QED
    BY <1>5, <2>1, <2>3 DEF MergeOK
<1>6. PICK n : n = MergeTag(state, tag)
  OBVIOUS
<1>7. CASE own # {}
  <2>1. PICK k : k = First(own)
    OBVIOUS
  <2>2. k \in DOMAIN tags /\ tags[k].id = tag.id
    <3>1. k \in own
      BY <1>3, <1>7, <2>1, FirstIs
    <3>2. QED
      BY <1>1, <3>1 DEF WithId
  <2>3. PICK new : new = [tags EXCEPT ![k] = tag]
    OBVIOUS
  <2>4. /\ new \in Seq(AnyTag) /\ DOMAIN new = DOMAIN tags
        /\ \A i \in DOMAIN tags : new[i].id = tags[i].id
    BY <1>2, <1>4, <2>2, <2>3, TagChanged
  <2>5. PICK b, m : b = (state.sound /\ ~Clash(state.tags, tag)) /\ m = With(ids, tag.id, tag.id)
    OBVIOUS
  <2>6. n = [state EXCEPT !.tags = new, !.ids = m, !.sound = b]
    BY <1>1, <1>6, <1>7, <2>1, <2>3, <2>5 DEF MergeTag
  <2>7. DOMAIN n = StateFields /\ n.tags = new /\ n.taggings = taggings /\ n.ids = m
    BY <1>1, <1>2, <2>6 DEF StateFields
  <2>8. \A x : Holds(tags, x) <=> Holds(new, x)
    BY <2>4 DEF Holds
  <2>9. Holds(new, tag.id) /\ \A i, k2 \in DOMAIN new : new[i].id = new[k2].id => i = k2
    BY <1>2, <2>2, <2>4 DEF Holds
  <2>10. MergeOK(n)
    BY <1>5, <2>4, <2>5, <2>7, <2>8, <2>9
  <2>11. QED
    BY <1>6, <2>10
<1>8. CASE own = {} /\ alike # {}
  <2>1. PICK k, id : k = First(alike) /\ id = state.tags[First(alike)].id
    OBVIOUS
  <2>2. k \in DOMAIN tags /\ tags[k].id = id
    <3>1. k \in alike
      BY <1>3, <1>8, <2>1, FirstIs
    <3>2. QED
      BY <1>1, <2>1, <3>1 DEF Alike
  <2>3. PICK m : m = With(ids, tag.id, id)
    OBVIOUS
  <2>4. n = [state EXCEPT !.ids = m]
    BY <1>1, <1>6, <1>8, <2>1, <2>3 DEF MergeTag
  <2>5. DOMAIN n = StateFields /\ n.tags = tags /\ n.taggings = taggings /\ n.ids = m
    BY <1>1, <1>2, <2>4 DEF StateFields
  <2>6. Holds(tags, id)
    BY <2>2 DEF Holds
  <2>7. MergeOK(n)
    BY <1>2, <1>5, <2>3, <2>5, <2>6
  <2>8. QED
    BY <1>6, <2>7
<1>9. CASE own = {} /\ alike = {}
  <2>1. PICK new, m : new = Append(tags, tag) /\ m = With(ids, tag.id, tag.id)
    OBVIOUS
  <2>2. n = [state EXCEPT !.tags = new, !.ids = m]
    BY <1>1, <1>6, <1>9, <2>1 DEF MergeTag
  <2>3. DOMAIN n = StateFields /\ n.tags = new /\ n.taggings = taggings /\ n.ids = m
    BY <1>1, <1>2, <2>2 DEF StateFields
  <2>4. /\ new \in Seq(AnyTag) /\ DOMAIN new = DOMAIN tags \cup {Len(tags) + 1}
        /\ Len(tags) + 1 \notin DOMAIN tags
        /\ new[Len(tags) + 1] = tag /\ \A i \in DOMAIN tags : new[i] = tags[i]
    BY <1>2, <1>4, <2>1, TagAdded
  <2>5. \A i \in DOMAIN tags : tags[i].id # tag.id
    BY <1>1, <1>9 DEF WithId
  <2>6. \A i, k \in DOMAIN new : new[i].id = new[k].id => i = k
    BY <1>2, <2>4, <2>5
  <2>7. /\ Holds(new, tag.id)
        /\ \A x : Holds(tags, x) => Holds(new, x)
        /\ \A x : Holds(new, x) => Holds(tags, x) \/ x = tag.id
    BY <2>4 DEF Holds
  <2>8. MergeOK(n)
    BY ZenonT(60), <1>5, <2>1, <2>3, <2>4, <2>6, <2>7
  <2>9. QED
    BY <1>6, <2>8
<1>10. QED
  BY <1>7, <1>8, <1>9

(* One tagging of the source *)
LEMMA MergeTaggingKeeps ==
  ASSUME NEW state, MergeOK(state), NEW tagging \in Taggings
  PROVE  MergeOK(MergeTagging(state, tagging))
<1>1. PICK n, known, there : /\ n = MergeTagging(state, tagging)
                      /\ known = (tagging.tag \in DOMAIN state.ids)
                      /\ there = \E t \in state.taggings :
                                   t.tag = state.ids[tagging.tag] /\ t.entity = tagging.entity
  OBVIOUS
<1>2. CASE tagging.tag \notin DOMAIN state.ids \/ n = state
  BY <1>1, <1>2 DEF MergeTagging
<1>3. CASE tagging.tag \in DOMAIN state.ids /\ n # state
  <2>1. PICK new : new = [tagging EXCEPT !.tag = state.ids[tagging.tag]]
    OBVIOUS
  <2>2. DOMAIN tagging = {"id", "tag", "entity"}
    BY TagsAssumption DEF TagsAssumption
  <2>3. new.tag = state.ids[tagging.tag]
    BY <2>1, <2>2
  <2>4. PICK b, more : /\ b = (state.sound /\ \A t \in state.taggings : t.id # tagging.id)
                       /\ more = state.taggings \cup {new}
    OBVIOUS
  <2>5. n = [state EXCEPT !.taggings = more, !.sound = b]
    BY <1>1, <1>3, <2>1, <2>4 DEF MergeTagging
  <2>6. DOMAIN state = StateFields /\ TargetTags(state.tags, state.taggings)
        /\ Holds(state.tags, new.tag)
    BY <1>3, <2>3 DEF MergeOK
  <2>7. /\ DOMAIN n = StateFields /\ n.tags = state.tags /\ n.ids = state.ids
        /\ n.taggings = state.taggings \cup {new}
    BY <2>4, <2>5, <2>6 DEF StateFields
  <2>8. TargetTags(n.tags, n.taggings)
    BY <2>6, <2>7 DEF TargetTags
  <2>9. MergeOK(n)
    BY <2>7, <2>8 DEF MergeOK
  <2>10. QED
    BY <1>1, <2>9
<1>4. QED
  BY <1>1, <1>2, <1>3

(* What is defined step by step exists. *)
TagWalk(f, n, base, tags) ==
  f = [i \in 0..n |-> IF i = 0 THEN base ELSE MergeTag(f[i - 1], tags[i])]
TaggingWalk(f, n, base, taggings) ==
  f = [i \in 0..n |-> IF i = 0 THEN base ELSE MergeTagging(f[i - 1], taggings[i])]

LEMMA TagByTag ==
  ASSUME NEW n \in Nat, NEW base, NEW tags
  PROVE  \E f : TagWalk(f, n, base, tags)
<1> DEFINE Upto(f, m) == f[0] = base /\ \A i \in 1..m : f[i] = MergeTag(f[i - 1], tags[i])
           S == {m \in 0..n : \E f : Upto(f, m)}
<1>1. 0 \in S
  <2>1. Upto([i \in 0..n |-> base], 0)
    OBVIOUS
  <2> HIDE DEF Upto
  <2>2. QED
    BY <2>1
<1>2. ASSUME NEW m \in 1..n, m - 1 \in S
      PROVE  m \in S
  <2>1. PICK f : Upto(f, m - 1)
    BY <1>2
  <2> DEFINE h == [i \in 0..n |-> IF i = m THEN MergeTag(f[m - 1], tags[m]) ELSE f[i]]
  <2>2. h[0] = base
    BY <2>1
  <2>3. ASSUME NEW i \in 1..m
        PROVE  h[i] = MergeTag(h[i - 1], tags[i])
    <3>1. h[i - 1] = f[i - 1]
      OBVIOUS
    <3>2. CASE i = m
      BY <3>1, <3>2
    <3>3. CASE i # m
      <4>1. i \in 1..(m - 1) /\ h[i] = f[i]
        BY <3>3
      <4>2. QED
        BY <2>1, <3>1, <4>1
    <3>4. QED
      BY <3>2, <3>3
  <2> HIDE DEF h
  <2>4. Upto(h, m) /\ m \in 0..n
    BY <2>2, <2>3
  <2> HIDE DEF Upto
  <2>5. QED
    BY <2>4
<1>3. n \in S
  <2> HIDE DEF S
  <2>1. \A i \in 1..n : i - 1 \in S => i \in S
    BY <1>2
  <2>2. n \in 0..n
    OBVIOUS
  <2>3. QED
    BY <1>1, <2>1, <2>2, UpTo
<1>4. PICK f : Upto(f, n)
  BY <1>3
<1> DEFINE g == [i \in 0..n |-> f[i]]
<1>5. g = [i \in 0..n |-> IF i = 0 THEN base ELSE MergeTag(g[i - 1], tags[i])]
  <2>1. \A i \in 0..n : g[i] = IF i = 0 THEN base ELSE MergeTag(g[i - 1], tags[i])
    BY <1>4
  <2>2. g = [i \in 0..n |-> g[i]]
    OBVIOUS
  <2> HIDE DEF g
  <2>3. QED
    BY <2>1, <2>2
<1> HIDE DEF g
<1>6. QED
  BY <1>5 DEF TagWalk

LEMMA TaggingByTagging ==
  ASSUME NEW n \in Nat, NEW base, NEW taggings
  PROVE  \E f : TaggingWalk(f, n, base, taggings)
<1> DEFINE Upto(f, m) == f[0] = base /\ \A i \in 1..m : f[i] = MergeTagging(f[i - 1], taggings[i])
           S == {m \in 0..n : \E f : Upto(f, m)}
<1>1. 0 \in S
  <2>1. Upto([i \in 0..n |-> base], 0)
    OBVIOUS
  <2> HIDE DEF Upto
  <2>2. QED
    BY <2>1
<1>2. ASSUME NEW m \in 1..n, m - 1 \in S
      PROVE  m \in S
  <2>1. PICK f : Upto(f, m - 1)
    BY <1>2
  <2> DEFINE h == [i \in 0..n |-> IF i = m THEN MergeTagging(f[m - 1], taggings[m]) ELSE f[i]]
  <2>2. h[0] = base
    BY <2>1
  <2>3. ASSUME NEW i \in 1..m
        PROVE  h[i] = MergeTagging(h[i - 1], taggings[i])
    <3>1. h[i - 1] = f[i - 1]
      OBVIOUS
    <3>2. CASE i = m
      BY <3>1, <3>2
    <3>3. CASE i # m
      <4>1. i \in 1..(m - 1) /\ h[i] = f[i]
        BY <3>3
      <4>2. QED
        BY <2>1, <3>1, <4>1
    <3>4. QED
      BY <3>2, <3>3
  <2> HIDE DEF h
  <2>4. Upto(h, m) /\ m \in 0..n
    BY <2>2, <2>3
  <2> HIDE DEF Upto
  <2>5. QED
    BY <2>4
<1>3. n \in S
  <2> HIDE DEF S
  <2>1. \A i \in 1..n : i - 1 \in S => i \in S
    BY <1>2
  <2>2. n \in 0..n
    OBVIOUS
  <2>3. QED
    BY <1>1, <2>1, <2>2, UpTo
<1>4. PICK f : Upto(f, n)
  BY <1>3
<1> DEFINE g == [i \in 0..n |-> f[i]]
<1>5. g = [i \in 0..n |-> IF i = 0 THEN base ELSE MergeTagging(g[i - 1], taggings[i])]
  <2>1. \A i \in 0..n : g[i] = IF i = 0 THEN base ELSE MergeTagging(g[i - 1], taggings[i])
    BY <1>4
  <2>2. g = [i \in 0..n |-> g[i]]
    OBVIOUS
  <2> HIDE DEF g
  <2>3. QED
    BY <2>1, <2>2
<1> HIDE DEF g
<1>6. QED
  BY <1>5 DEF TaggingWalk

(* The whole merge leaves a target of that kind. *)
LEMMA MergedKeeps ==
  ASSUME NEW target, TargetTags(target.tags, target.taggings), NEW source,
         source.tags \in Seq(Tags), source.taggings \in Seq(Taggings)
  PROVE  MergeOK(Merged(target, source))
<1> DEFINE n == Len(source.tags)
           k == Len(source.taggings)
           base == [tags |-> target.tags, taggings |-> target.taggings, ids |-> <<>>, sound |-> TRUE]
           AreTags(f) == TagWalk(f, n, base, source.tags)
           tagged == CHOOSE f : AreTags(f)
           AreTaggings(g) == TaggingWalk(g, k, tagged[n], source.taggings)
           joined == CHOOSE g : AreTaggings(g)
<1>1. Merged(target, source) = joined[k]
  BY DEF Merged, TagWalk, TaggingWalk
<1>2. /\ n \in Nat /\ \A i \in 1..n : source.tags[i] \in Tags
      /\ k \in Nat /\ \A i \in 1..k : source.taggings[i] \in Taggings
  OBVIOUS
<1>3. MergeOK(base)
  <2>1. DOMAIN base = StateFields /\ base.tags = target.tags /\ base.taggings = target.taggings
        /\ DOMAIN base.ids = {}
    BY DEF StateFields
  <2> HIDE DEF base
  <2>2. QED
    BY <2>1 DEF MergeOK
<1> HIDE DEF n, k, base
<1>4. AreTags(tagged)
  <2>1. \E f : AreTags(f)
    BY <1>2, TagByTag
  <2> HIDE DEF AreTags
  <2>2. QED
    BY <2>1
<1>5. tagged[0] = base /\ \A i \in 1..n : tagged[i] = MergeTag(tagged[i - 1], source.tags[i])
  <2>1. PICK f : f = tagged
    OBVIOUS
  <2>2. f = [i \in 0..n |-> IF i = 0 THEN base ELSE MergeTag(f[i - 1], source.tags[i])]
    BY <1>4, <2>1 DEF TagWalk
  <2> HIDE DEF tagged
  <2>3. f[0] = base /\ \A i \in 1..n : f[i] = MergeTag(f[i - 1], source.tags[i])
    BY <1>2, <2>2
  <2>4. QED
    BY <2>1, <2>3
<1> HIDE DEF tagged
<1>6. MergeOK(tagged[n])
  <2> DEFINE T == {i \in 0..n : MergeOK(tagged[i])}
  <2>1. 0 \in T
    BY <1>2, <1>3, <1>5
  <2>2. ASSUME NEW i \in 1..n, i - 1 \in T
        PROVE  i \in T
    <3>1. PICK s : s = tagged[i - 1]
      OBVIOUS
    <3>2. MergeOK(MergeTag(s, source.tags[i]))
      BY <1>2, <2>2, <3>1, MergeTagKeeps
    <3>3. QED
      BY <1>2, <1>5, <3>1, <3>2
  <2> HIDE DEF T
  <2>3. \A i \in 0..n : i \in T
    BY <1>2, <2>1, <2>2, UpTo
  <2>4. n \in T
    BY <1>2, <2>3
  <2>5. QED
    BY <2>4 DEF T
<1>7. AreTaggings(joined)
  <2>1. \E g : AreTaggings(g)
    BY <1>2, TaggingByTagging
  <2> HIDE DEF AreTaggings
  <2>2. QED
    BY <2>1
<1>8. joined[0] = tagged[n] /\ \A i \in 1..k : joined[i] = MergeTagging(joined[i - 1], source.taggings[i])
  <2>1. PICK g : g = joined
    OBVIOUS
  <2>2. g = [i \in 0..k |-> IF i = 0 THEN tagged[n] ELSE MergeTagging(g[i - 1], source.taggings[i])]
    BY <1>7, <2>1 DEF TaggingWalk
  <2> HIDE DEF joined
  <2>3. g[0] = tagged[n] /\ \A i \in 1..k : g[i] = MergeTagging(g[i - 1], source.taggings[i])
    BY <1>2, <2>2
  <2>4. QED
    BY <2>1, <2>3
<1> HIDE DEF joined
<1>9. MergeOK(joined[k])
  <2> DEFINE T == {i \in 0..k : MergeOK(joined[i])}
  <2>1. 0 \in T
    BY <1>2, <1>6, <1>8
  <2>2. ASSUME NEW i \in 1..k, i - 1 \in T
        PROVE  i \in T
    <3>1. PICK s : s = joined[i - 1]
      OBVIOUS
    <3>2. MergeOK(MergeTagging(s, source.taggings[i]))
      BY <1>2, <2>2, <3>1, MergeTaggingKeeps
    <3>3. QED
      BY <1>2, <1>8, <3>1, <3>2
  <2> HIDE DEF T
  <2>3. \A i \in 0..k : i \in T
    BY <1>2, <2>1, <2>2, UpTo
  <2>4. k \in T
    BY <1>2, <2>3
  <2>5. QED
    BY <2>4 DEF T
<1>10. QED
  BY <1>1, <1>9

-----------------------------------------------------------------------------
(* The target, and what a migration has read of the source, in each step *)

ReadingOK(j) ==
  /\ j.phase \in Reading => j.read.tags \in Seq(Tags)
  /\ j.phase = "migrate" => j.read.taggings \in Seq(Taggings)

SidecarOK == TargetTags(sidecar.tags, sidecar.taggings)
LegacyOK == legacy \in DOMAIN Sources
MigrationInv == SidecarOK /\ LegacyOK /\ \A c \in Clients : ReadingOK(job[c])

LEMMA SourceIs ==
  ASSUME LegacyOK
  PROVE  Sources[legacy].tags \in Seq(Tags) /\ Sources[legacy].taggings \in Seq(Taggings)
<1>1. PICK R, A, B : A = Seq(Tags) /\ B = Seq(Taggings) /\ R = [tags : A, taggings : B]
  OBVIOUS
<1>2. Sources \in Seq(R)
  BY <1>1, TagsAssumption DEF TagsAssumption
<1>3. Sources[legacy] \in R
  BY <1>2 DEF LegacyOK
<1>4. QED
  BY <1>1, <1>3

LEMMA ReadTagsReading ==
  ASSUME JobsInv, MigrationInv, NEW c \in Clients, ReadTags(c)
  PROVE  ReadingOK(job'[c])
<1>1. PICK r, n : /\ r = [tags |-> Sources[legacy].tags]
                  /\ n = [job[c] EXCEPT !.read = r, !.phase = "taggings"]
  OBVIOUS
<1>2. job'[c] = n
  BY <1>1 DEF ReadTags, Become
<1>3. DOMAIN job[c] = Fields
  BY DEF JobsInv, JobOK
<1>4. n.read = r /\ n.phase = "taggings"
  BY <1>1, <1>3 DEF Fields, NoJob
<1>5. r.tags \in Seq(Tags)
  BY <1>1, SourceIs DEF MigrationInv
<1>6. QED
  BY <1>2, <1>4, <1>5 DEF ReadingOK

LEMMA ReadTaggingsReading ==
  ASSUME JobsInv, MigrationInv, NEW c \in Clients, ReadTaggings(c)
  PROVE  ReadingOK(job'[c])
<1>1. PICK r, n : /\ r = [tags |-> job[c].read.tags, taggings |-> Sources[legacy].taggings]
                  /\ n = [job[c] EXCEPT !.read = r, !.phase = "migrate"]
  OBVIOUS
<1>2. job'[c] = n
  BY <1>1 DEF ReadTaggings, Become
<1>3. DOMAIN job[c] = Fields
  BY DEF JobsInv, JobOK
<1>4. n.read = r
  BY <1>1, <1>3 DEF Fields, NoJob
<1>5. job[c].read.tags \in Seq(Tags)
  BY DEF MigrationInv, ReadingOK, ReadTaggings, In, Reading
<1>6. r.tags \in Seq(Tags) /\ r.taggings \in Seq(Taggings)
  BY <1>1, <1>5, SourceIs DEF MigrationInv
<1>7. QED
  BY <1>2, <1>4, <1>6 DEF ReadingOK

(* The jobs that only learn of a step have read what they had. *)
LEMMA SpreadReading ==
  ASSUME JobsInv, MigrationInv, NEW own, Kept(own),
         \A c \in Clients \cap own : ReadingOK(job'[c])
  PROVE  \A c \in Clients : ReadingOK(job'[c])
<1>1. PICK touched : Spread(touched, own)
  BY DEF Kept
<1>2. ASSUME NEW d \in Clients \ own
      PROVE  ReadingOK(job'[d])
  <2>1. Learns(d, touched)
    BY <1>1 DEF Spread
  <2>2. CASE job'[d].op = "none"
    <3>1. job'[d].phase = "none"
      BY <2>2 DEF Kept, JobsInv, JobOK, PhaseOK
    <3>2. QED
      BY <3>1 DEF ReadingOK, Reading
  <2>3. CASE job'[d].op # "none"
    BY <2>1, <2>3 DEF Learns, MigrationInv, ReadingOK
  <2>4. QED
    BY <2>2, <2>3
<1>3. QED
  BY <1>2

(* No step of a job but the merge changes the target. *)
LEMMA StepOfJobSidecar ==
  ASSUME JobsInv, MigrationInv, NEW c \in Clients, Step(c)
  PROVE  SidecarOK' /\ UNCHANGED legacy /\ ReadingOK(job'[c])
<1>1. DOMAIN job[c] = Fields /\ JobOK(job[c])
  BY DEF JobsInv, JobOK
<1>2. NotReading(c) => ReadingOK(job'[c])
  BY DEF NotReading, ReadingOK, Reading
<1>3. UNCHANGED sidecar => SidecarOK'
  BY DEF MigrationInv, SidecarOK
<1>4. CASE ImportStep(c)
  <2>1. UNCHANGED <<sidecar, legacy>>
    BY <1>4 DEF ImportStep, Resolve, CreateRow, Refuse, TagRow, UpdateRow, Relabel, AddVersion, Gone,
       SidecarFails, Throw, Aside, Outside
  <2>2. QED
    BY SMTT(60), <1>1, <1>2, <1>3, <1>4, <2>1, ImportOpStays
<1>5. CASE ToolStep(c)
  <2>1. UNCHANGED <<sidecar, legacy>>
    BY <1>5 DEF ToolStep, ReadForWrite, ReadForCopy, ReadForConversion, NotFound, ReadForUpdate,
       ReadForEdit, Unlabel, GoneAlready, SoftDelete, PermanentlyDelete, ListTrash, RestoreTrash,
       NotInTrash, Throw, Aside, Outside
  <2>2. QED
    BY SMTT(60), <1>1, <1>2, <1>3, <1>5, <2>1, ToolOpStays
<1>6. CASE UpkeepStep(c) /\ ~Migrate(c)
  <2>1. UNCHANGED <<sidecar, legacy>>
    BY <1>6 DEF UpkeepStep, RunDiagnostics, Repair, ListAll, Listed, ExportBundle, ExportFile,
       SnapshotPrompts, SnapshotVersions, NoSnapshot, ClearPrompts, ClearIndex, ReadTags,
       ReadTaggings, Throw, Aside, Outside
  <2>2. NotReading(c) \/ ReadTags(c) \/ ReadTaggings(c)
    BY <1>1, <1>6, UpkeepOpStays
  <2>3. QED
    BY SMTT(60), <1>2, <1>3, <2>1, <2>2, ReadTagsReading, ReadTaggingsReading
<1>7. CASE Migrate(c)
  <2>1. job[c].read.tags \in Seq(Tags) /\ job[c].read.taggings \in Seq(Taggings)
    BY <1>7 DEF MigrationInv, ReadingOK, Migrate, In, Reading
  <2>2. PICK merged : merged = Merged(sidecar, job[c].read)
    OBVIOUS
  <2>3. MergeOK(merged)
    BY <2>1, <2>2, MergedKeeps DEF MigrationInv, SidecarOK
  <2>4. UNCHANGED sidecar \/ sidecar' = [tags |-> merged.tags, taggings |-> merged.taggings]
    BY <1>7, <2>2 DEF Migrate
  <2>5. SidecarOK'
    BY <1>3, <2>3, <2>4 DEF MergeOK, SidecarOK
  <2>6. NotReading(c)
    <3>1. PICK n : n = [job[c] EXCEPT !.phase = "done"]
      OBVIOUS
    <3>2. job'[c] = n \/ job'[c] = Thrown(c)
      BY <1>7, <3>1 DEF Migrate, Finish, Become
    <3>3. Thrown(c).phase \notin Reading
      BY <1>1, OpOfStored
    <3>4. n.phase = "done"
      BY <1>1, <3>1, PhaseFields
    <3>5. QED
      BY <3>2, <3>3, <3>4 DEF NotReading, Reading
  <2>7. UNCHANGED legacy
    BY <1>7 DEF Migrate, Migrating, Outside
  <2>8. QED
    BY <1>2, <2>5, <2>6, <2>7
<1>8. CASE End(c)
  <2>1. job'[c].phase = "none" /\ UNCHANGED <<sidecar, legacy>>
    BY <1>8 DEF End, Become, NoJob, Aside, Outside
  <2>2. QED
    BY <1>3, <2>1 DEF ReadingOK, Reading
<1>9. QED
  BY <1>4, <1>5, <1>6, <1>7, <1>8 DEF Step

LEMMA BeginReading ==
  ASSUME NEW c \in Clients, NEW request, Begin(c, request)
  PROVE  ReadingOK(job'[c])
<1>1. PICK id : Become(c, [Opened(request) EXCEPT !.id = id], {})
  BY DEF Begin
<1>2. PICK n : OpenedAs(request, id, n) /\ n = job'[c]
  BY <1>1 DEF OpenedAs, Become
<1>3. n.phase = FirstPhase(request.op, ItemsOf(request))
  BY <1>2, OpenedFields
<1>4. n.phase \in {"next", "done", "update", "version", "begun"}
  BY <1>3 DEF FirstPhase, After
<1>5. QED
  BY <1>2, <1>4 DEF ReadingOK, Reading

(* The application gives a label of its own: a tag and its tagging.        *)
LEMMA AppTagSidecar ==
  ASSUME MigrationInv, NEW label \in AppTags, AppTag(label)
  PROVE  SidecarOK'
<1> DEFINE alike == Alike(sidecar.tags, label)
<1>1. PICK tags, taggings : tags = sidecar.tags /\ taggings = sidecar.taggings
  OBVIOUS
<1>2. /\ tags \in Seq(AnyTag)
      /\ \A i, k \in DOMAIN tags : tags[i].id = tags[k].id => i = k
      /\ \A t \in taggings : Holds(tags, t.tag)
      /\ \A l \in AppTags : Holds(tags, l.id) => \E t \in taggings : t.id = l.id
  BY <1>1 DEF MigrationInv, SidecarOK, TargetTags
<1>3. \A t \in taggings : t.id # label.id
  BY <1>1 DEF AppTag
<1>4. ~Holds(tags, label.id)
  BY <1>2, <1>3
<1>5. PICK own : own = [id |-> label.id, name |-> label.name, kind |-> label.kind]
  OBVIOUS
<1>6. own \in AnyTag /\ own.id = label.id
  BY <1>5 DEF AnyTag
<1>7. PICK new, tag, more, there :
        /\ new = IF alike # {} THEN tags ELSE Append(tags, own)
        /\ tag = IF alike # {} THEN tags[First(alike)].id ELSE label.id
        /\ there = \E t \in taggings : t.tag = tag /\ t.entity = label.entity
        /\ more = IF there THEN {} ELSE {[id |-> label.id, tag |-> tag, entity |-> label.entity]}
  OBVIOUS
<1>8. sidecar' = [tags |-> new, taggings |-> taggings \cup more]
  BY <1>1, <1>5, <1>7 DEF AppTag
<1>9. CASE alike # {}
  <2>1. First(alike) \in alike
    <3>1. alike \in SUBSET (1..Len(tags)) /\ Len(tags) \in Nat
      BY <1>1, <1>2 DEF Alike
    <3>2. QED
      BY <1>9, <3>1, FirstIs
  <2>2. Holds(tags, tag)
    BY <1>1, <1>7, <1>9, <2>1 DEF Alike, Holds
  <2>3. TargetTags(tags, taggings \cup more)
    BY <1>2, <1>7, <2>2 DEF TargetTags
  <2>4. QED
    BY <1>7, <1>8, <1>9, <2>3 DEF SidecarOK
<1>10. CASE alike = {}
  <2>1. /\ new \in Seq(AnyTag) /\ DOMAIN new = DOMAIN tags \cup {Len(tags) + 1}
        /\ Len(tags) + 1 \notin DOMAIN tags
        /\ new[Len(tags) + 1] = own /\ \A i \in DOMAIN tags : new[i] = tags[i]
    BY <1>2, <1>6, <1>7, <1>10, TagAdded
  <2>2. \A i \in DOMAIN tags : tags[i].id # label.id
    BY <1>4 DEF Holds
  <2>3. \A i, k \in DOMAIN new : new[i].id = new[k].id => i = k
    BY <1>2, <1>6, <2>1, <2>2
  <2>4. /\ Holds(new, label.id)
        /\ \A x : Holds(tags, x) => Holds(new, x)
        /\ \A x : Holds(new, x) => Holds(tags, x) \/ x = label.id
    BY <1>6, <2>1 DEF Holds
  <2>5. tag = label.id
    BY <1>7, <1>10
  <2>6. \A t \in taggings : t.tag # label.id
    BY <1>2, <1>4
  <2>7. more = {[id |-> label.id, tag |-> label.id, entity |-> label.entity]}
    BY <1>7, <2>5, <2>6
  <2>8. PICK t0 : t0 = [id |-> label.id, tag |-> label.id, entity |-> label.entity]
    OBVIOUS
  <2>9. t0.id = label.id /\ t0.tag = label.id /\ more = {t0}
    BY <2>7, <2>8
  <2>10. \A t \in taggings \cup more : Holds(new, t.tag)
    BY <1>2, <2>4, <2>9
  <2>11. \A l \in AppTags : Holds(new, l.id) => \E t \in taggings \cup more : t.id = l.id
    BY <1>2, <2>4, <2>9
  <2>12. TargetTags(new, taggings \cup more)
    BY <2>1, <2>3, <2>10, <2>11 DEF TargetTags
  <2>13. QED
    BY <1>8, <2>12 DEF SidecarOK
<1>11. QED
  BY <1>9, <1>10

LEMMA NextMigration ==
  ASSUME JobsInv, MigrationInv, [Next]_vars
  PROVE  MigrationInv'
<1>1. ASSUME UNCHANGED <<prompts, lastId, bundle, files, job>>
      PROVE  \A c \in Clients : ReadingOK(job'[c])
  BY <1>1, SameKeeps, SpreadReading
<1>2. UNCHANGED <<sidecar, legacy>> => SidecarOK' /\ LegacyOK'
  BY DEF MigrationInv, SidecarOK, LegacyOK
<1>3. ASSUME NEW c \in Clients, NEW request \in Requests, Begin(c, request)
      PROVE  MigrationInv'
  <2>1. \A d \in Clients : ReadingOK(job'[d])
    BY <1>3, BeginKeeps, BeginReading, SpreadReading
  <2>2. UNCHANGED <<sidecar, legacy>>
    BY <1>3 DEF Begin, Outside
  <2>3. QED
    BY <1>2, <2>1, <2>2 DEF MigrationInv
<1>4. ASSUME NEW c \in Clients, Step(c)
      PROVE  MigrationInv'
  <2>1. \A d \in Clients : ReadingOK(job'[d])
    BY <1>4, StepOfJobKeeps, StepOfJobSidecar, SpreadReading
  <2>2. SidecarOK' /\ UNCHANGED legacy
    BY <1>4, StepOfJobSidecar
  <2>3. QED
    BY <2>1, <2>2 DEF MigrationInv, LegacyOK
<1>5. ASSUME NEW c \in Clients, Crash(c)
      PROVE  MigrationInv'
  <2>1. job'[c].phase = "none"
    BY <1>5 DEF Crash, Become, NoJob
  <2>2. ReadingOK(job'[c])
    BY <2>1 DEF ReadingOK, Reading
  <2>3. \A d \in Clients : ReadingOK(job'[d])
    BY <1>5, <2>2, CrashKeeps, SpreadReading
  <2>4. UNCHANGED <<sidecar, legacy>>
    BY <1>5 DEF Crash, Outside
  <2>5. QED
    BY <1>2, <2>3, <2>4 DEF MigrationInv
<1>6. ASSUME NEW id \in DOMAIN prompts, NEW v \in Desktop, DesktopAdds(id, v)
      PROVE  MigrationInv'
  <2>1. \A d \in Clients : ReadingOK(job'[d])
    BY <1>6, DesktopKeeps, SpreadReading
  <2>2. UNCHANGED <<sidecar, legacy>>
    BY <1>6 DEF DesktopAdds, Outside
  <2>3. QED
    BY <1>2, <2>1, <2>2 DEF MigrationInv
<1>7. CASE LegacyMoves
  <2>1. LegacyOK'
    <3>1. Len(Sources) \in Nat /\ DOMAIN Sources = 1..Len(Sources)
      BY TagsAssumption DEF TagsAssumption
    <3>2. QED
      BY <1>7, <3>1 DEF MigrationInv, LegacyOK, LegacyMoves
  <2>2. SidecarOK'
    BY <1>7 DEF MigrationInv, SidecarOK, LegacyMoves
  <2>3. QED
    BY <1>1, <1>7, <2>1, <2>2 DEF MigrationInv, LegacyMoves
<1>8. ASSUME NEW label \in AppTags, AppTag(label)
      PROVE  MigrationInv'
  <2>1. SidecarOK'
    BY <1>8, AppTagSidecar
  <2>2. UNCHANGED <<prompts, lastId, bundle, files, job>> /\ UNCHANGED legacy
    BY <1>8 DEF AppTag, Outside
  <2>3. QED
    BY <1>1, <2>1, <2>2 DEF MigrationInv, LegacyOK
<1>9. CASE UNCHANGED vars
  BY <1>1, <1>2, <1>9 DEF vars, MigrationInv
<1>10. QED
  BY <1>3, <1>4, <1>5, <1>6, <1>7, <1>8, <1>9 DEF Next, Others

LEMMA InitMigration ==
  ASSUME Init
  PROVE  MigrationInv
<1>1. PICK tags, taggings : tags = <<>> /\ taggings = {} /\ sidecar.tags = tags /\ sidecar.taggings = taggings
  BY DEF Init
<1>2. DOMAIN tags = {} /\ tags \in Seq(AnyTag)
  BY <1>1
<1>3. SidecarOK
  BY <1>1, <1>2 DEF SidecarOK, TargetTags, Holds
<1>4. LegacyOK
  BY TagsAssumption, EmptySeq DEF TagsAssumption, Init, LegacyOK
<1>5. \A c \in Clients : ReadingOK(job[c])
  BY DEF Init, NoJob, ReadingOK, Reading
<1>6. QED
  BY <1>3, <1>4, <1>5 DEF MigrationInv

-----------------------------------------------------------------------------
(* What holds in every behaviour *)

(* After a repair (repairPrompts) each prompt that is not in the trash has *)
(* a latest version its parser accepts, whatever else was under way, but   *)
(* for the prompts that others touched since the diagnosis, and those with *)
(* a text accepted only once trimmed, which keep the format detected for   *)
(* them and are found invalid again.                                       *)
THEOREM RepairsSettle == Spec => []RepairSettles
<1>1. JobsInv => RepairSettles
  BY DEF JobsInv, UpkeepOK, RepairOK, RepairSettles
<1>2. QED
  BY <1>1, InitJobs, NextJobs, PTL DEF Spec

(* What exportPromptBundle answers with is every prompt in use with its    *)
(* latest version and labels and no other, and what bulkExportPrompts      *)
(* reports as written is in its file, but for the prompts others touched.  *)
THEOREM ExportsStayTrue == Spec => []ExportsAreTrue
<1>1. ASSUME JobsInv
      PROVE  BundleIsWhole
  BY <1>1 DEF JobsInv, UpkeepOK, ExportOK, WholeOK, BundleIsWhole
<1>2. ASSUME JobsInv, NEW c \in Clients, job[c].op = "bulkExport",
             NEW i \in DOMAIN job[c].done, NEW name \in DOMAIN job[c].done[i]
      PROVE  \/ Slug(job[c].done[i][name].id) \subseteq job[c].foreign
             \/ files[name] = job[c].done[i][name]
  <2>1. FilesOK(c)
    BY <1>2, StateOfJob DEF UpkeepOK
  <2>2. PICK file : file = job[c].done[i][name]
    OBVIOUS
  <2>3. FileOK(job[c].foreign, name, file)
    BY <1>2, <2>1, <2>2 DEF FilesOK
  <2>4. QED
    BY <2>2, <2>3 DEF FileOK
<1>3. JobsInv => ExportsAreTrue
  BY <1>1, <1>2 DEF ExportsAreTrue, FilesAreOwn
<1>4. QED
  BY <1>3, InitJobs, NextJobs, PTL DEF Spec

LEMMA TypesHold ==
  ASSUME JobsInv, MigrationInv
  PROVE  TypeOK
<1>1. RowsOK /\ BundleOK
  BY DEF JobsInv
<1>2. /\ \A t \in sidecar.taggings : \E i \in DOMAIN sidecar.tags : sidecar.tags[i].id = t.tag
      /\ \A i, k \in DOMAIN sidecar.tags : sidecar.tags[i].id = sidecar.tags[k].id => i = k
  BY DEF MigrationInv, SidecarOK, TargetTags, Holds
<1>3. ASSUME NEW c \in Clients
      PROVE  /\ job[c].op = "none" <=> job[c].phase = "none"
             /\ job[c].phase \in {"next", "create", "tag", "update", "relabel", "version"} =>
                  job[c].items # <<>>
             /\ job[c].phase = "repair" => job[c].left # {}
  BY StateOfJob DEF JobOK, PhaseOK, ItemsOK, Handling
<1>4. IsInjective([i \in DOMAIN bundle |-> bundle[i].slug])
  BY <1>1 DEF IsInjective, BundleOK
<1>5. QED
  BY <1>1, <1>2, <1>3, <1>4 DEF TypeOK, RowsOK

(* An import that stops, wherever it stops, leaves of its bundle or files  *)
(* a prefix: every version of each item it got through in their order, and *)
(* nothing of those to come.  Others may touch what they like meanwhile;   *)
(* only the slugs they touched are left out (importPromptBundle,           *)
(* bulkImportPrompts, the tool importPrompts).                             *)
THEOREM ImportsLeaveAPrefix == Spec => []ImportIsPrefix
<1>1. ASSUME JobsInv, ImportsInv, MigrationInv
      PROVE  ImportIsPrefix
  <2>1. TypeOK
    BY <1>1, TypesHold
  <2>2. ASSUME NEW c \in Clients, job[c].op = "import", NEW s,
               s \notin job[c].foreign \cup job[c].failed \cup
                 IF job[c].items = <<>> \/ job[c].phase = "next" THEN {} ELSE {Head(job[c].items).slug},
               \/ \E id \in DOMAIN prompts : s = prompts[id].slug
               \/ \E id \in DOMAIN job[c].before : s = job[c].before[id].slug
               \/ \E i \in DOMAIN job[c].done : s = job[c].done[i].slug
        PROVE  History(prompts, s) =
                 Grown(History(job[c].before, s), Named(job[c].done, s), job[c].policy)
    <3>1. ImportOK(c) /\ job[c].done \in Seq(Items) /\ BeforeOK(job[c])
      BY <1>1, <2>2 DEF ImportsInv, ImportOK, Imported
    <3>2. \A id \in DOMAIN prompts : prompts[id].slug \in Slugs
      BY <1>1, RowFields DEF JobsInv, RowsOK
    <3>3. \A i \in DOMAIN job[c].done : job[c].done[i].slug \in Slugs
      <4>1. PICK items \in Seq(Items) : items = job[c].done
        BY <3>1
      <4>2. \A i \in DOMAIN items : items[i] \in Items
        OBVIOUS
      <4>3. QED
        BY <4>1, <4>2 DEF Items
    <3>4. s \in Slugs
      BY <2>2, <3>1, <3>2, <3>3 DEF BeforeOK
    <3>5. QED
      BY <1>1, <2>2, <3>1, <3>4, PrefixHeld
  <2>3. QED
    BY <2>1, <2>2 DEF ImportIsPrefix
<1>2. Init => JobsInv /\ ImportsInv /\ MigrationInv
  BY InitJobs, InitImports, InitMigration
<1>3. JobsInv /\ ImportsInv /\ MigrationInv /\ [Next]_vars => (JobsInv /\ ImportsInv /\ MigrationInv)'
  BY NextJobs, NextImports, NextMigration
<1>4. QED
  BY <1>1, <1>2, <1>3, PTL DEF Spec

=============================================================================
