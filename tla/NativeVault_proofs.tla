-------------------------- MODULE NativeVault_proofs --------------------------
(***************************************************************************)
(* Proofs about NativeVault, for every value of its constants: previews    *)
(* and restores read of the earlier database what it held at one moment,   *)
(* however often it is written and its log begun again; what an export     *)
(* hands out is a valid document; and a restore leaves every prompt of the *)
(* library its history and brings what its page has shown.                 *)
(***************************************************************************)
EXTENDS NativeVault, RecoveryDomain_proofs, FiniteSetTheorems, SequenceTheorems, TLAPS

-----------------------------------------------------------------------------
(***************************************************************************)
(* The native vault                                                        *)
(***************************************************************************)

StepNames ==
  {"inspect", "inventory db", "inventory wal", "copy db", "copy wal", "check db", "check wal",
   "read", "answer", "list", "versions", "plan", "hand out", "lock", "same hash", "same plan",
   "begin", "commit"}

Wals == [base : Nat, upto : Nat]
Files == [db : Nat, wal : Wals]

(* The log that is there begins in what the database file holds, and has a *)
(* transaction.                                                            *)
SourceOK ==
  /\ source \in Files
  /\ source.db >= 1
  /\ source.wal.base <= source.db
  /\ source.wal = NoWal \/ source.wal.upto >= 1

JobOK(j) ==
  /\ j = [op |-> j.op, policy |-> j.policy, steps |-> j.steps, begun |-> j.begun,
          inspected |-> j.inspected, inventory |-> j.inventory, copy |-> j.copy,
          read |-> j.read, left |-> j.left, seen |-> j.seen]
  /\ j.steps \in Seq(StepNames)
  /\ j.inventory \in Files /\ j.copy \in Files

(* A log that was left behind does not come back: the next one ends later. *)
Gone(src, wal) ==
  \/ src.wal.upto > wal.upto
  \/ src.wal = NoWal /\ src.db >= wal.upto

SeenOrGone(src, wal) == wal = NoWal \/ src.wal = wal \/ Gone(src, wal)

(* What an operation has found out after the first q - 1 steps of reading  *)
(* the earlier database, `inspect' being the first.                        *)
Snap(q, src, j) ==
  /\ q \in 3..6 => 1 <= j.inventory.db /\ j.inventory.db <= src.db
  /\ q \in 4..6 => j.inventory.wal.base <= src.db
  /\ q \in 4..7 => SeenOrGone(src, j.inventory.wal)
  /\ q \in 5..6 => j.inventory.db <= j.copy.db /\ j.copy.db <= src.db
  /\ q \in 6..7 => \/ j.copy.wal = j.inventory.wal
                   \/ j.inventory.wal # NoWal /\ Gone(src, j.inventory.wal)
  /\ q \in 7..8 => /\ j.copy.db = j.inventory.db /\ 1 <= j.inventory.db
                   /\ j.inventory.wal.base <= j.inventory.db
  /\ q = 8 => j.copy.wal = j.inventory.wal
  /\ q >= 9 => j.read # 0

(* The steps that are left are those of a list from its k-th on.           *)
Follows(j, steps, k) ==
  /\ Len(j.steps) = Len(steps) - k + 1
  /\ \A i \in 1..Len(j.steps) : j.steps[i] = steps[k + i - 1]

OnLegacy(j, q) ==
  \/ q \in 1..15 /\ Follows(j, LegacyPreview, q)
  \/ q \in 0..20 /\ Follows(j, LegacyRestore, q + 1)

(* The other operations do not read the earlier database.                  *)
Plain(j, kind) ==
  \A i \in 1..Len(j.steps) :
    j.steps[i] # "answer" /\ (j.steps[i] = "same plan" => kind # "legacy")

Track(src, j, kind) ==
  \/ Plain(j, kind)
  \/ \E q \in 0..20 : OnLegacy(j, q) /\ Snap(q, src, j)

PageOK ==
  page = [kind |-> page.kind, document |-> page.document, hash |-> page.hash,
          plan |-> page.plan]

IInv == SourceOK /\ PageOK /\ JobOK(job) /\ Track(source, job, page.kind)

-----------------------------------------------------------------------------
(* The lists of steps *)

IsJoin(u, s, t, m, n) ==
  /\ u \in Seq(StepNames) /\ Len(u) = m + n
  /\ \A i \in 1..m : u[i] = s[i]
  /\ \A i \in 1..n : u[m + i] = t[i]

LEMMA Joined ==
  \A s, t \in Seq(StepNames) : \A m, n \in Nat :
    Len(s) = m /\ Len(t) = n => IsJoin(s \o t, s, t, m, n)
<1> SUFFICES ASSUME NEW s \in Seq(StepNames), NEW t \in Seq(StepNames), NEW m \in Nat, NEW n \in Nat,
                    Len(s) = m, Len(t) = n
             PROVE  IsJoin(s \o t, s, t, m, n)
  OBVIOUS
<1>1. /\ s \o t \in Seq(StepNames) /\ Len(s \o t) = m + n
      /\ \A i \in 1..(m + n) : (s \o t)[i] = IF i <= m THEN s[i] ELSE t[i - m]
  BY ConcatProperties
<1> QED
  BY <1>1 DEF IsJoin

LEMMA SnapshotSteps ==
  /\ Snapshot \in Seq(StepNames) /\ Len(Snapshot) = 9
  /\ Snapshot[1] = "inventory db" /\ Snapshot[2] = "inventory wal"
  /\ Snapshot[3] = "copy db" /\ Snapshot[4] = "copy wal"
  /\ Snapshot[5] = "check db" /\ Snapshot[6] = "check wal"
  /\ Snapshot[7] = "read"
  /\ Snapshot[8] = "check db" /\ Snapshot[9] = "check wal"
<1>1. Snapshot \in Seq(StepNames)
  BY DEF Snapshot, StepNames
<1>2. Len(Snapshot) = 9
  BY DEF Snapshot
<1>3. /\ Snapshot[1] = "inventory db" /\ Snapshot[2] = "inventory wal"
      /\ Snapshot[3] = "copy db" /\ Snapshot[4] = "copy wal"
  BY DEF Snapshot
<1>4. /\ Snapshot[5] = "check db" /\ Snapshot[6] = "check wal"
      /\ Snapshot[7] = "read"
      /\ Snapshot[8] = "check db" /\ Snapshot[9] = "check wal"
  BY DEF Snapshot
<1> QED
  BY <1>1, <1>2, <1>3, <1>4

JustInspect == <<"inspect">>
JustAnswer == <<"answer">>
JustPlan == <<"plan">>

LEMMA ReadLibrarySteps ==
  /\ ReadLibrary \in Seq(StepNames) /\ Len(ReadLibrary) = 2
  /\ ReadLibrary[1] = "list" /\ ReadLibrary[2] = "versions"
BY DEF ReadLibrary, StepNames

LEMMA PreviewSteps ==
  /\ LegacyPreview \in Seq(StepNames) /\ Len(LegacyPreview) = 14
  /\ LegacyPreview[1] = "inspect"
  /\ \A i \in 1..9 : LegacyPreview[i + 1] = Snapshot[i]
  /\ LegacyPreview[11] = "answer"
  /\ LegacyPreview[12] = "list" /\ LegacyPreview[13] = "versions"
  /\ LegacyPreview[14] = "plan"
<1> DEFINE a == JustInspect \o Snapshot
           b == a \o JustAnswer
           c == b \o ReadLibrary
<1>1. /\ JustInspect \in Seq(StepNames) /\ Len(JustInspect) = 1 /\ JustInspect[1] = "inspect"
      /\ JustAnswer \in Seq(StepNames) /\ Len(JustAnswer) = 1 /\ JustAnswer[1] = "answer"
      /\ JustPlan \in Seq(StepNames) /\ Len(JustPlan) = 1 /\ JustPlan[1] = "plan"
  BY DEF StepNames, JustInspect, JustAnswer, JustPlan
<1>2. /\ ReadLibrary \in Seq(StepNames) /\ Len(ReadLibrary) = 2
      /\ ReadLibrary[1] = "list" /\ ReadLibrary[2] = "versions"
  BY ReadLibrarySteps
<1>3. IsJoin(a, JustInspect, Snapshot, 1, 9)
  BY <1>1, SnapshotSteps, Joined
<1> HIDE DEF a
<1>4. IsJoin(b, a, JustAnswer, 10, 1)
  <2>1. a \in Seq(StepNames) /\ Len(a) = 10
    BY <1>3 DEF IsJoin
  <2> QED
    BY <1>1, <2>1, Joined
<1> HIDE DEF b
<1>5. IsJoin(c, b, ReadLibrary, 11, 2)
  <2>1. b \in Seq(StepNames) /\ Len(b) = 11
    BY <1>4 DEF IsJoin
  <2> QED
    BY <1>2, <2>1, Joined
<1> HIDE DEF c
<1>6. LegacyPreview = c \o JustPlan
  BY DEF LegacyPreview, a, b, c, JustInspect, JustAnswer, JustPlan
<1>7. IsJoin(LegacyPreview, c, JustPlan, 13, 1)
  <2>1. c \in Seq(StepNames) /\ Len(c) = 13
    BY <1>5 DEF IsJoin
  <2> QED
    BY <1>1, <1>6, <2>1, Joined
<1>8. LegacyPreview[1] = "inspect" /\ LegacyPreview[11] = "answer"
  BY <1>1, <1>3, <1>4, <1>5, <1>7 DEF IsJoin
<1>9. /\ LegacyPreview[12] = "list" /\ LegacyPreview[13] = "versions"
      /\ LegacyPreview[14] = "plan"
  BY <1>1, <1>2, <1>5, <1>7 DEF IsJoin
<1>10. \A i \in 1..9 : LegacyPreview[i + 1] = Snapshot[i]
  BY SMTT(60), <1>3, <1>4, <1>5, <1>7 DEF IsJoin
<1> QED
  BY <1>7, <1>8, <1>9, <1>10 DEF IsJoin

LockAndInspect == <<"lock", "inspect">>
AfterCheck == <<"same hash", "inventory db", "inventory wal", "same hash",
                "same plan", "begin", "check db", "check wal", "commit">>

LEMMA RestoreSteps ==
  /\ LegacyRestore \in Seq(StepNames) /\ Len(LegacyRestore) = 20
  /\ LegacyRestore[1] = "lock" /\ LegacyRestore[2] = "inspect"
  /\ \A i \in 1..9 : LegacyRestore[i + 2] = Snapshot[i]
  /\ \A i \in 1..9 : LegacyRestore[i + 11] = AfterCheck[i]
<1> DEFINE a == LockAndInspect \o Snapshot
<1>1. /\ LockAndInspect \in Seq(StepNames) /\ Len(LockAndInspect) = 2
      /\ LockAndInspect[1] = "lock" /\ LockAndInspect[2] = "inspect"
  BY DEF StepNames, LockAndInspect
<1>2. AfterCheck \in Seq(StepNames) /\ Len(AfterCheck) = 9
  BY DEF AfterCheck, StepNames
<1>3. IsJoin(a, LockAndInspect, Snapshot, 2, 9)
  BY <1>1, SnapshotSteps, Joined
<1> HIDE DEF a
<1>4. LegacyRestore = a \o AfterCheck
  BY DEF LegacyRestore, AfterCheck, a, LockAndInspect
<1>5. IsJoin(LegacyRestore, a, AfterCheck, 11, 9)
  <2>1. a \in Seq(StepNames) /\ Len(a) = 11
    BY <1>3 DEF IsJoin
  <2> QED
    BY <1>2, <1>4, <2>1, Joined
<1> QED
  BY <1>1, <1>3, <1>5 DEF IsJoin

(* Where a step stands in these lists, counted from `inspect'.             *)
Place(q, x) ==
  \/ q \in 1..14 /\ LegacyPreview[q] = x
  \/ q \in 0..19 /\ LegacyRestore[q + 1] = x

Later ==
  {"answer", "list", "versions", "plan", "same hash", "inventory db", "inventory wal",
   "same plan", "begin", "check db", "check wal", "commit"}

LEMMA Places ==
  ASSUME NEW q \in 0..20, NEW x, Place(q, x)
  PROVE  /\ q = 0 => x = "lock"
         /\ q = 1 => x = "inspect"
         /\ q \in 2..10 => x = Snapshot[q - 1]
         /\ q >= 11 => x \in Later
<1>1. CASE q \in 1..14 /\ LegacyPreview[q] = x
  <2>1. q \in 2..10 => x = Snapshot[q - 1]
    <3>1. ASSUME q \in 2..10
          PROVE  q - 1 \in 1..9 /\ (q - 1) + 1 = q
      BY <3>1
    <3> QED
      BY <1>1, <3>1, PreviewSteps
  <2>2. q >= 11 => x \in Later
    <3>1. q >= 11 => q = 11 \/ q = 12 \/ q = 13 \/ q = 14
      BY <1>1
    <3>2. q >= 11 => x = "answer" \/ x = "list" \/ x = "versions" \/ x = "plan"
      BY <1>1, <3>1, PreviewSteps
    <3> QED
      BY <3>2 DEF Later
  <2>3. q # 0 /\ (q = 1 => x = "inspect")
    BY SMTT(60), <1>1, PreviewSteps
  <2> QED
    BY <2>1, <2>2, <2>3
<1>2. CASE q \in 0..19 /\ LegacyRestore[q + 1] = x
  <2>1. q \in 2..10 => x = Snapshot[q - 1]
    <3>1. ASSUME q \in 2..10
          PROVE  q - 1 \in 1..9 /\ (q - 1) + 2 = q + 1
      BY <3>1
    <3> QED
      BY <1>2, <3>1, RestoreSteps
  <2>2. q >= 11 => x \in Later
    <3>1. ASSUME q >= 11
          PROVE  q - 10 \in 1..9 /\ (q - 10) + 11 = q + 1
      BY <1>2, <3>1
    <3>2. \A i \in 1..9 : AfterCheck[i] \in Later
      <4>1. AfterCheck \in Seq(Later) /\ Len(AfterCheck) = 9
        BY DEF AfterCheck, Later
      <4> QED
        BY <4>1, ElementOfSeq
    <3>3. ASSUME q >= 11
          PROVE  x = AfterCheck[q - 10] /\ AfterCheck[q - 10] \in Later
      <4>1. LegacyRestore[(q - 10) + 11] = AfterCheck[q - 10]
        BY <3>1, <3>3, RestoreSteps
      <4>2. LegacyRestore[q + 1] = AfterCheck[q - 10]
        BY <3>1, <3>3, <4>1
      <4>3. AfterCheck[q - 10] \in Later
        BY <3>1, <3>2, <3>3
      <4> QED
        BY <1>2, <4>2, <4>3
    <3> QED
      BY <3>3
  <2> QED
    BY SMTT(60), <1>2, <2>1, <2>2, RestoreSteps
<1> QED
  BY <1>1, <1>2 DEF Place

LEMMA StepIsAt ==
  ASSUME NEW q \in 0..20, NEW x, Place(q, x)
  PROVE  /\ x = "lock" => q = 0
         /\ x = "inspect" => q = 1
         /\ x = "inventory db" => q = 2 \/ q >= 11
         /\ x = "inventory wal" => q = 3 \/ q >= 11
         /\ x = "copy db" => q = 4
         /\ x = "copy wal" => q = 5
         /\ x = "check db" => q = 6 \/ q = 9 \/ q >= 11
         /\ x = "check wal" => q = 7 \/ q = 10 \/ q >= 11
         /\ x = "read" => q = 8
         /\ x \in Later \ {"inventory db", "inventory wal", "check db", "check wal"} => q >= 11
<1>1. /\ q = 0 => x = "lock"
      /\ q = 1 => x = "inspect"
      /\ q \in 2..10 => x = Snapshot[q - 1]
      /\ q >= 11 => x \in Later
  BY Places
<1>2. /\ q = 2 => x = Snapshot[1]
      /\ q = 3 => x = Snapshot[2]
      /\ q = 4 => x = Snapshot[3]
      /\ q = 5 => x = Snapshot[4]
      /\ q = 6 => x = Snapshot[5]
      /\ q = 7 => x = Snapshot[6]
      /\ q = 8 => x = Snapshot[7]
      /\ q = 9 => x = Snapshot[8]
      /\ q = 10 => x = Snapshot[9]
  BY <1>1
<1>3. /\ q = 2 => x = "inventory db"
      /\ q = 3 => x = "inventory wal"
      /\ q = 4 => x = "copy db"
      /\ q = 5 => x = "copy wal"
      /\ q = 6 => x = "check db"
      /\ q = 7 => x = "check wal"
      /\ q = 8 => x = "read"
      /\ q = 9 => x = "check db"
      /\ q = 10 => x = "check wal"
  BY ZenonT(60), <1>2, SnapshotSteps
<1>4. \/ q = 0 \/ q = 1 \/ q = 2 \/ q = 3 \/ q = 4 \/ q = 5 \/ q = 6 \/ q = 7 \/ q = 8
      \/ q = 9 \/ q = 10 \/ q >= 11
  OBVIOUS
<1>5. x = "lock" \/ x = "inspect" \/ x = "copy db" \/ x = "copy wal" \/ x = "read"
        => x \notin Later
  BY DEF Later
<1>6. ASSUME x \in Later \ {"inventory db", "inventory wal", "check db", "check wal"}
      PROVE  q >= 11
  <2>1. /\ x # "inventory db" /\ x # "inventory wal" /\ x # "check db" /\ x # "check wal"
        /\ x # "lock" /\ x # "inspect" /\ x # "copy db" /\ x # "copy wal" /\ x # "read"
    BY <1>5, <1>6
  <2> QED
    BY <1>1, <1>3, <1>4, <2>1
<1>7. q >= 11 => /\ x # "lock" /\ x # "inspect" /\ x # "copy db"
                  /\ x # "copy wal" /\ x # "read"
  BY <1>1, <1>5
<1>8. x = "lock" => q = 0
  BY <1>1, <1>3, <1>4, <1>7
<1>9. x = "inspect" => q = 1
  BY <1>1, <1>3, <1>4, <1>7
<1>10. x = "inventory db" => q = 2 \/ q >= 11
  BY <1>1, <1>3, <1>4
<1>11. x = "inventory wal" => q = 3 \/ q >= 11
  BY <1>1, <1>3, <1>4
<1>12. x = "copy db" => q = 4
  BY <1>1, <1>3, <1>4, <1>7
<1>13. x = "copy wal" => q = 5
  BY <1>1, <1>3, <1>4, <1>7
<1>14. x = "check db" => q = 6 \/ q = 9 \/ q >= 11
  BY <1>1, <1>3, <1>4
<1>15. x = "check wal" => q = 7 \/ q = 10 \/ q >= 11
  BY <1>1, <1>3, <1>4
<1>16. x = "read" => q = 8
  BY <1>1, <1>3, <1>4, <1>7
<1>17. x \in Later \ {"inventory db", "inventory wal", "check db", "check wal"} => q >= 11
  BY <1>6
<1> QED
  BY <1>8, <1>9, <1>10, <1>11, <1>12, <1>13, <1>14, <1>15, <1>16, <1>17

-----------------------------------------------------------------------------
(* One step is taken *)

LEMMA Advance ==
  ASSUME NEW j, JobOK(j), j.steps # <<>>
  PROVE  /\ JobOK(Done(j))
         /\ Done(j).steps = Tail(j.steps)
         /\ Done(j).inventory = j.inventory /\ Done(j).copy = j.copy /\ Done(j).read = j.read
         /\ Len(Tail(j.steps)) = Len(j.steps) - 1 /\ Len(j.steps) >= 1
         /\ \A i \in 1..Len(Tail(j.steps)) : Tail(j.steps)[i] = j.steps[i + 1]
         /\ Head(j.steps) = j.steps[1]
<1>1. j.steps \in Seq(StepNames)
  BY DEF JobOK
<1>2. /\ Tail(j.steps) \in Seq(StepNames)
      /\ Len(Tail(j.steps)) = Len(j.steps) - 1
      /\ \A i \in 1..Len(Tail(j.steps)) : Tail(j.steps)[i] = j.steps[i + 1]
      /\ Head(j.steps) = j.steps[1]
  BY <1>1, HeadTailProperties
<1>3. Len(j.steps) >= 1
  BY <1>1, EmptySeq
<1>4. /\ Done(j).steps = Tail(j.steps)
      /\ Done(j).inventory = j.inventory /\ Done(j).copy = j.copy /\ Done(j).read = j.read
  BY DEF Done, JobOK
<1>5. JobOK(Done(j))
  BY SMTT(60), <1>2 DEF Done, JobOK
<1> QED
  BY <1>2, <1>3, <1>4, <1>5

LEMMA StillPlain ==
  ASSUME NEW j, JobOK(j), j.steps # <<>>, NEW kind, Plain(j, kind)
  PROVE  Plain(Done(j), kind)
<1> SUFFICES ASSUME NEW i \in 1..Len(Tail(j.steps))
             PROVE  /\ Tail(j.steps)[i] # "answer"
                    /\ Tail(j.steps)[i] = "same plan" => kind # "legacy"
  BY Advance DEF Plain
<1>1. Len(j.steps) \in Nat
  BY LenProperties DEF JobOK
<1>2. Tail(j.steps)[i] = j.steps[i + 1] /\ i + 1 \in 1..Len(j.steps)
  BY <1>1, Advance
<1> QED
  BY <1>2 DEF Plain

LEMMA NextFollows ==
  ASSUME NEW j, JobOK(j), j.steps # <<>>,
         NEW steps, NEW k \in Nat, Len(steps) \in Nat, Follows(j, steps, k)
  PROVE  /\ Head(j.steps) = steps[k]
         /\ k <= Len(steps)
         /\ Follows(Done(j), steps, k + 1)
<1>1. Len(j.steps) \in Nat
  BY LenProperties DEF JobOK
<1>2. /\ Done(j).steps = Tail(j.steps)
      /\ Len(Tail(j.steps)) = Len(j.steps) - 1 /\ Len(j.steps) >= 1
      /\ \A i \in 1..Len(Tail(j.steps)) : Tail(j.steps)[i] = j.steps[i + 1]
      /\ Head(j.steps) = j.steps[1]
  BY Advance
<1>3. /\ Len(j.steps) = Len(steps) - k + 1
      /\ \A i \in 1..Len(j.steps) : j.steps[i] = steps[k + i - 1]
  BY DEF Follows
<1>4. Head(j.steps) = steps[k]
  <2>1. 1 \in 1..Len(j.steps) /\ k + 1 - 1 = k
    BY <1>1, <1>2
  <2> QED
    BY <1>2, <1>3, <2>1
<1>5. \A i \in 1..Len(Tail(j.steps)) : Tail(j.steps)[i] = steps[(k + 1) + i - 1]
  <2> TAKE i \in 1..Len(Tail(j.steps))
  <2>1. i + 1 \in 1..Len(j.steps) /\ k + (i + 1) - 1 = (k + 1) + i - 1
    BY <1>1, <1>2
  <2> QED
    BY <1>2, <1>3, <2>1
<1> QED
  BY <1>1, <1>2, <1>3, <1>4, <1>5 DEF Follows

Unfinished(j) == JobOK(j) /\ j.steps # <<>>

Advances(j, steps, k) ==
  /\ Head(j.steps) = steps[k] /\ k <= Len(steps)
  /\ Follows(Done(j), steps, k + 1)

LEMMA ToTheNext ==
  \A j, steps : \A k \in Nat :
    Unfinished(j) /\ Len(steps) \in Nat /\ Follows(j, steps, k) => Advances(j, steps, k)
BY NextFollows DEF Unfinished, Advances

LEMMA NextPlace ==
  ASSUME NEW j, JobOK(j), j.steps # <<>>, NEW q \in 0..20, OnLegacy(j, q)
  PROVE  /\ Place(q, Head(j.steps))
         /\ q + 1 \in 0..20
         /\ OnLegacy(Done(j), q + 1)
<1>1. CASE q \in 1..15 /\ Follows(j, LegacyPreview, q)
  <2>1. /\ Head(j.steps) = LegacyPreview[q] /\ q <= 14
        /\ Follows(Done(j), LegacyPreview, q + 1)
    <3>1. q \in Nat /\ Len(LegacyPreview) = 14 /\ Len(LegacyPreview) \in Nat
      BY PreviewSteps
    <3>2. Follows(j, LegacyPreview, q)
      BY <1>1
    <3>3. Unfinished(j)
      BY DEF Unfinished
    <3>4. Advances(j, LegacyPreview, q)
      BY <3>1, <3>2, <3>3, ToTheNext
    <3> QED
      BY <3>1, <3>4 DEF Advances
  <2> QED
    BY <1>1, <2>1 DEF Place, OnLegacy
<1>2. CASE q \in 0..20 /\ Follows(j, LegacyRestore, q + 1)
  <2>1. /\ Head(j.steps) = LegacyRestore[q + 1] /\ q + 1 <= 20
        /\ Follows(Done(j), LegacyRestore, q + 1 + 1)
    <3>1. PICK k \in Nat : k = q + 1
      OBVIOUS
    <3>2. Follows(j, LegacyRestore, k)
      BY <1>2, <3>1
    <3>3. Len(LegacyRestore) = 20 /\ Len(LegacyRestore) \in Nat
      BY RestoreSteps
    <3>4. Unfinished(j)
      BY DEF Unfinished
    <3>5. Advances(j, LegacyRestore, k)
      BY <3>2, <3>3, <3>4, ToTheNext
    <3> QED
      BY <3>1, <3>3, <3>5 DEF Advances
  <2> QED
    BY SMTT(60), <1>2, <2>1 DEF Place, OnLegacy
<1> QED
  BY <1>1, <1>2 DEF OnLegacy

LEMMA SameSnap ==
  ASSUME NEW q \in 0..20, NEW src, NEW j, NEW k, Snap(q, src, j),
         k.inventory = j.inventory, k.copy = j.copy, k.read = j.read
  PROVE  Snap(q, src, k)
BY DEF Snap

LEMMA Steps ==
  ASSUME IInv, NEW j, JobOK(j), j.steps = job.steps, job.steps # <<>>,
         \A q \in 0..20 : Place(q, Head(job.steps)) /\ q + 1 \in 0..20 /\ Snap(q, source, job)
                            => Snap(q + 1, source, j),
         job' = Done(j), source' = source, PageOK', page'.kind = page.kind
  PROVE  IInv'
<1>1. JobOK(job') /\ SourceOK'
  BY Advance DEF IInv, SourceOK
<1>2. ASSUME Plain(job, page.kind)
      PROVE  Plain(job', page.kind)
  <2>1. Plain(j, page.kind)
    BY <1>2 DEF Plain
  <2> QED
    BY <2>1, StillPlain
<1>3. ASSUME NEW q \in 0..20, OnLegacy(job, q), Snap(q, source, job)
      PROVE  \E p \in 0..20 : OnLegacy(job', p) /\ Snap(p, source, job')
  <2>1. OnLegacy(j, q)
    BY <1>3 DEF OnLegacy, Follows
  <2>2. Place(q, Head(job.steps)) /\ q + 1 \in 0..20 /\ OnLegacy(job', q + 1)
    BY <2>1, NextPlace
  <2>3. Snap(q + 1, source, j)
    BY <1>3, <2>2
  <2>4. Snap(q + 1, source, job')
    BY <2>2, <2>3, Advance, SameSnap
  <2> QED
    BY <2>2, <2>4
<1>4. Track(source, job', page.kind)
  BY <1>2, <1>3 DEF IInv, Track
<1> QED
  BY <1>1, <1>4 DEF IInv

(* An operation ends, or goes on with the same steps to take. *)
LEMMA Ends ==
  ASSUME IInv, job' = NoJob, source' = source, PageOK'
  PROVE  IInv'
<1>1. JobOK(NoJob) /\ NoJob.steps = <<>>
  BY DEF JobOK, NoJob, Job, NoFiles, Files, Wals
<1>2. Plain(NoJob, page'.kind)
  <2>1. Len(NoJob.steps) = 0
    BY <1>1
  <2>2. \A i \in 1..Len(NoJob.steps) : FALSE
    BY <2>1
  <2> QED
    BY <2>2, Zenon DEF Plain
<1> QED
  BY <1>1, <1>2 DEF IInv, SourceOK, Track

LEMMA Waits ==
  ASSUME IInv, JobOK(job'), job'.steps = job.steps,
         job'.inventory = job.inventory, job'.copy = job.copy, job'.read = job.read,
         source' = source, page' = page
  PROVE  IInv'
<1>1. Plain(job, page.kind) => Plain(job', page.kind)
  BY DEF Plain
<1>2. ASSUME NEW q \in 0..20, OnLegacy(job, q), Snap(q, source, job)
      PROVE  OnLegacy(job', q) /\ Snap(q, source, job')
  <2>1. OnLegacy(job', q)
    BY <1>2 DEF OnLegacy, Follows
  <2> QED
    BY <1>2, <2>1, SameSnap
<1> QED
  BY <1>1, <1>2 DEF IInv, SourceOK, PageOK, Track

(* The earlier application writes on, and nothing found out becomes wrong. *)
LEMMA SourceMoves ==
  ASSUME SourceOK, LegacyApplication
  PROVE  /\ SourceOK' /\ source'.db >= source.db
         /\ \A wal \in Wals :
              wal # NoWal /\ source.wal = wal => Gone(source', wal) \/ source'.wal = wal
         /\ \A wal \in Wals : Gone(source, wal) => Gone(source', wal)
<1> DEFINE now == Holds(source.db, source.wal)
<1>1. /\ source = [db |-> source.db, wal |-> source.wal]
      /\ source.wal = [base |-> source.wal.base, upto |-> source.wal.upto]
      /\ source.db \in Nat /\ source.db >= 1
      /\ source.wal.base \in Nat /\ source.wal.base <= source.db /\ source.wal.upto \in Nat
      /\ source.wal = NoWal \/ source.wal.upto >= 1
      /\ source \in Files /\ source.wal \in Wals
  BY DEF SourceOK, Files, Wals
<1>2. NoWal = [base |-> 0, upto |-> 0] /\ NoWal.upto = 0 /\ NoWal \in Wals
  BY DEF NoWal, Wals
<1>3. /\ now \in Nat
      /\ source.wal.upto <= source.db => now = source.db
      /\ source.wal.upto > source.db => now = source.wal.upto
  BY <1>1 DEF Holds
<1> HIDE DEF now
<1>4. CASE source' = [source EXCEPT !.wal = [base |-> now, upto |-> now + 1]]
           /\ source.wal.upto <= source.db
  <2>1. /\ source'.db = source.db /\ source'.wal = [base |-> source.db, upto |-> source.db + 1]
        /\ source'.wal.upto = source.db + 1 /\ source'.wal.base = source.db
        /\ source' \in Files
    BY <1>1, <1>3, <1>4 DEF Files, Wals
  <2>2. SourceOK'
    BY <1>1, <2>1 DEF SourceOK
  <2>3. \A wal \in Wals : source.wal = wal \/ Gone(source, wal) => Gone(source', wal)
    BY <1>1, <1>2, <1>4, <2>1 DEF Gone, Wals
  <2> QED
    BY <1>1, <2>1, <2>2, <2>3
<1>5. CASE source' = [source EXCEPT !.wal.upto = now + 1] /\ source.wal # NoWal
  <2>1. /\ source'.db = source.db /\ source'.wal = [base |-> source.wal.base, upto |-> now + 1]
        /\ source'.wal.upto = now + 1 /\ source'.wal.base = source.wal.base
        /\ source' \in Files
    BY <1>1, <1>3, <1>5 DEF Files, Wals
  <2>2. SourceOK'
    BY <1>1, <1>3, <2>1 DEF SourceOK
  <2>3. \A wal \in Wals : source.wal = wal \/ Gone(source, wal) => Gone(source', wal)
    BY <1>1, <1>3, <1>5, <2>1 DEF Gone, Wals
  <2> QED
    BY <1>1, <2>1, <2>2, <2>3
<1>6. CASE source.wal.upto > source.db /\ source' = [source EXCEPT !.db = now]
  <2>1. /\ source'.db = source.wal.upto /\ source'.wal = source.wal
        /\ source' \in Files
    BY <1>1, <1>3, <1>6 DEF Files
  <2>2. SourceOK'
    BY <1>1, <1>6, <2>1 DEF SourceOK
  <2>3. \A wal \in Wals : Gone(source, wal) => Gone(source', wal)
    BY <1>1, <1>6, <2>1 DEF Gone, Wals
  <2> QED
    BY <1>1, <1>6, <2>1, <2>2, <2>3
<1>7. CASE source.wal # NoWal /\ source.wal.upto <= source.db
           /\ source' = [source EXCEPT !.wal = NoWal]
  <2>1. /\ source'.db = source.db /\ source'.wal = NoWal
        /\ source' \in Files
    BY <1>1, <1>2, <1>7 DEF Files
  <2>2. SourceOK'
    BY <1>1, <1>2, <2>1 DEF SourceOK, NoWal
  <2>3. \A wal \in Wals : source.wal = wal \/ Gone(source, wal) => Gone(source', wal)
    BY <1>1, <1>7, <2>1 DEF Gone, Wals
  <2> QED
    BY <1>1, <2>1, <2>2, <2>3
<1> QED
  BY <1>4, <1>5, <1>6, <1>7 DEF LegacyApplication, now

LEMMA LegacyStep == IInv /\ LegacyApplication => IInv'
<1> SUFFICES ASSUME IInv, LegacyApplication
             PROVE  IInv'
  OBVIOUS
<1>1. job' = job /\ page' = page
  BY DEF LegacyApplication
<1>2. /\ SourceOK' /\ source'.db >= source.db
      /\ \A wal \in Wals :
           wal # NoWal /\ source.wal = wal => Gone(source', wal) \/ source'.wal = wal
      /\ \A wal \in Wals : Gone(source, wal) => Gone(source', wal)
  BY SourceMoves DEF IInv
<1>3. /\ job.inventory \in Files /\ job.inventory.wal \in Wals
      /\ job.inventory.db \in Nat /\ job.inventory.wal.base \in Nat /\ job.copy.db \in Nat
      /\ source.db \in Nat /\ source'.db \in Nat
  BY <1>2 DEF IInv, JobOK, Files, Wals, SourceOK
<1>4. SeenOrGone(source, job.inventory.wal) => SeenOrGone(source', job.inventory.wal)
  BY <1>2, <1>3 DEF SeenOrGone
<1>5. ASSUME NEW q \in 0..20, Snap(q, source, job)
      PROVE  Snap(q, source', job)
  BY <1>2, <1>3, <1>4, <1>5 DEF Snap
<1>6. Track(source', job, page.kind)
  BY <1>5 DEF IInv, Track
<1> QED
  BY <1>1, <1>2, <1>6 DEF IInv, PageOK

-----------------------------------------------------------------------------
(* Every step of an operation *)

LEMMA Stepping ==
  ASSUME IInv, NEW x, Doing(x)
  PROVE  job.steps # <<>> /\ Head(job.steps) = x /\ JobOK(job)
BY DEF Doing, IInv

LEMMA LockStep == IInv /\ Lock => IInv'
<1> SUFFICES ASSUME IInv, Lock
             PROVE  IInv'
  OBVIOUS
<1>1. /\ job.steps # <<>> /\ Head(job.steps) = "lock" /\ JobOK(job)
      /\ job' = Done(job) /\ source' = source /\ page' = page
  BY Stepping DEF Lock, Stays
<1>2. PageOK'
  BY <1>1 DEF IInv, PageOK
<1>3. ASSUME NEW q \in 0..20, Place(q, Head(job.steps)), q + 1 \in 0..20, Snap(q, source, job)
      PROVE  Snap(q + 1, source, job)
  <2>1. q = 0
    BY <1>1, <1>3, StepIsAt
  <2> QED
    BY <2>1 DEF Snap
<1> QED
  BY <1>1, <1>2, <1>3, Steps

LEMMA InspectStep == IInv /\ Inspect => IInv'
<1> SUFFICES ASSUME IInv, Inspect
             PROVE  IInv'
  OBVIOUS
<1> DEFINE j == [job EXCEPT !.inspected = source.db]
<1>1. /\ job.steps # <<>> /\ Head(job.steps) = "inspect" /\ JobOK(job)
      /\ job' = Done(j) /\ source' = source /\ page' = page
  BY Stepping DEF Inspect, Continue, Stays
<1>2. JobOK(j) /\ j.steps = job.steps
  BY <1>1 DEF JobOK
<1> HIDE DEF j
<1>3. PageOK'
  BY <1>1 DEF IInv, PageOK
<1>4. ASSUME NEW q \in 0..20, Place(q, Head(job.steps)), q + 1 \in 0..20, Snap(q, source, job)
      PROVE  Snap(q + 1, source, j)
  <2>1. q = 1
    BY <1>1, <1>4, StepIsAt
  <2> QED
    BY <2>1 DEF Snap
<1> QED
  BY <1>1, <1>2, <1>3, <1>4, Steps

(* Once the copies have been read, nothing is forgotten.                   *)
LEMMA LaterSnap ==
  ASSUME NEW q \in 9..19, NEW src, NEW j, NEW k, Snap(q, src, j), k.read = j.read
  PROVE  Snap(q + 1, src, k)
BY DEF Snap

LEMMA LateSnap ==
  ASSUME NEW q \in 0..20, q >= 11, q + 1 \in 0..20,
         NEW src, NEW j, NEW k, Snap(q, src, j), k.read = j.read
  PROVE  Snap(q + 1, src, k)
BY LaterSnap

LEMMA InventoryStep == IInv /\ InventoryFile => IInv'
<1> SUFFICES ASSUME IInv, InventoryFile
             PROVE  IInv'
  OBVIOUS
<1>0. source' = source /\ SourceOK /\ JobOK(job)
  BY DEF IInv, InventoryFile, Stays
<1>1. CASE Doing("inventory db") /\ Continue([job EXCEPT !.inventory.db = source.db])
  <2> DEFINE j == [job EXCEPT !.inventory.db = source.db]
  <2>1. /\ job.steps # <<>> /\ Head(job.steps) = "inventory db"
        /\ job' = Done(j) /\ page' = page
    BY <1>1, Stepping DEF Continue
  <2>2. /\ JobOK(j) /\ j.steps = job.steps /\ j.read = job.read
        /\ j.inventory.db = source.db
    BY <1>0 DEF JobOK, SourceOK, Files
  <2> HIDE DEF j
  <2>3. PageOK'
    BY <2>1 DEF IInv, PageOK
  <2>4. ASSUME NEW q \in 0..20, Place(q, Head(job.steps)), q + 1 \in 0..20,
               Snap(q, source, job)
        PROVE  Snap(q + 1, source, j)
    <3>1. q = 2 \/ q >= 11
      BY <2>1, <2>4, StepIsAt
    <3>2. CASE q = 2
      BY <1>0, <2>2, <3>2 DEF Snap, SourceOK, Files
    <3>3. CASE q >= 11
      BY <2>2, <2>4, <3>3, LaterSnap
    <3> QED
      BY <3>1, <3>2, <3>3
  <2> QED
    BY <1>0, <2>1, <2>2, <2>3, <2>4, Steps
<1>2. CASE Doing("inventory wal") /\ Continue([job EXCEPT !.inventory.wal = source.wal])
  <2> DEFINE j == [job EXCEPT !.inventory.wal = source.wal]
  <2>1. /\ job.steps # <<>> /\ Head(job.steps) = "inventory wal"
        /\ job' = Done(j) /\ page' = page
    BY <1>2, Stepping DEF Continue
  <2>2. /\ JobOK(j) /\ j.steps = job.steps /\ j.read = job.read
        /\ j.inventory.wal = source.wal /\ j.inventory.db = job.inventory.db
    BY <1>0 DEF JobOK, SourceOK, Files
  <2> HIDE DEF j
  <2>3. PageOK'
    BY <2>1 DEF IInv, PageOK
  <2>4. ASSUME NEW q \in 0..20, Place(q, Head(job.steps)), q + 1 \in 0..20,
               Snap(q, source, job)
        PROVE  Snap(q + 1, source, j)
    <3>1. q = 3 \/ q >= 11
      BY <2>1, <2>4, StepIsAt
    <3>2. CASE q = 3
      BY <1>0, <2>2, <2>4, <3>2 DEF Snap, SourceOK, SeenOrGone
    <3>3. CASE q >= 11
      BY <2>2, <2>4, <3>3, LaterSnap
    <3> QED
      BY <3>1, <3>2, <3>3
  <2> QED
    BY <1>0, <2>1, <2>2, <2>3, <2>4, Steps
<1> QED
  BY <1>1, <1>2 DEF InventoryFile

LEMMA CopyStep == IInv /\ CopyFile => IInv'
<1> SUFFICES ASSUME IInv, CopyFile
             PROVE  IInv'
  OBVIOUS
<1>0. source' = source /\ SourceOK /\ JobOK(job) /\ PageOK
  BY DEF IInv, CopyFile, Stays
<1>1. CASE Doing("copy db") /\ Continue([job EXCEPT !.copy.db = source.db])
  <2> DEFINE j == [job EXCEPT !.copy.db = source.db]
  <2>1. /\ job.steps # <<>> /\ Head(job.steps) = "copy db"
        /\ job' = Done(j) /\ page' = page
    BY <1>1, Stepping DEF Continue
  <2>2. /\ JobOK(j) /\ j.steps = job.steps
        /\ j.inventory = job.inventory /\ j.copy.db = source.db
    BY <1>0 DEF JobOK, SourceOK, Files
  <2> HIDE DEF j
  <2>3. PageOK'
    BY <1>0, <2>1 DEF PageOK
  <2>4. ASSUME NEW q \in 0..20, Place(q, Head(job.steps)), q + 1 \in 0..20,
               Snap(q, source, job)
        PROVE  Snap(q + 1, source, j)
    <3>1. q = 4
      BY <2>1, <2>4, StepIsAt
    <3> QED
      BY <1>0, <2>2, <2>4, <3>1 DEF Snap, SourceOK, Files
  <2> QED
    BY <1>0, <2>1, <2>2, <2>3, <2>4, Steps
<1>2. CASE /\ Doing("copy wal") /\ job.inventory.wal # NoWal /\ source.wal = NoWal
           /\ Refused
  <2>1. PageOK'
    BY <1>0, <1>2 DEF PageOK, Refused
  <2> QED
    BY <1>0, <1>2, <2>1, Ends DEF Refused
<1>3. CASE /\ Doing("copy wal") /\ ~(job.inventory.wal # NoWal /\ source.wal = NoWal)
           /\ Continue([job EXCEPT !.copy.wal =
                          IF job.inventory.wal = NoWal THEN NoWal ELSE source.wal])
  <2> DEFINE w == IF job.inventory.wal = NoWal THEN NoWal ELSE source.wal
             j == [job EXCEPT !.copy.wal = w]
  <2>1. /\ job.steps # <<>> /\ Head(job.steps) = "copy wal"
        /\ job' = Done(j) /\ page' = page
    BY <1>3, Stepping DEF Continue
  <2>2. w \in Wals
    BY <1>0 DEF SourceOK, Files, Wals, NoWal
  <2>3. /\ job.inventory.wal = NoWal => w = NoWal
        /\ job.inventory.wal # NoWal => w = source.wal /\ source.wal # NoWal
    BY <1>3
  <2> HIDE DEF w
  <2>4. /\ JobOK(j) /\ j.steps = job.steps
        /\ j.inventory = job.inventory /\ j.copy.db = job.copy.db /\ j.copy.wal = w
    BY <1>0, <2>2 DEF JobOK, Files
  <2> HIDE DEF j
  <2>5. PageOK'
    BY <1>0, <2>1 DEF PageOK
  <2>6. ASSUME NEW q \in 0..20, Place(q, Head(job.steps)), q + 1 \in 0..20,
               Snap(q, source, job)
        PROVE  Snap(q + 1, source, j)
    <3>1. q = 5
      BY <2>1, <2>6, StepIsAt
    <3>2. SeenOrGone(source, job.inventory.wal)
      BY <2>6, <3>1 DEF Snap
    <3>3. \/ w = job.inventory.wal
          \/ job.inventory.wal # NoWal /\ Gone(source, job.inventory.wal)
      BY <2>3, <3>2 DEF SeenOrGone
    <3> QED
      BY <2>4, <2>6, <3>1, <3>3 DEF Snap
  <2> QED
    BY <1>0, <2>1, <2>4, <2>5, <2>6, Steps
<1> QED
  BY <1>1, <1>2, <1>3 DEF CopyFile

LEMMA SnapOfSix ==
  ASSUME NEW src, NEW j, Snap(6, src, j)
  PROVE  /\ 1 <= j.inventory.db /\ j.inventory.wal.base <= src.db
         /\ j.inventory.db <= j.copy.db /\ j.copy.db <= src.db
         /\ SeenOrGone(src, j.inventory.wal)
         /\ \/ j.copy.wal = j.inventory.wal
            \/ j.inventory.wal # NoWal /\ Gone(src, j.inventory.wal)
<1>1. 6 \in 3..6 /\ 6 \in 4..6 /\ 6 \in 4..7 /\ 6 \in 5..6 /\ 6 \in 6..7
  OBVIOUS
<1> QED
  BY <1>1, Zenon DEF Snap

LEMMA CheckStep == IInv /\ CheckFile => IInv'
<1> SUFFICES ASSUME IInv, CheckFile
             PROVE  IInv'
  OBVIOUS
<1>0. source' = source /\ SourceOK /\ JobOK(job) /\ PageOK
  BY DEF IInv, CheckFile, Stays
<1>1. /\ source.db \in Nat /\ job.inventory.db \in Nat /\ job.copy.db \in Nat
      /\ source.wal.base \in Nat /\ source.wal.upto \in Nat /\ job.inventory.wal.base \in Nat
  BY <1>0 DEF SourceOK, JobOK, Files, Wals
<1>2. CASE Doing("check db") /\ source.db = job.inventory.db /\ Continue(job)
  <2>1. /\ job.steps # <<>> /\ Head(job.steps) = "check db"
        /\ job' = Done(job) /\ page' = page
    BY <1>2, Stepping DEF Continue
  <2>2. PageOK'
    BY <1>0, <2>1 DEF PageOK
  <2>3. ASSUME NEW q \in 0..20, Place(q, Head(job.steps)), q + 1 \in 0..20,
               Snap(q, source, job)
        PROVE  Snap(q + 1, source, job)
    <3>1. q = 6 \/ q = 9 \/ q >= 11
      BY <2>1, <2>3, StepIsAt
    <3>2. CASE q = 6
      <4>1. /\ source.db = job.inventory.db
            /\ 1 <= job.inventory.db /\ job.inventory.wal.base <= source.db
            /\ job.inventory.db <= job.copy.db /\ job.copy.db <= source.db
            /\ SeenOrGone(source, job.inventory.wal)
            /\ \/ job.copy.wal = job.inventory.wal
               \/ job.inventory.wal # NoWal /\ Gone(source, job.inventory.wal)
        <5>1. Snap(6, source, job)
          BY <2>3, <3>2
        <5> QED
          BY <1>2, <5>1, SnapOfSix
      <4>2. job.copy.db = job.inventory.db /\ job.inventory.wal.base <= job.inventory.db
        BY <1>1, <4>1
      <4> QED
        BY <3>2, <4>1, <4>2 DEF Snap
    <3>3. CASE q = 9 \/ q >= 11
      BY <2>3, <3>3, LaterSnap
    <3> QED
      BY <3>1, <3>2, <3>3
  <2> QED
    BY <1>0, <2>1, <2>2, <2>3, Steps
<1>3. CASE Doing("check wal") /\ source.wal = job.inventory.wal /\ Continue(job)
  <2>1. /\ job.steps # <<>> /\ Head(job.steps) = "check wal"
        /\ job' = Done(job) /\ page' = page
    BY <1>3, Stepping DEF Continue
  <2>2. PageOK'
    BY <1>0, <2>1 DEF PageOK
  <2>3. ASSUME NEW q \in 0..20, Place(q, Head(job.steps)), q + 1 \in 0..20,
               Snap(q, source, job)
        PROVE  Snap(q + 1, source, job)
    <3>1. q = 7 \/ q = 10 \/ q >= 11
      BY <2>1, <2>3, StepIsAt
    <3>2. CASE q = 7
      <4>1. source.wal = job.inventory.wal
        BY <1>3
      <4>2. ~(source.wal.upto > job.inventory.wal.upto)
        BY <1>1, <4>1
      <4>3. \/ job.copy.wal = job.inventory.wal
            \/ job.inventory.wal # NoWal /\ Gone(source, job.inventory.wal)
        BY <2>3, <3>2 DEF Snap
      <4>4. job.copy.wal = job.inventory.wal
        BY <4>1, <4>2, <4>3, Zenon DEF Gone
      <4> QED
        BY <2>3, <3>2, <4>4 DEF Snap
    <3>3. CASE q = 10 \/ q >= 11
      BY <2>3, <3>3, LaterSnap
    <3> QED
      BY <3>1, <3>2, <3>3
  <2> QED
    BY <1>0, <2>1, <2>2, <2>3, Steps
<1>4. CASE Refused
  <2>1. PageOK'
    BY <1>0, <1>4 DEF PageOK, Refused
  <2> QED
    BY <1>0, <1>4, <2>1, Ends DEF Refused
<1> QED
  BY <1>2, <1>3, <1>4 DEF CheckFile

(* Both copies are of one moment here, and together they are not empty.    *)
LEMMA ReadStep == IInv /\ ReadDocument => IInv'
<1> SUFFICES ASSUME IInv, ReadDocument
             PROVE  IInv'
  OBVIOUS
<1> DEFINE n == Holds(job.copy.db, job.copy.wal)
           j == [job EXCEPT !.read = n]
<1>0. source' = source /\ SourceOK /\ JobOK(job) /\ PageOK
  BY DEF IInv, ReadDocument, Stays
<1>1. CASE Doing("read") /\ Continue(j)
  <2>1. /\ job.steps # <<>> /\ Head(job.steps) = "read"
        /\ job' = Done(j) /\ page' = page
    BY <1>1, Stepping DEF Continue
  <2>2. JobOK(j) /\ j.steps = job.steps /\ j.read = n
    BY <1>0 DEF JobOK
  <2>3. PageOK'
    BY <1>0, <2>1 DEF PageOK
  <2>4. ASSUME NEW q \in 0..20, Place(q, Head(job.steps)), q + 1 \in 0..20,
               Snap(q, source, job)
        PROVE  Snap(q + 1, source, j)
    <3>1. q = 8
      BY <2>1, <2>4, StepIsAt
    <3>2. /\ job.copy.wal.base <= job.copy.db /\ 1 <= job.copy.db
          /\ job.copy.db \in Nat /\ job.copy.wal.upto \in Nat /\ job.copy.wal.base \in Nat
      <4>1. /\ job.copy.db = job.inventory.db /\ 1 <= job.inventory.db
            /\ job.inventory.wal.base <= job.inventory.db
            /\ job.copy.wal = job.inventory.wal
        BY <2>4, <3>1 DEF Snap
      <4> QED
        BY <1>0, <4>1 DEF JobOK, Files, Wals
    <3>3. n # 0
      BY <3>2 DEF Holds
    <3> HIDE DEF n, j
    <3> QED
      BY <2>2, <3>1, <3>3 DEF Snap
  <2> HIDE DEF n, j
  <2> QED
    BY <1>0, <2>1, <2>2, <2>3, <2>4, Steps
<1>2. CASE Refused
  <2>1. PageOK'
    BY <1>0, <1>2 DEF PageOK, Refused
  <2> QED
    BY <1>0, <1>2, <2>1, Ends DEF Refused
<1>3. Doing("read") /\ (Continue(j) \/ Refused)
  BY DEF ReadDocument
<1> QED
  BY <1>1, <1>2, <1>3

(* The steps after the reading change nothing that was found out.          *)
LEMMA LaterStep ==
  ASSUME IInv, NEW x \in {"answer", "list", "versions", "same hash", "same plan", "begin"},
         Doing(x), NEW j, JobOK(j), j.steps = job.steps, j.read = job.read,
         job' = Done(j), source' = source, PageOK', page'.kind = page.kind
  PROVE  IInv'
<1>1. job.steps # <<>> /\ Head(job.steps) = x
  BY Stepping
<1>2. x \in Later \ {"inventory db", "inventory wal", "check db", "check wal"}
  BY DEF Later
<1>3. ASSUME NEW q \in 0..20, Place(q, Head(job.steps)), q + 1 \in 0..20, Snap(q, source, job)
      PROVE  Snap(q + 1, source, j)
  <2>1. q >= 11
    BY <1>1, <1>2, <1>3, StepIsAt
  <2> QED
    BY <1>3, <2>1, LateSnap
<1> QED
  BY <1>1, <1>3, Steps

LEMMA AnswerStep == IInv /\ AnswerPreview => IInv'
<1> SUFFICES ASSUME IInv, AnswerPreview
             PROVE  IInv'
  OBVIOUS
<1>1. /\ Doing("answer") /\ job' = Done(job) /\ source' = source
      /\ page' = [page EXCEPT !.document = DocumentAt(job.read), !.hash = job.inspected]
  BY DEF AnswerPreview, Stays
<1>2. PageOK' /\ page'.kind = page.kind
  BY <1>1 DEF IInv, PageOK
<1> QED
  BY <1>1, <1>2, LaterStep DEF IInv

LEMMA ListedIs ==
  ASSUME NEW j, JobOK(j), NEW left, NEW seen
  PROVE  LET k == [j EXCEPT !.left = left, !.seen = seen]
         IN JobOK(k) /\ k.steps = j.steps /\ k.read = j.read
<1> DEFINE a == [j EXCEPT !.left = left]
           b == [a EXCEPT !.seen = seen]
           k == [j EXCEPT !.left = left, !.seen = seen]
<1>1. JobOK(a) /\ a.steps = j.steps /\ a.read = j.read
  BY DEF JobOK
<1>2. k = b
  OBVIOUS
<1> HIDE DEF a
<1>3. JobOK(b) /\ b.steps = a.steps /\ b.read = a.read
  BY <1>1 DEF JobOK
<1> HIDE DEF b, k
<1>4. JobOK(k) /\ k.steps = j.steps /\ k.read = j.read
  BY <1>1, <1>2, <1>3
<1> QED
  BY <1>4 DEF k

LEMMA ListStep == IInv /\ ListPrompts => IInv'
<1> SUFFICES ASSUME IInv, ListPrompts
             PROVE  IInv'
  OBVIOUS
<1> DEFINE seen == [s \in DOMAIN library |-> Summary(library[s])]
           left == DOMAIN library
           j == [job EXCEPT !.left = left, !.seen = seen]
<1>1. /\ Doing("list") /\ job' = Done(j) /\ source' = source /\ page' = page
  BY DEF ListPrompts, Continue, Stays
<1> HIDE DEF seen, left
<1>0. JobOK(job)
  BY DEF IInv
<1>2. JobOK(j) /\ j.steps = job.steps /\ j.read = job.read
  BY ZenonT(60), <1>0, ListedIs
<1>3. PageOK'
  BY <1>1 DEF IInv, PageOK
<1> HIDE DEF j
<1> QED
  BY <1>1, <1>2, <1>3, LaterStep

LEMMA VersionsStep == IInv /\ ListPromptVersions => IInv'
<1> SUFFICES ASSUME IInv, ListPromptVersions
             PROVE  IInv'
  OBVIOUS
<1>0. source' = source /\ JobOK(job) /\ PageOK /\ Doing("versions")
  BY DEF IInv, ListPromptVersions, Stays
<1>1. CASE Continue(job)
  <2>1. PageOK' /\ page' = page
    BY <1>0, <1>1 DEF PageOK, Continue
  <2> QED
    BY <1>0, <1>1, <2>1, LaterStep DEF Continue
<1>2. CASE Refused
  <2>1. PageOK'
    BY <1>0, <1>2 DEF PageOK, Refused
  <2> QED
    BY <1>0, <1>2, <2>1, Ends DEF Refused
<1>3. ASSUME NEW s \in job.left,
             job' = [job EXCEPT !.left = @ \ {s}, !.seen[s].versions = library[s].versions],
             page' = page
      PROVE  IInv'
  <2>1. /\ JobOK(job') /\ job'.steps = job.steps
        /\ job'.inventory = job.inventory /\ job'.copy = job.copy /\ job'.read = job.read
    BY <1>0, <1>3 DEF JobOK
  <2> QED
    BY <1>0, <1>3, <2>1, Waits
<1> QED
  BY <1>1, <1>2, <1>3 DEF ListPromptVersions

LEMMA HashStep == IInv /\ SameHash => IInv'
<1> SUFFICES ASSUME IInv, SameHash
             PROVE  IInv'
  OBVIOUS
<1>0. source' = source /\ JobOK(job) /\ PageOK /\ Doing("same hash")
  BY DEF IInv, SameHash, Stays
<1>1. CASE Continue(job)
  <2>1. PageOK' /\ page' = page
    BY <1>0, <1>1 DEF PageOK, Continue
  <2> QED
    BY <1>0, <1>1, <2>1, LaterStep DEF Continue
<1>2. CASE RefusedAsStale
  <2>1. PageOK'
    BY <1>0, <1>2 DEF PageOK, RefusedAsStale
  <2> QED
    BY <1>0, <1>2, <2>1, Ends DEF RefusedAsStale
<1> QED
  BY <1>1, <1>2 DEF SameHash

LEMMA PlanStep == IInv /\ SamePlan => IInv'
<1> SUFFICES ASSUME IInv, SamePlan
             PROVE  IInv'
  OBVIOUS
<1>0. source' = source /\ JobOK(job) /\ PageOK /\ Doing("same plan")
  BY DEF IInv, SamePlan, Stays
<1>1. CASE Continue(job)
  <2>1. PageOK' /\ page' = page
    BY <1>0, <1>1 DEF PageOK, Continue
  <2> QED
    BY <1>0, <1>1, <2>1, LaterStep DEF Continue
<1>2. CASE RefusedAsStale
  <2>1. PageOK'
    BY <1>0, <1>2 DEF PageOK, RefusedAsStale
  <2> QED
    BY <1>0, <1>2, <2>1, Ends DEF RefusedAsStale
<1>3. CASE Refused
  <2>1. PageOK'
    BY <1>0, <1>3 DEF PageOK, Refused
  <2> QED
    BY <1>0, <1>3, <2>1, Ends DEF Refused
<1> QED
  BY <1>1, <1>2, <1>3 DEF SamePlan

LEMMA Writing ==
  ASSUME NEW j, JobOK(j), NEW begun
  PROVE  LET k == [j EXCEPT !.begun = begun]
         IN JobOK(k) /\ k.steps = j.steps /\ k.read = j.read
BY DEF JobOK

LEMMA BeginStep == IInv /\ BeginTransaction => IInv'
<1> SUFFICES ASSUME IInv, BeginTransaction
             PROVE  IInv'
  OBVIOUS
<1> DEFINE j == [job EXCEPT !.begun = TRUE]
<1>0. source' = source /\ JobOK(job) /\ PageOK /\ Doing("begin") /\ page' = page
  BY DEF IInv, BeginTransaction, Stays, Continue
<1>1. job' = Done(j)
  BY DEF BeginTransaction, Continue
<1>2. JobOK(j) /\ j.steps = job.steps /\ j.read = job.read
  BY <1>0, Writing
<1> HIDE DEF j
<1>3. PageOK'
  BY <1>0 DEF PageOK
<1> QED
  BY <1>0, <1>1, <1>2, <1>3, LaterStep

LEMMA LastStep ==
  ASSUME IInv, HandOut \/ ShowPlan \/ Commit \/ Crash
  PROVE  IInv'
<1>0. PageOK
  BY DEF IInv
<1>1. job' = NoJob /\ source' = source
  BY DEF HandOut, ShowPlan, Commit, Crash, Stays
<1>2. PageOK'
  <2>1. CASE page' = page
    BY <1>0, <2>1 DEF PageOK
  <2>2. CASE page' = NoPage
    BY <2>2 DEF PageOK, NoPage
  <2>3. CASE ShowPlan
    BY <1>0, <2>3 DEF PageOK, ShowPlan
  <2> QED
    BY <2>1, <2>2, <2>3 DEF HandOut, Commit, Crash
<1> QED
  BY <1>1, <1>2, Ends

(* The commands of the prompts and the other processes do not touch it.    *)
LEMMA OtherStep ==
  ASSUME IInv, PromptCommand \/ NodeProcess \/ UNCHANGED vars
  PROVE  IInv'
<1>1. source' = source /\ page' = page /\ job' = job
  BY DEF PromptCommand, NodeProcess, CreatePrompt, AddPromptVersion, UpdateRow, UnlinkTags,
         StoreTag, DeleteTags, DeleteVersions, DeleteRow, recovering, vars
<1> QED
  BY <1>1 DEF IInv, SourceOK, PageOK

-----------------------------------------------------------------------------
(* An operation begins *)

LEMMA Begun ==
  ASSUME NEW op, NEW policy, NEW steps \in Seq(StepNames)
  PROVE  JobOK(Job(op, policy, steps)) /\ Job(op, policy, steps).steps = steps
BY DEF JobOK, Job, NoFiles, Files, Wals

LEMMA PlainBegins ==
  ASSUME IInv, NEW op, NEW policy, NEW steps \in Seq(StepNames), Start(op, policy, steps), PageOK',
         \A i \in 1..Len(steps) :
           steps[i] # "answer" /\ (steps[i] = "same plan" => page'.kind # "legacy")
  PROVE  IInv'
<1>1. job' = Job(op, policy, steps) /\ source' = source
  BY DEF Start
<1>2. JobOK(job') /\ job'.steps = steps
  BY <1>1, Begun
<1>3. Plain(job', page'.kind)
  BY <1>2 DEF Plain
<1> QED
  BY <1>1, <1>2, <1>3 DEF IInv, Track, SourceOK

LEMMA LegacyBegins ==
  ASSUME IInv, NEW op, NEW policy, NEW steps \in Seq(StepNames), Start(op, policy, steps), PageOK',
         steps = LegacyPreview \/ steps = LegacyRestore
  PROVE  IInv'
<1>1. job' = Job(op, policy, steps) /\ source' = source
  BY DEF Start
<1>2. JobOK(job') /\ job'.steps = steps
  BY <1>1, Begun
<1>3. Len(steps) \in Nat
  BY LenProperties
<1>4. \E q \in 0..20 : OnLegacy(job', q) /\ Snap(q, source', job')
  <2>1. CASE steps = LegacyPreview
    <3>1. Follows(job', LegacyPreview, 1)
      BY <1>2, <1>3, <2>1 DEF Follows
    <3>2. OnLegacy(job', 1) /\ Snap(1, source', job')
      BY <3>1 DEF OnLegacy, Snap
    <3> QED
      BY <3>2
  <2>2. CASE steps = LegacyRestore
    <3>1. Follows(job', LegacyRestore, 0 + 1)
      BY <1>2, <1>3, <2>2 DEF Follows
    <3>2. OnLegacy(job', 0) /\ Snap(0, source', job')
      BY <3>1 DEF OnLegacy, Snap
    <3> QED
      BY <3>2
  <2> QED
    BY <2>1, <2>2
<1> QED
  BY <1>1, <1>2, <1>4 DEF IInv, Track, SourceOK

(* The two steps that use the document of the earlier database.            *)
UsesDocument(step) == step = "answer" \/ step = "same plan"

LEMMA PlainList ==
  ASSUME NEW last \in StepNames, ~UsesDocument(last)
  PROVE  LET steps == ReadLibrary \o <<last>>
         IN /\ steps \in Seq(StepNames)
            /\ \A i \in 1..Len(steps) : ~UsesDocument(steps[i])
<1> DEFINE end == <<last>>
           steps == ReadLibrary \o end
<1>1. ReadLibrary \in Seq(StepNames) /\ Len(ReadLibrary) = 2
  BY ReadLibrarySteps
<1>2. ReadLibrary[1] = "list" /\ ReadLibrary[2] = "versions"
  BY ReadLibrarySteps
<1>3. end \in Seq(StepNames) /\ Len(end) = 1 /\ end[1] = last
  OBVIOUS
<1> HIDE DEF end
<1>4. IsJoin(steps, ReadLibrary, end, 2, 1)
  BY <1>1, <1>3, Joined
<1> HIDE DEF steps
<1>5. steps \in Seq(StepNames) /\ Len(steps) = 3
  BY <1>4 DEF IsJoin
<1>6. steps[1] = "list" /\ steps[2] = "versions" /\ steps[3] = last
  <2>1. 1 \in 1..2 /\ 2 \in 1..2 /\ 1 \in 1..1 /\ 2 + 1 = 3
    OBVIOUS
  <2> QED
    BY <1>2, <1>3, <1>4, <2>1 DEF IsJoin
<1>7. \A i \in 1..Len(steps) : ~UsesDocument(steps[i])
  <2>1. \A i \in 1..Len(steps) : i = 1 \/ i = 2 \/ i = 3
    BY <1>5
  <2>2. ~UsesDocument(steps[1]) /\ ~UsesDocument(steps[2]) /\ ~UsesDocument(steps[3])
    BY <1>6 DEF UsesDocument
  <2> QED
    BY <2>1, <2>2
<1> QED
  BY <1>5, <1>7 DEF steps, end

FileSteps == <<"lock", "same plan", "begin", "commit">>

LEMMA FilePlan ==
  FileSteps \in Seq(StepNames) /\ \A i \in 1..Len(FileSteps) : FileSteps[i] # "answer"
<1>1. FileSteps \in Seq({"lock", "same plan", "begin", "commit"})
  BY DEF FileSteps
<1>2. FileSteps \in Seq(StepNames)
  BY DEF FileSteps, StepNames
<1>3. ASSUME NEW i \in 1..Len(FileSteps)
      PROVE  FileSteps[i] # "answer"
  <2>1. FileSteps[i] \in {"lock", "same plan", "begin", "commit"}
    BY <1>1, ElementOfSeq
  <2> QED
    BY <2>1
<1> QED
  BY <1>2, <1>3

LEMMA StartStep ==
  ASSUME IInv,
         Export \/ PreviewFile \/ PreviewLegacy \/ \E policy \in Policies : Execute(policy)
  PROVE  IInv'
<1>0. PageOK
  BY DEF IInv
<1>1. CASE Export
  <2>1. "hand out" \in StepNames /\ ~UsesDocument("hand out")
    BY DEF StepNames, UsesDocument
  <2>2. PageOK'
    BY <1>0, <1>1 DEF Export, PageOK
  <2> DEFINE steps == ReadLibrary \o <<"hand out">>
  <2>3. /\ steps \in Seq(StepNames)
        /\ \A i \in 1..Len(steps) : ~UsesDocument(steps[i])
    BY <2>1, PlainList
  <2>4. Start("export", "none", steps)
    BY <1>1 DEF Export
  <2> HIDE DEF steps
  <2> QED
    BY <2>2, <2>3, <2>4, PlainBegins DEF UsesDocument
<1>2. CASE PreviewFile
  <2>1. "plan" \in StepNames /\ ~UsesDocument("plan")
    BY DEF StepNames, UsesDocument
  <2>2. PageOK'
    BY <1>2 DEF PreviewFile, PageOK, NoPage
  <2> DEFINE steps == ReadLibrary \o <<"plan">>
  <2>3. /\ steps \in Seq(StepNames)
        /\ \A i \in 1..Len(steps) : ~UsesDocument(steps[i])
    BY <2>1, PlainList
  <2>4. Start("preview", "none", steps)
    BY <1>2 DEF PreviewFile
  <2> HIDE DEF steps
  <2> QED
    BY <2>2, <2>3, <2>4, PlainBegins DEF UsesDocument
<1>3. CASE PreviewLegacy
  <2>1. PageOK'
    BY <1>3 DEF PreviewLegacy, PageOK, NoPage
  <2>2. LegacyPreview \in Seq(StepNames)
    BY PreviewSteps
  <2> QED
    BY <1>3, <2>1, <2>2, LegacyBegins DEF PreviewLegacy
<1>4. ASSUME NEW policy \in Policies, Execute(policy)
      PROVE  IInv'
  <2>1. page' = page
    BY <1>4 DEF Execute
  <2>2. PageOK'
    BY <1>0, <2>1 DEF PageOK
  <2>3. CASE page.kind = "legacy"
    <3>1. Start("restore", policy, LegacyRestore)
      BY <1>4, <2>3 DEF Execute
    <3>2. LegacyRestore \in Seq(StepNames)
      BY RestoreSteps
    <3> QED
      BY <2>2, <3>1, <3>2, LegacyBegins
  <2>4. CASE page.kind # "legacy"
    <3>1. Start("restore", policy, FileSteps)
      BY <1>4, <2>4 DEF Execute, FileSteps
    <3> QED
      BY <2>1, <2>2, <2>4, <3>1, FilePlan, PlainBegins
  <2> QED
    BY <2>3, <2>4
<1> QED
  BY <1>1, <1>2, <1>3, <1>4

-----------------------------------------------------------------------------
LEMMA Initially == Init => IInv
<1> SUFFICES ASSUME Init
             PROVE  IInv
  OBVIOUS
<1>1. SourceOK
  BY DEF Init, SourceOK, Files, Wals, NoWal
<1>2. PageOK /\ JobOK(job)
  BY Begun DEF Init, PageOK, NoPage, NoJob, JobOK, Job, NoFiles, Files, Wals
<1>3. Len(job.steps) = 0
  BY DEF Init, NoJob, Job
<1>4. \A i \in 1..Len(job.steps) : FALSE
  BY <1>3
<1>5. Plain(job, page.kind)
  BY <1>4, Zenon DEF Plain
<1> QED
  BY <1>1, <1>2, <1>5 DEF IInv, Track

LEMMA Preserved == IInv /\ [Next]_vars => IInv'
<1> SUFFICES ASSUME IInv, [Next]_vars
             PROVE  IInv'
  OBVIOUS
<1>1. CASE Recovery
  <2>1. CASE Export \/ PreviewFile \/ PreviewLegacy \/ \E policy \in Policies : Execute(policy)
    BY <2>1, StartStep
  <2>2. CASE Lock \/ Inspect \/ InventoryFile \/ CopyFile \/ CheckFile \/ ReadDocument
    BY <2>2, LockStep, InspectStep, InventoryStep, CopyStep, CheckStep, ReadStep
  <2>3. CASE AnswerPreview \/ ListPrompts \/ ListPromptVersions
    BY <2>3, AnswerStep, ListStep, VersionsStep
  <2>4. CASE HandOut \/ ShowPlan \/ Commit
    BY <2>4, LastStep
  <2>5. CASE SameHash \/ SamePlan \/ BeginTransaction
    BY <2>5, HashStep, PlanStep, BeginStep
  <2> QED
    BY <1>1, <2>1, <2>2, <2>3, <2>4, <2>5 DEF Recovery
<1>2. CASE LegacyApplication
  BY <1>2, LegacyStep
<1>3. CASE PromptCommand \/ NodeProcess \/ UNCHANGED vars
  BY <1>3, OtherStep
<1>4. CASE Crash
  BY <1>4, LastStep
<1> QED
  BY <1>1, <1>2, <1>3, <1>4 DEF Next

(* Both places where the document is used come after the reading of it.    *)
LEMMA NotTornFollows == IInv => NotTorn
<1> SUFFICES ASSUME IInv, page.kind = "legacy", NEW x, Doing(x), UsesDocument(x)
             PROVE  job.read # 0
  BY DEF NotTorn, UsesDocument
<1>1. job.steps # <<>> /\ Head(job.steps) = x /\ JobOK(job)
  BY Stepping
<1>2. ~Plain(job, page.kind)
  <2>1. Head(job.steps) = job.steps[1] /\ Len(job.steps) >= 1 /\ Len(job.steps) \in Nat
    BY <1>1, Advance, LenProperties DEF JobOK
  <2>2. 1 \in 1..Len(job.steps)
    BY <2>1
  <2> QED
    BY <1>1, <2>1, <2>2 DEF Plain, UsesDocument
<1>3. PICK q \in 0..20 : OnLegacy(job, q) /\ Snap(q, source, job)
  BY <1>2 DEF IInv, Track
<1>4. Place(q, x)
  BY <1>1, <1>3, NextPlace
<1>5. x \in Later \ {"inventory db", "inventory wal", "check db", "check wal"}
  BY DEF Later, UsesDocument
<1>6. q >= 11
  BY <1>4, <1>5, StepIsAt
<1> QED
  BY <1>3, <1>6 DEF Snap

(* The document that a preview answers with, and that a restore compares    *)
(* with its plan, is what the earlier database held at one moment, whatever *)
(* that database held after each of its transactions and however often it   *)
(* was written, carried over and begun again between the reads.             *)
THEOREM DocumentsAreNotTorn == Spec => []NotTorn
<1>1. Init => IInv
  BY Initially
<1>2. IInv /\ [Next]_vars => IInv'
  BY Preserved
<1>3. IInv => NotTorn
  BY NotTornFollows
<1> QED
  BY <1>1, <1>2, <1>3, PTL DEF Spec

-----------------------------------------------------------------------------
(***************************************************************************)
(* Exports and restores                                                    *)
(***************************************************************************)

(* Rows *)

Row == [meta : Meta, trashed : BOOLEAN, versions : Seq(Version)]

LibraryOK(lib) ==
  /\ lib = [s \in DOMAIN lib |-> lib[s]]
  /\ \A s \in DOMAIN lib : lib[s] \in Row

HistoriesOK(lib, begun) == \A s \in DOMAIN lib : lib[s].versions = <<>> => s \in begun

CommandOK(c, begun) ==
  \/ c = Free
  \/ c = Restoring
  \/ /\ c.op \in {"unlink", "link"}
     /\ c = [op |-> c.op, slug |-> c.slug, labels |-> c.labels] /\ c.labels \subseteq Labels
  \/ /\ c.op \in {"delete versions", "delete row"}
     /\ c = [op |-> c.op, slug |-> c.slug] /\ c.slug \in begun

RowsOK ==
  /\ LibraryOK(library) /\ HistoriesOK(library, broken)
  /\ CommandOK(command, broken)
  /\ clock \in Nat /\ rebuilt \in BOOLEAN

(* What is copied and read is within what the earlier database held. *)
Known(files) == files.db <= Len(Legacy) /\ files.wal.upto <= Len(Legacy)

SourcesKnown == Known(source) /\ Known(job.copy) /\ job.read \in 0..Len(Legacy)

PageKnown ==
  /\ page.kind \in {"none", "backup", "legacy"}
  /\ page.kind = "none" => page.plan = NoPlan
  /\ page.kind = "backup" => page.document \in Backups

(* The steps that each operation may still have to take. *)
Reading == {"inspect", "inventory db", "inventory wal", "copy db", "copy wal", "check db",
            "check wal", "read"}
Exporting == {"list", "versions", "hand out"}
Previewing == Reading \cup {"answer", "list", "versions", "plan"}
Executing == Reading \cup {"lock", "same hash", "same plan", "begin", "commit"}

Remains(steps, x) == \E i \in 1..Len(steps) : steps[i] = x

(* A restore takes the mutex first and commits last, and reads before it   *)
(* compares.                                                               *)
RestoreOrder(steps) ==
  /\ Len(steps) >= 1
  /\ \A i \in 2..Len(steps) : steps[i] # "lock"
  /\ \A i \in 1..Len(steps) : steps[i] = "commit" <=> i = Len(steps)
  /\ \A i \in 1..Len(steps) :
       steps[i] = "read" => \E k \in (i + 1)..Len(steps) : steps[k] = "same plan"

(* What a restore has compared. *)
Compared ==
  Valid(Restored) /\ page.plan = BuildRestorePlan(Restored, page.plan.library)

RestoreOK ==
  /\ job.steps \in Seq(Executing) /\ RestoreOrder(job.steps)
  /\ job.policy \in Policies
  /\ page.kind # "none"
  /\ Head(job.steps) # "lock" <=> command = Restoring
  /\ ~Remains(job.steps, "same plan") => Compared
  /\ ~Remains(job.steps, "begin") => job.begun
  /\ job.begun => command = Restoring

OtherOK ==
  /\ \/ job.op = "none" /\ job.steps = <<>>
     \/ job.op = "export" /\ job.steps \in Seq(Exporting)
     \/ job.op = "preview" /\ job.steps \in Seq(Previewing) /\ page.kind # "none"
  /\ Remains(job.steps, "answer") => page.kind = "legacy"
  /\ command # Restoring /\ ~job.begun

OperationOK == IF job.op = "restore" THEN RestoreOK ELSE OtherOK

RInv == RowsOK /\ SourcesKnown /\ PageKnown /\ OperationOK /\ Valid(exported)

-----------------------------------------------------------------------------
(* Rows of the library *)

LEMMA RowIs ==
  ASSUME NEW row \in Row
  PROVE  /\ row = [meta |-> row.meta, trashed |-> row.trashed, versions |-> row.versions]
         /\ row.meta = [title |-> row.meta.title, copy |-> row.meta.copy,
                        labels |-> row.meta.labels]
         /\ row.meta.title \in Titles /\ row.meta.copy \in BOOLEAN
         /\ row.meta.labels \subseteq Labels
         /\ row.meta \in Meta /\ row.trashed \in BOOLEAN /\ row.versions \in Seq(Version)
BY DEF Row, Meta

LEMMA RowOf ==
  ASSUME NEW meta \in Meta, NEW trashed \in BOOLEAN, NEW vs, vs \in Seq(Version)
  PROVE  [meta |-> meta, trashed |-> trashed, versions |-> vs] \in Row
BY DEF Row

LEMMA MetaOf ==
  ASSUME NEW title \in Titles, NEW copy \in BOOLEAN, NEW labels \in SUBSET Labels
  PROVE  [title |-> title, copy |-> copy, labels |-> labels] \in Meta
BY DEF Meta

LEMMA Appended ==
  ASSUME NEW vs, vs \in Seq(Version), NEW v \in Version
  PROVE  Append(vs, v) \in Seq(Version) /\ Append(vs, v) # <<>>
<1>1. Append(vs, v) \in Seq(Version) /\ Len(Append(vs, v)) = Len(vs) + 1 /\ Len(vs) \in Nat
  OBVIOUS
<1> QED
  BY <1>1

LEMMA DatedIs ==
  ASSUME NEW draft \in Drafts, clock' \in Nat
  PROVE  Dated(draft) \in Version /\ <<Dated(draft)>> \in Seq(Version) /\ <<Dated(draft)>> # <<>>
<1>1. Dated(draft) \in Version
  BY DraftsAreNumbers DEF Dated, Version
<1> HIDE DEF Dated
<1> QED
  BY <1>1

(* One row is changed, added or taken away. *)
LEMMA RowChanged ==
  ASSUME NEW lib, LibraryOK(lib), NEW begun, HistoriesOK(lib, begun),
         NEW s \in DOMAIN lib, NEW row \in Row, row.versions = <<>> => s \in begun
  PROVE  LET new == [lib EXCEPT ![s] = row]
         IN LibraryOK(new) /\ HistoriesOK(new, begun)
BY DEF LibraryOK, HistoriesOK

LEMMA RowAdded ==
  ASSUME NEW lib, LibraryOK(lib), NEW begun, HistoriesOK(lib, begun),
         NEW s, NEW row \in Row, row.versions # <<>>
  PROVE  /\ LibraryOK(With(lib, s, row)) /\ HistoriesOK(With(lib, s, row), begun)
         /\ DOMAIN With(lib, s, row) = DOMAIN lib \cup {s}
         /\ \A t \in DOMAIN lib \cup {s} : With(lib, s, row)[t] = IF t = s THEN row ELSE lib[t]
<1> DEFINE new == With(lib, s, row)
<1>1. new = [t \in DOMAIN lib \cup {s} |-> IF t = s THEN row ELSE lib[t]]
  BY DEF With
<1> HIDE DEF new
<1>2. DOMAIN new = DOMAIN lib \cup {s}
      /\ \A t \in DOMAIN lib \cup {s} : new[t] = IF t = s THEN row ELSE lib[t]
  BY <1>1
<1>3. new = [t \in DOMAIN new |-> new[t]]
  BY <1>1
<1>4. \A t \in DOMAIN new : new[t] \in Row
  BY <1>2 DEF LibraryOK
<1>5. LibraryOK(new)
  BY <1>3, <1>4 DEF LibraryOK
<1>6. HistoriesOK(new, begun)
  BY <1>2 DEF HistoriesOK
<1> QED
  BY <1>2, <1>5, <1>6 DEF new

LEMMA RowDropped ==
  ASSUME NEW lib, LibraryOK(lib), NEW begun, HistoriesOK(lib, begun), NEW s
  PROVE  LibraryOK(Dropped(lib, s)) /\ HistoriesOK(Dropped(lib, s), begun \ {s})
         /\ HistoriesOK(Dropped(lib, s), begun)
BY DEF LibraryOK, HistoriesOK, Dropped

-----------------------------------------------------------------------------
(* The commands of the prompts.  The mutex is not held by a restore before *)
(* or after one of their statements.                                       *)

CommandKeeps == RowsOK' /\ command # Restoring /\ command' # Restoring

LEMMA Commands ==
  ASSUME NEW begun
  PROVE  /\ Free # Restoring /\ CommandOK(Free, begun) /\ CommandOK(Restoring, begun)
         /\ \A slug, labels : labels \subseteq Labels =>
              /\ CommandOK([op |-> "unlink", slug |-> slug, labels |-> labels], begun)
              /\ [op |-> "unlink", slug |-> slug, labels |-> labels] # Restoring
              /\ CommandOK([op |-> "link", slug |-> slug, labels |-> labels], begun)
              /\ [op |-> "link", slug |-> slug, labels |-> labels] # Restoring
         /\ \A slug \in begun :
              /\ CommandOK([op |-> "delete versions", slug |-> slug], begun)
              /\ [op |-> "delete versions", slug |-> slug] # Restoring
              /\ CommandOK([op |-> "delete row", slug |-> slug], begun)
              /\ [op |-> "delete row", slug |-> slug] # Restoring
<1>1. Free.op = "free" /\ Restoring.op = "restore"
  BY DEF Free, Restoring
<1>2. Free # Restoring
  BY <1>1
<1>3. ASSUME NEW slug, NEW labels, labels \subseteq Labels, NEW op \in {"unlink", "link"}
      PROVE  LET c == [op |-> op, slug |-> slug, labels |-> labels]
             IN CommandOK(c, begun) /\ c # Restoring
  <2> DEFINE c == [op |-> op, slug |-> slug, labels |-> labels]
  <2>1. c.op = op /\ c.slug = slug /\ c.labels = labels
    OBVIOUS
  <2>2. c = [op |-> c.op, slug |-> c.slug, labels |-> c.labels]
    OBVIOUS
  <2> HIDE DEF c
  <2>3. c # Restoring
    BY <1>1, <2>1
  <2>4. CommandOK(c, begun)
    BY <1>3, <2>1, <2>2 DEF CommandOK
  <2> QED
    BY <2>3, <2>4 DEF c
<1>4. ASSUME NEW slug \in begun, NEW op \in {"delete versions", "delete row"}
      PROVE  LET c == [op |-> op, slug |-> slug]
             IN CommandOK(c, begun) /\ c # Restoring
  <2> DEFINE c == [op |-> op, slug |-> slug]
  <2>1. c.op = op /\ c.slug = slug
    OBVIOUS
  <2>2. c = [op |-> c.op, slug |-> c.slug]
    OBVIOUS
  <2> HIDE DEF c
  <2>3. c # Restoring
    BY <1>1, <2>1
  <2>4. CommandOK(c, begun)
    BY <2>1, <2>2 DEF CommandOK
  <2> QED
    BY <2>3, <2>4 DEF c
<1>5. CommandOK(Free, begun) /\ CommandOK(Restoring, begun)
  BY DEF CommandOK
<1> QED
  BY <1>2, <1>3, <1>4, <1>5

(* What is known of the command from the statement that comes next. *)
LEMMA Linking ==
  ASSUME CommandOK(command, broken), command.op = "unlink" \/ command.op = "link"
  PROVE  /\ command = [op |-> command.op, slug |-> command.slug, labels |-> command.labels]
         /\ command.labels \subseteq Labels /\ command # Restoring
<1>1. Free.op = "free" /\ Restoring.op = "restore"
  BY DEF Free, Restoring
<1>2. command # Free /\ command # Restoring
  BY <1>1
<1>3. command.op \notin {"delete versions", "delete row"}
  OBVIOUS
<1> QED
  BY <1>2, <1>3, Zenon DEF CommandOK

LEMMA Deleting ==
  ASSUME CommandOK(command, broken),
         command.op = "delete versions" \/ command.op = "delete row"
  PROVE  /\ command = [op |-> command.op, slug |-> command.slug]
         /\ command.slug \in broken /\ command # Restoring
<1>1. Free.op = "free" /\ Restoring.op = "restore"
  BY DEF Free, Restoring
<1>2. command # Free /\ command # Restoring
  BY <1>1
<1>3. command.op \notin {"unlink", "link"}
  OBVIOUS
<1> QED
  BY <1>2, <1>3, Zenon DEF CommandOK

LEMMA Labelled ==
  ASSUME NEW lib, LibraryOK(lib), NEW begun, HistoriesOK(lib, begun),
         NEW s \in DOMAIN lib, NEW labels \in SUBSET Labels
  PROVE  LET new == [lib EXCEPT ![s].meta.labels = labels]
         IN LibraryOK(new) /\ HistoriesOK(new, begun)
<1> DEFINE meta == [lib[s].meta EXCEPT !.labels = labels]
           row == [lib[s] EXCEPT !.meta = meta]
<1>1. lib[s] \in Row
  BY DEF LibraryOK
<1>2. meta \in Meta
  BY <1>1, RowIs DEF Meta
<1> HIDE DEF meta
<1>3. row \in Row /\ row.versions = lib[s].versions
  BY <1>1, <1>2, RowIs DEF Row
<1> HIDE DEF row
<1>4. row.versions = <<>> => s \in begun
  BY <1>3 DEF HistoriesOK
<1>5. [lib EXCEPT ![s].meta.labels = labels] = [lib EXCEPT ![s] = row]
  BY DEF row, meta
<1> QED
  BY <1>3, <1>4, <1>5, RowChanged

LEMMA Titled ==
  ASSUME NEW lib, LibraryOK(lib), NEW begun, HistoriesOK(lib, begun),
         NEW s \in DOMAIN lib, NEW title \in Titles
  PROVE  LET new == [lib EXCEPT ![s].meta.title = title]
         IN LibraryOK(new) /\ HistoriesOK(new, begun)
<1> DEFINE meta == [lib[s].meta EXCEPT !.title = title]
           row == [lib[s] EXCEPT !.meta = meta]
<1>1. lib[s] \in Row
  BY DEF LibraryOK
<1>2. meta \in Meta
  BY <1>1, RowIs DEF Meta
<1> HIDE DEF meta
<1>3. row \in Row /\ row.versions = lib[s].versions
  BY <1>1, <1>2, RowIs DEF Row
<1> HIDE DEF row
<1>4. row.versions = <<>> => s \in begun
  BY <1>3 DEF HistoriesOK
<1>5. [lib EXCEPT ![s].meta.title = title] = [lib EXCEPT ![s] = row]
  BY DEF row, meta
<1> QED
  BY <1>3, <1>4, <1>5, RowChanged

LEMMA Written ==
  ASSUME NEW lib, LibraryOK(lib), NEW begun, HistoriesOK(lib, begun),
         NEW s \in DOMAIN lib, NEW vs, vs \in Seq(Version), vs = <<>> => s \in begun
  PROVE  LET new == [lib EXCEPT ![s].versions = vs]
         IN LibraryOK(new) /\ HistoriesOK(new, begun)
<1> DEFINE row == [lib[s] EXCEPT !.versions = vs]
<1>1. lib[s] \in Row
  BY DEF LibraryOK
<1>2. row \in Row /\ row.versions = vs
  BY <1>1, RowIs DEF Row
<1> HIDE DEF row
<1>3. [lib EXCEPT ![s].versions = vs] = [lib EXCEPT ![s] = row]
  BY DEF row
<1> QED
  BY <1>2, <1>3, RowChanged

LEMMA Trashed ==
  ASSUME NEW lib, LibraryOK(lib), NEW begun, HistoriesOK(lib, begun), NEW s \in DOMAIN lib
  PROVE  LET new == [lib EXCEPT ![s].trashed = TRUE]
         IN LibraryOK(new) /\ HistoriesOK(new, begun)
<1> DEFINE row == [lib[s] EXCEPT !.trashed = TRUE]
<1>1. lib[s] \in Row
  BY DEF LibraryOK
<1>2. row \in Row /\ row.versions = lib[s].versions
  BY <1>1, RowIs DEF Row
<1> HIDE DEF row
<1>3. row.versions = <<>> => s \in begun
  BY <1>2 DEF HistoriesOK
<1>4. [lib EXCEPT ![s].trashed = TRUE] = [lib EXCEPT ![s] = row]
  BY DEF row
<1> QED
  BY <1>2, <1>3, <1>4, RowChanged

LEMMA NewRowIs ==
  ASSUME NEW title \in Titles, NEW labels \in SUBSET Labels, NEW draft \in Drafts, clock' \in Nat
  PROVE  NewRow(title, labels, draft) \in Row /\ NewRow(title, labels, draft).versions # <<>>
<1> DEFINE meta == [title |-> title, copy |-> FALSE, labels |-> labels]
<1>1. meta \in Meta
  BY MetaOf
<1> DEFINE vs == <<Dated(draft)>>
<1>2. vs \in Seq(Version) /\ vs # <<>>
  BY DatedIs
<1>3. NewRow(title, labels, draft) =
        [meta |-> meta, trashed |-> FALSE, versions |-> vs]
  BY DEF NewRow
<1> HIDE DEF vs, meta
<1>4. FALSE \in BOOLEAN
  OBVIOUS
<1>5. [meta |-> meta, trashed |-> FALSE, versions |-> vs] \in Row
  BY <1>1, <1>2, <1>4, RowOf
<1> QED
  BY <1>2, <1>3, <1>5

LEMMA CreateKeeps ==
  ASSUME RowsOK, NEW s, NEW title \in Titles, NEW labels \in SUBSET Labels, NEW draft \in Drafts,
         CreatePrompt(s, title, labels, draft)
  PROVE  CommandKeeps
<1>1. /\ command = Free /\ command' = command /\ broken' = broken /\ rebuilt' = rebuilt
      /\ clock' = clock + 1 /\ library' = With(library, s, NewRow(title, labels, draft))
  BY DEF CreatePrompt, Tick, recovering
<1>2. clock' \in Nat
  BY <1>1 DEF RowsOK
<1>3. NewRow(title, labels, draft) \in Row /\ NewRow(title, labels, draft).versions # <<>>
  BY <1>2, NewRowIs
<1>4. LibraryOK(library') /\ HistoriesOK(library', broken)
  BY <1>1, <1>3, RowAdded DEF RowsOK
<1> QED
  BY <1>1, <1>2, <1>4, Commands DEF CommandKeeps, RowsOK

LEMMA AddVersionKeeps ==
  ASSUME RowsOK, NEW s \in DOMAIN library, NEW draft \in Drafts, AddPromptVersion(s, draft)
  PROVE  CommandKeeps
<1> DEFINE vs == Append(library[s].versions, Dated(draft))
<1>1. /\ command = Free /\ command' = command /\ broken' = broken /\ rebuilt' = rebuilt
      /\ clock' = clock + 1 /\ library' = [library EXCEPT ![s].versions = vs]
  BY DEF AddPromptVersion, Tick, recovering
<1>2. clock' \in Nat
  BY <1>1 DEF RowsOK
<1>3. vs \in Seq(Version) /\ vs # <<>>
  <2>1. library[s].versions \in Seq(Version)
    BY RowIs DEF RowsOK, LibraryOK
  <2> QED
    BY <1>2, <2>1, DatedIs, Appended
<1> HIDE DEF vs
<1>4. LibraryOK(library') /\ HistoriesOK(library', broken)
  BY <1>1, <1>3, Written DEF RowsOK
<1> QED
  BY <1>1, <1>2, <1>4, Commands DEF CommandKeeps, RowsOK

LEMMA UpdateKeeps ==
  ASSUME RowsOK, NEW s \in DOMAIN library, NEW title \in Titles, NEW labels \in SUBSET Labels,
         UpdateRow(s, title, labels)
  PROVE  CommandKeeps
<1>1. /\ command = Free /\ broken' = broken /\ rebuilt' = rebuilt
      /\ command' = [op |-> "unlink", slug |-> s, labels |-> labels]
      /\ clock' = clock + 1 /\ library' = [library EXCEPT ![s].meta.title = title]
  BY DEF UpdateRow, Tick, recovering
<1>2. LibraryOK(library') /\ HistoriesOK(library', broken)
  BY <1>1, Titled DEF RowsOK
<1>3. CommandOK(command', broken) /\ command' # Restoring /\ command # Restoring
  BY <1>1, Commands
<1>4. clock' \in Nat /\ rebuilt' \in BOOLEAN
  BY <1>1 DEF RowsOK
<1> QED
  BY <1>1, <1>2, <1>3, <1>4 DEF CommandKeeps, RowsOK

LEMMA UnlinkKeeps ==
  ASSUME RowsOK, UnlinkTags
  PROVE  CommandKeeps
<1>1. /\ command = [op |-> command.op, slug |-> command.slug, labels |-> command.labels]
      /\ command.labels \subseteq Labels /\ command # Restoring /\ command.op = "unlink"
  BY Linking DEF RowsOK, UnlinkTags
<1>2. /\ broken' = broken /\ rebuilt' = rebuilt /\ clock' = clock
      /\ library' = IF command.slug \in DOMAIN library
                    THEN [library EXCEPT ![command.slug].meta.labels = {}] ELSE library
      /\ command' = IF command.labels = {} THEN Free ELSE [command EXCEPT !.op = "link"]
  BY DEF UnlinkTags, recovering
<1>3. LibraryOK(library') /\ HistoriesOK(library', broken)
  BY <1>2, Labelled DEF RowsOK
<1>4. [command EXCEPT !.op = "link"] =
        [op |-> "link", slug |-> command.slug, labels |-> command.labels]
  BY <1>1
<1> DEFINE next == [op |-> "link", slug |-> command.slug, labels |-> command.labels]
<1>6. CommandOK(next, broken) /\ next # Restoring
  BY <1>1, Commands
<1> HIDE DEF next
<1>7. command' = Free \/ command' = next
  BY <1>2, <1>4 DEF next
<1>5. CommandOK(command', broken) /\ command' # Restoring
  BY <1>6, <1>7, Commands
<1> QED
  BY <1>1, <1>2, <1>3, <1>5 DEF CommandKeeps, RowsOK

LEMMA StoreTagKeeps ==
  ASSUME RowsOK, StoreTag
  PROVE  CommandKeeps
<1>1. /\ command = [op |-> command.op, slug |-> command.slug, labels |-> command.labels]
      /\ command.labels \subseteq Labels /\ command # Restoring /\ command.op = "link"
  BY Linking DEF RowsOK, StoreTag
<1>2. broken' = broken /\ rebuilt' = rebuilt /\ clock' = clock
  BY DEF StoreTag, recovering
<1>3. CASE command.slug \notin DOMAIN library
  <2>1. library' = library /\ command' = Free
    BY <1>3 DEF StoreTag
  <2> QED
    BY <1>1, <1>2, <2>1, Commands DEF CommandKeeps, RowsOK
<1>4. CASE command.slug \in DOMAIN library
  <2>1. PICK l \in command.labels :
           /\ library' = [library EXCEPT ![command.slug].meta.labels = @ \cup {l}]
           /\ command' = IF command.labels = {l} THEN Free
                         ELSE [command EXCEPT !.labels = @ \ {l}]
    BY <1>4 DEF StoreTag
  <2> DEFINE labels == library[command.slug].meta.labels \cup {l}
  <2>2. labels \in SUBSET Labels
    BY <1>1, <1>4, RowIs DEF RowsOK, LibraryOK
  <2>3. library' = [library EXCEPT ![command.slug].meta.labels = labels]
    BY <2>1
  <2> HIDE DEF labels
  <2>4. LibraryOK(library') /\ HistoriesOK(library', broken)
    BY <1>4, <2>2, <2>3, Labelled DEF RowsOK
  <2>5. [command EXCEPT !.labels = @ \ {l}] =
          [op |-> "link", slug |-> command.slug, labels |-> command.labels \ {l}]
    BY <1>1
  <2> DEFINE next == [op |-> "link", slug |-> command.slug, labels |-> command.labels \ {l}]
  <2>7. CommandOK(next, broken) /\ next # Restoring
    <3>1. command.labels \ {l} \subseteq Labels
      BY <1>1
    <3> QED
      BY <3>1, Commands
  <2> HIDE DEF next
  <2>8. command' = Free \/ command' = next
    BY <2>1, <2>5 DEF next
  <2>6. CommandOK(command', broken) /\ command' # Restoring
    BY <2>7, <2>8, Commands
  <2> QED
    BY <1>1, <1>2, <2>4, <2>6 DEF CommandKeeps, RowsOK
<1> QED
  BY <1>3, <1>4

LEMMA MoreBegun ==
  ASSUME NEW lib, NEW begun, HistoriesOK(lib, begun), NEW more, begun \subseteq more
  PROVE  HistoriesOK(lib, more)
BY DEF HistoriesOK

LEMMA DeleteTagsKeeps ==
  ASSUME RowsOK, NEW s \in DOMAIN library, DeleteTags(s)
  PROVE  CommandKeeps
<1>1. /\ command = Free /\ broken' = broken \cup {s} /\ rebuilt' = rebuilt
      /\ command' = [op |-> "delete versions", slug |-> s]
      /\ clock' = clock + 1 /\ library' = [library EXCEPT ![s].meta.labels = {}]
  BY DEF DeleteTags, Tick, recovering
<1>2. LibraryOK(library') /\ HistoriesOK(library', broken)
  BY <1>1, Labelled DEF RowsOK
<1>3. HistoriesOK(library', broken')
  BY <1>1, <1>2, MoreBegun
<1>4. CommandOK(command', broken') /\ command' # Restoring /\ command # Restoring
  BY <1>1, Commands
<1>5. clock' \in Nat /\ rebuilt' \in BOOLEAN
  <2>1. clock \in Nat /\ rebuilt \in BOOLEAN
    BY DEF RowsOK
  <2>2. clock' = clock + 1 /\ rebuilt' = rebuilt
    BY <1>1
  <2> QED
    BY <2>1, <2>2
<1> QED
  BY <1>2, <1>3, <1>4, <1>5 DEF CommandKeeps, RowsOK

LEMMA DeleteVersionsKeeps ==
  ASSUME RowsOK, DeleteVersions
  PROVE  CommandKeeps
<1>1. /\ command = [op |-> command.op, slug |-> command.slug]
      /\ command.slug \in broken /\ command # Restoring
  BY Deleting DEF RowsOK, DeleteVersions
<1>2. /\ broken' = broken /\ rebuilt' = rebuilt /\ clock' = clock
      /\ library' = IF command.slug \in DOMAIN library
                    THEN [library EXCEPT ![command.slug].versions = <<>>] ELSE library
      /\ command' = [command EXCEPT !.op = "delete row"]
  BY DEF DeleteVersions, recovering
<1>3. <<>> \in Seq(Version)
  OBVIOUS
<1>4. LibraryOK(library') /\ HistoriesOK(library', broken)
  BY <1>1, <1>2, <1>3, Written DEF RowsOK
<1>5. command' = [op |-> "delete row", slug |-> command.slug]
  BY <1>1, <1>2
<1>6. CommandOK(command', broken) /\ command' # Restoring
  BY <1>1, <1>5, Commands
<1> QED
  BY <1>1, <1>2, <1>4, <1>6 DEF CommandKeeps, RowsOK

LEMMA DeleteRowKeeps ==
  ASSUME RowsOK, DeleteRow
  PROVE  CommandKeeps
<1>1. command # Restoring /\ command' = Free /\ clock' = clock
  BY Deleting DEF RowsOK, DeleteRow
<1>2. CASE /\ UNCHANGED <<library, rebuilt, broken>>
  BY <1>1, <1>2, Commands DEF CommandKeeps, RowsOK
<1>3. CASE /\ library' = Dropped(library, command.slug)
           /\ broken' = broken \ {command.slug} /\ rebuilt' = rebuilt
  <2>1. LibraryOK(library') /\ HistoriesOK(library', broken')
    BY <1>3, RowDropped DEF RowsOK
  <2> QED
    BY <1>1, <1>3, <2>1, Commands DEF CommandKeeps, RowsOK
<1> QED
  BY <1>2, <1>3 DEF DeleteRow, recovering

LEMMA PromptCommandKeeps ==
  ASSUME RowsOK, PromptCommand
  PROVE  CommandKeeps
<1>1. CASE \E s \in UserSlugs, t \in Titles, ls \in SUBSET Labels, d \in Drafts :
             CreatePrompt(s, t, ls, d)
  BY <1>1, CreateKeeps
<1>2. CASE \E s \in DOMAIN library, d \in Drafts : AddPromptVersion(s, d)
  BY <1>2, AddVersionKeeps
<1>3. CASE \E s \in DOMAIN library, t \in Titles, ls \in SUBSET Labels : UpdateRow(s, t, ls)
  BY <1>3, UpdateKeeps
<1>4. CASE UnlinkTags \/ StoreTag
  BY <1>4, UnlinkKeeps, StoreTagKeeps
<1>5. CASE \E s \in DOMAIN library : DeleteTags(s)
  BY <1>5, DeleteTagsKeeps
<1>6. CASE DeleteVersions \/ DeleteRow
  BY <1>6, DeleteVersionsKeeps, DeleteRowKeeps
<1> QED
  BY <1>1, <1>2, <1>3, <1>4, <1>5, <1>6 DEF PromptCommand

(* Another process leaves the commands of this one alone. *)
LEMMA NodeKeeps ==
  ASSUME RowsOK, NodeProcess
  PROVE  RowsOK'
<1>1. /\ command' = command /\ broken' = broken /\ rebuilt' = TRUE
      /\ clock' = clock + 1 /\ clock' \in Nat
  BY DEF NodeProcess, Tick, RowsOK
<1>2. ASSUME LibraryOK(library') /\ HistoriesOK(library', broken)
      PROVE  RowsOK'
  BY <1>1, <1>2 DEF RowsOK
<1>3. ASSUME NEW s \in UserSlugs, NEW d \in Drafts, NEW t \in Titles,
             library' = With(library, s, NewRow(t, {}, d))
      PROVE  RowsOK'
  <2>1. NewRow(t, {}, d) \in Row /\ NewRow(t, {}, d).versions # <<>>
    BY <1>1, NewRowIs
  <2> QED
    BY <1>2, <1>3, <2>1, RowAdded DEF RowsOK
<1>4. ASSUME NEW s \in DOMAIN library, NEW d \in Drafts,
             library' = [library EXCEPT ![s].versions = Append(@, Dated(d))]
      PROVE  RowsOK'
  <2> DEFINE vs == Append(library[s].versions, Dated(d))
  <2>1. library[s].versions \in Seq(Version)
    BY RowIs DEF RowsOK, LibraryOK
  <2>2. vs \in Seq(Version) /\ vs # <<>>
    BY <1>1, <2>1, DatedIs, Appended
  <2>3. library' = [library EXCEPT ![s].versions = vs]
    BY <1>4
  <2> HIDE DEF vs
  <2> QED
    BY <1>2, <2>2, <2>3, Written DEF RowsOK
<1>5. ASSUME NEW s \in DOMAIN library, library' = [library EXCEPT ![s].trashed = TRUE]
      PROVE  RowsOK'
  BY <1>2, <1>5, Trashed DEF RowsOK
<1>6. ASSUME NEW s \in DOMAIN library, library' = Dropped(library, s)
      PROVE  RowsOK'
  BY <1>2, <1>6, RowDropped DEF RowsOK
<1>7. DOMAIN Visible(library) \subseteq DOMAIN library
  BY DEF Visible
<1> QED
  BY <1>3, <1>4, <1>5, <1>6, <1>7 DEF NodeProcess
-----------------------------------------------------------------------------
(* The steps that are left *)

LEMMA TailOf ==
  ASSUME NEW S, NEW steps, steps \in Seq(S), steps # <<>>
  PROVE  /\ Tail(steps) \in Seq(S) /\ Head(steps) = steps[1] /\ Head(steps) \in S
         /\ Len(steps) \in Nat /\ Len(steps) >= 1 /\ Len(Tail(steps)) = Len(steps) - 1
         /\ \A i \in 1..Len(Tail(steps)) : Tail(steps)[i] = steps[i + 1]
<1>1. /\ Tail(steps) \in Seq(S)
      /\ Len(Tail(steps)) = Len(steps) - 1
      /\ \A i \in 1..Len(Tail(steps)) : Tail(steps)[i] = steps[i + 1]
      /\ Head(steps) = steps[1] /\ Head(steps) \in S
  BY HeadTailProperties
<1>2. Len(steps) \in Nat /\ Len(steps) >= 1
  BY EmptySeq, LenProperties
<1> QED
  BY <1>1, <1>2

LEMMA RemainsOf ==
  ASSUME NEW S, NEW steps, steps \in Seq(S), steps # <<>>, NEW x
  PROVE  /\ Remains(Tail(steps), x) => Remains(steps, x)
         /\ Remains(steps, x) /\ Head(steps) # x => Remains(Tail(steps), x)
         /\ Head(steps) = x => Remains(steps, x)
<1>1. /\ Head(steps) = steps[1]
      /\ Len(steps) \in Nat /\ Len(steps) >= 1 /\ Len(Tail(steps)) = Len(steps) - 1
      /\ \A i \in 1..Len(Tail(steps)) : Tail(steps)[i] = steps[i + 1]
  BY TailOf
<1>2. ASSUME NEW i \in 1..Len(Tail(steps)), Tail(steps)[i] = x
      PROVE  Remains(steps, x)
  <2>1. i + 1 \in 1..Len(steps) /\ steps[i + 1] = x
    BY <1>1, <1>2
  <2> QED
    BY <2>1 DEF Remains
<1>3. ASSUME NEW i \in 1..Len(steps), steps[i] = x, Head(steps) # x
      PROVE  Remains(Tail(steps), x)
  <2>1. i # 1
    BY <1>1, <1>3
  <2>2. i - 1 \in 1..Len(Tail(steps)) /\ (i - 1) + 1 = i
    BY <1>1, <2>1
  <2>3. Tail(steps)[i - 1] = x
    BY <1>1, <1>3, <2>2
  <2> QED
    BY <2>2, <2>3 DEF Remains
<1>4. 1 \in 1..Len(steps)
  BY <1>1
<1>5. Head(steps) = x => Remains(steps, x)
  BY <1>1, <1>4 DEF Remains
<1> QED
  BY <1>2, <1>3, <1>5 DEF Remains

LEMMA OrderOf ==
  ASSUME NEW steps, steps \in Seq(Executing), RestoreOrder(steps)
  PROVE  /\ steps # <<>>
         /\ Head(steps) # "commit" =>
              /\ RestoreOrder(Tail(steps)) /\ Tail(steps) # <<>> /\ Head(Tail(steps)) # "lock"
         /\ Head(steps) = "read" => Remains(Tail(steps), "same plan")
         /\ Head(steps) = "commit" => \A x : x # "commit" => ~Remains(steps, x)
<1>1. steps # <<>>
  <2>1. Len(steps) >= 1
    BY DEF RestoreOrder
  <2>2. ASSUME steps = <<>>
        PROVE  Len(steps) = 0
    BY <2>2
  <2> QED
    BY <2>1, <2>2
<1> DEFINE rest == Tail(steps)
<1>2. /\ Head(steps) = steps[1] /\ rest \in Seq(Executing)
      /\ Len(steps) \in Nat /\ Len(steps) >= 1 /\ Len(rest) = Len(steps) - 1
      /\ \A i \in 1..Len(rest) : rest[i] = steps[i + 1]
  BY <1>1, TailOf
<1>3. \A i \in 2..Len(steps) : steps[i] # "lock"
  BY DEF RestoreOrder
<1>4. \A i \in 1..Len(steps) : steps[i] = "commit" <=> i = Len(steps)
  BY DEF RestoreOrder
<1>5. \A i \in 1..Len(steps) :
        steps[i] = "read" => \E k \in (i + 1)..Len(steps) : steps[k] = "same plan"
  BY DEF RestoreOrder
<1> HIDE DEF rest
<1>6. \A i \in 1..Len(rest) : i + 1 \in 2..Len(steps) /\ i + 1 \in 1..Len(steps)
  BY <1>2
<1>7. \A i \in 1..Len(rest) : rest[i] # "lock"
  BY <1>2, <1>3, <1>6
<1>8. \A i \in 1..Len(rest) : rest[i] = "commit" <=> i = Len(rest)
  <2> TAKE i \in 1..Len(rest)
  <2>1. rest[i] = steps[i + 1] /\ i + 1 \in 1..Len(steps)
    BY <1>2, <1>6
  <2>2. steps[i + 1] = "commit" <=> i + 1 = Len(steps)
    BY <1>4, <2>1
  <2>3. i + 1 = Len(steps) <=> i = Len(rest)
    BY <1>2
  <2> QED
    BY <2>1, <2>2, <2>3
<1>9. \A i \in 1..Len(steps) : \A k \in (i + 1)..Len(steps) :
        k - 1 \in i..Len(rest) /\ k - 1 \in 1..Len(rest) /\ rest[k - 1] = steps[k]
  <2> TAKE i \in 1..Len(steps)
  <2> TAKE k \in (i + 1)..Len(steps)
  <2>1. k - 1 \in i..Len(rest) /\ k - 1 \in 1..Len(rest) /\ (k - 1) + 1 = k
    BY <1>2
  <2> QED
    BY <1>2, <2>1
<1>10. ASSUME NEW i \in 1..Len(rest), rest[i] = "read"
       PROVE  \E k \in (i + 1)..Len(rest) : rest[k] = "same plan"
  <2>1. i + 1 \in 1..Len(steps) /\ steps[i + 1] = "read"
    BY <1>2, <1>6, <1>10
  <2>2. PICK k \in ((i + 1) + 1)..Len(steps) : steps[k] = "same plan"
    BY <1>5, <2>1
  <2>3. k - 1 \in (i + 1)..Len(rest) /\ rest[k - 1] = steps[k]
    BY <1>9, <2>1
  <2> QED
    BY <2>2, <2>3
<1>11. ASSUME Head(steps) = "read"
       PROVE  Remains(rest, "same plan")
  <2>1. 1 \in 1..Len(steps) /\ steps[1] = "read"
    BY <1>2, <1>11
  <2>2. PICK k \in (1 + 1)..Len(steps) : steps[k] = "same plan"
    BY <1>5, <2>1
  <2>3. k - 1 \in 1..Len(rest) /\ rest[k - 1] = steps[k]
    BY <1>9, <2>1
  <2> QED
    BY <2>2, <2>3 DEF Remains
<1>12. ASSUME Head(steps) # "commit"
       PROVE  Len(rest) >= 1
  <2>1. 1 \in 1..Len(steps) /\ steps[1] # "commit"
    BY <1>2, <1>12
  <2>2. Len(steps) # 1
    BY <1>4, <2>1
  <2> QED
    BY <1>2, <2>2
<1>13. ASSUME Head(steps) # "commit"
       PROVE  RestoreOrder(rest) /\ rest # <<>> /\ Head(rest) # "lock"
  <2>1. \A i \in 2..Len(rest) : i \in 1..Len(rest)
    BY <1>2
  <2>2. RestoreOrder(rest)
    BY <1>7, <1>8, <1>10, <1>12, <1>13, <2>1 DEF RestoreOrder
  <2>3. rest # <<>> /\ 1 \in 1..Len(rest)
    BY <1>2, <1>12, <1>13
  <2>4. Head(rest) = rest[1]
    BY <1>2, <2>3, TailOf
  <2> QED
    BY <1>7, <2>2, <2>3, <2>4
<1>14. ASSUME Head(steps) = "commit", NEW x, x # "commit", Remains(steps, x)
       PROVE  FALSE
  <2>1. 1 \in 1..Len(steps) /\ steps[1] = "commit"
    BY <1>2, <1>14
  <2>2. Len(steps) = 1
    BY <1>4, <2>1
  <2>3. PICK i \in 1..Len(steps) : steps[i] = x
    BY <1>14 DEF Remains
  <2>4. i = 1
    BY <2>2
  <2> QED
    BY <1>14, <2>1, <2>3, <2>4
<1> QED
  BY <1>1, <1>11, <1>13, <1>14 DEF rest

-----------------------------------------------------------------------------
(* An operation goes on, waits or ends *)

(* The operations are told apart by the steps that only one of them takes. *)
LEMMA OperationIs ==
  ASSUME OperationOK, job.steps # <<>>
  PROVE  /\ job.op = "restore" => RestoreOK /\ Head(job.steps) \in Executing
         /\ job.op # "restore" =>
              /\ OtherOK
              /\ \/ job.op = "export" /\ job.steps \in Seq(Exporting)
                    /\ Head(job.steps) \in Exporting
                 \/ job.op = "preview" /\ job.steps \in Seq(Previewing)
                    /\ Head(job.steps) \in Previewing /\ page.kind # "none"
<1>1. job.op = "restore" => RestoreOK /\ Head(job.steps) \in Executing
  BY TailOf DEF OperationOK, RestoreOK
<1>2. job.op # "restore" => OtherOK
  BY DEF OperationOK
<1>3. ASSUME job.op # "restore"
      PROVE  \/ job.op = "export" /\ job.steps \in Seq(Exporting)
                /\ Head(job.steps) \in Exporting
             \/ job.op = "preview" /\ job.steps \in Seq(Previewing)
                /\ Head(job.steps) \in Previewing /\ page.kind # "none"
  BY <1>2, <1>3, TailOf DEF OtherOK
<1> QED
  BY <1>1, <1>2, <1>3

LEMMA FullHistories ==
  ASSUME RInv
  PROVE  /\ RowsOK /\ SourcesKnown /\ PageKnown /\ OperationOK /\ Valid(exported)
BY DEF RInv

(* The others leave the operation alone. *)
LEMMA Untouched ==
  ASSUME RInv, RowsOK', job' = job, page' = page, source' = source, exported' = exported,
         command' = Restoring <=> command = Restoring
  PROVE  RInv'
<1>1. SourcesKnown' /\ PageKnown' /\ Valid(exported)'
  BY DEF RInv, SourcesKnown, PageKnown
<1>2. Compared => Compared'
  BY DEF Compared, Restored
<1>3. RestoreOK => RestoreOK'
  BY <1>2 DEF RestoreOK
<1>4. OtherOK => OtherOK'
  BY DEF OtherOK
<1>5. OperationOK'
  BY <1>3, <1>4 DEF RInv, OperationOK
<1> QED
  BY <1>1, <1>5 DEF RInv

LEMMA SameRows ==
  ASSUME RowsOK, Stays, CommandOK(command', broken)
  PROVE  RowsOK'
BY DEF RowsOK, Stays

LEMMA DoneIs ==
  ASSUME NEW j, JobOK(j)
  PROVE  /\ Done(j).op = j.op /\ Done(j).policy = j.policy /\ Done(j).steps = Tail(j.steps)
         /\ Done(j).begun = j.begun /\ Done(j).copy = j.copy /\ Done(j).read = j.read
BY DEF JobOK, Done

(* What a step that goes on leaves in the operation. *)
Onward(j) ==
  /\ JobOK(j) /\ j.op = job.op /\ j.policy = job.policy /\ j.steps = job.steps
  /\ job' = Done(j)
  /\ Known(j.copy) /\ j.read \in 0..Len(Legacy)

LEMMA RestoreGoesOn ==
  ASSUME RInv, job.op = "restore", job.steps # <<>>, Head(job.steps) # "commit",
         NEW j, Onward(j), page' = page, command' = Restoring,
         j.read = job.read \/ Head(job.steps) = "read",
         job.begun => j.begun, Head(job.steps) = "begin" => j.begun,
         Head(job.steps) = "same plan" => Compared
  PROVE  OperationOK'
<1>1. RestoreOK
  BY DEF RInv, OperationOK
<1>2. /\ job'.op = "restore" /\ job'.policy = job.policy /\ job'.steps = Tail(job.steps)
      /\ job'.begun = j.begun /\ job'.read = j.read
  BY ZenonT(60), DoneIs DEF Onward
<1>3. job.steps \in Seq(Executing) /\ RestoreOrder(job.steps)
  BY <1>1 DEF RestoreOK
<1>4. /\ RestoreOrder(job'.steps) /\ job'.steps # <<>> /\ Head(job'.steps) # "lock"
      /\ Head(job.steps) = "read" => Remains(job'.steps, "same plan")
  BY ZenonT(60), <1>2, <1>3, OrderOf
<1>5. job'.steps \in Seq(Executing)
  BY ZenonT(60), <1>2, <1>3, TailOf
<1>6. ASSUME ~Remains(job'.steps, "same plan")
      PROVE  Compared'
  <2>1. j.read = job.read
    BY <1>4, <1>6
  <2>2. Compared
    <3>1. Head(job.steps) # "same plan" => ~Remains(job.steps, "same plan")
      BY ZenonT(60), <1>2, <1>3, <1>6, RemainsOf
    <3> QED
      BY <1>1, <3>1 DEF RestoreOK
  <2>3. Restored' = Restored
    BY <1>2, <2>1 DEF Restored
  <2> QED
    BY <2>2, <2>3 DEF Compared
<1>7. ASSUME ~Remains(job'.steps, "begin")
      PROVE  job'.begun
  <2>1. Head(job.steps) # "begin" => ~Remains(job.steps, "begin")
    BY ZenonT(60), <1>2, <1>3, <1>7, RemainsOf
  <2> QED
    BY <1>1, <1>2, <2>1 DEF RestoreOK
<1>8. page'.kind # "none" /\ job'.policy \in Policies
  BY <1>1, <1>2 DEF RestoreOK
<1>9. RestoreOK'
  BY <1>4, <1>5, <1>6, <1>7, <1>8 DEF RestoreOK
<1> QED
  BY <1>2, <1>9 DEF OperationOK

LEMMA OtherGoesOn ==
  ASSUME RInv, job.op # "restore", job.steps # <<>>,
         NEW j, Onward(j), page'.kind = page.kind, command' = command, j.begun = job.begun
  PROVE  OperationOK'
<1>1. OtherOK
  BY DEF RInv, OperationOK
<1>2. /\ job'.op = job.op /\ job'.steps = Tail(job.steps)
      /\ job'.begun = job.begun
  BY DoneIs DEF Onward
<1>3. \/ job.op = "export" /\ job.steps \in Seq(Exporting)
      \/ job.op = "preview" /\ job.steps \in Seq(Previewing) /\ page.kind # "none"
  BY <1>1 DEF OtherOK
<1>4. CASE job.op = "export" /\ job.steps \in Seq(Exporting)
  <2>1. job'.steps \in Seq(Exporting)
    BY <1>2, <1>4, TailOf
  <2>2. Remains(job'.steps, "answer") => Remains(job.steps, "answer")
    BY <1>2, <1>4, RemainsOf
  <2>3. OtherOK'
    BY <1>1, <1>2, <1>4, <2>1, <2>2 DEF OtherOK
  <2> QED
    BY <1>2, <2>3 DEF OperationOK
<1>5. CASE job.op = "preview" /\ job.steps \in Seq(Previewing) /\ page.kind # "none"
  <2>1. job'.steps \in Seq(Previewing)
    BY <1>2, <1>5, TailOf
  <2>2. Remains(job'.steps, "answer") => Remains(job.steps, "answer")
    BY <1>2, <1>5, RemainsOf
  <2>3. OtherOK'
    BY <1>1, <1>2, <1>5, <2>1, <2>2 DEF OtherOK
  <2> QED
    BY <1>2, <2>3 DEF OperationOK
<1> QED
  BY <1>3, <1>4, <1>5

LEMMA GoesOn ==
  ASSUME RInv, Stays, job.steps # <<>>,
         Head(job.steps) # "lock", Head(job.steps) # "commit",
         NEW j, Onward(j), page' = page, command' = command,
         j.read = job.read \/ Head(job.steps) = "read",
         j.begun = job.begun \/ (Head(job.steps) = "begin" /\ j.begun = TRUE),
         Head(job.steps) = "begin" => j.begun,
         Head(job.steps) = "same plan" => Compared
  PROVE  RInv'
<1>1. RowsOK /\ SourcesKnown /\ PageKnown /\ OperationOK /\ Valid(exported)
  BY FullHistories
<1>2. RowsOK' /\ Valid(exported)' /\ PageKnown'
  BY <1>1, SameRows DEF RowsOK, Stays, PageKnown
<1>3. SourcesKnown'
  <2>1. job'.copy = j.copy /\ job'.read = j.read
    BY DoneIs DEF Onward
  <2> QED
    BY <1>1, <2>1 DEF SourcesKnown, Onward, Stays
<1>4. OperationOK'
  <2>1. CASE job.op = "restore"
    <3>1. command = Restoring
      BY <1>1, <2>1 DEF OperationOK, RestoreOK
    <3> QED
      BY <2>1, <3>1, RestoreGoesOn
  <2>2. CASE job.op # "restore"
    <3>1. Head(job.steps) # "begin"
      BY <1>1, <2>2, OperationIs DEF Exporting, Previewing, Reading
    <3> QED
      BY <2>2, <3>1, OtherGoesOn
  <2> QED
    BY <2>1, <2>2
<1> QED
  BY <1>2, <1>3, <1>4 DEF RInv

(* No operation is under way any more. *)
LEMMA NoJobIs ==
  /\ NoJob.op = "none" /\ NoJob.steps = <<>> /\ NoJob.begun = FALSE
  /\ NoJob.copy = NoFiles /\ NoJob.read = 0
BY DEF NoJob, Job

LEMMA IsOver ==
  ASSUME RInv, job' = NoJob, RowsOK', PageKnown', source' = source, Valid(exported)',
         command' # Restoring
  PROVE  RInv'
<1>1. Len(Legacy) \in Nat
  BY LegacyHoldsPrompts, LenProperties
<1>2. SourcesKnown'
  BY <1>1, NoJobIs DEF RInv, SourcesKnown, Known, NoFiles
<1>3. ~Remains(<<>>, "answer")
  <2>1. 1..Len(<<>>) = {}
    BY EmptySeq
  <2> QED
    BY <2>1 DEF Remains
<1>4. OtherOK' /\ job'.op # "restore"
  BY <1>3, NoJobIs DEF OtherOK
<1> QED
  BY <1>2, <1>4 DEF RInv, OperationOK

LEMMA UnlockedIs ==
  ASSUME RInv
  PROVE  Unlocked # Restoring /\ CommandOK(Unlocked, broken)
<1>1. RowsOK /\ OperationOK
  BY DEF RInv
<1>2. CASE job.op = "restore" /\ ~Doing("lock")
  <2>1. Unlocked = Free
    BY <1>2 DEF Unlocked
  <2> QED
    BY <2>1, Commands
<1>3. CASE job.op = "restore" /\ Doing("lock")
  <2>1. command # Restoring
    BY <1>1, <1>3 DEF OperationOK, RestoreOK, Doing
  <2>2. Unlocked = command
    BY <1>3 DEF Unlocked
  <2> QED
    BY <1>1, <2>1, <2>2 DEF RowsOK
<1>4. CASE job.op # "restore"
  <2>1. command # Restoring
    BY <1>1, <1>4 DEF OperationOK, OtherOK
  <2>2. Unlocked = command
    BY <1>4 DEF Unlocked
  <2> QED
    BY <1>1, <2>1, <2>2 DEF RowsOK
<1> QED
  BY <1>2, <1>3, <1>4

LEMMA IsRefused ==
  ASSUME RInv, Stays, Refused
  PROVE  RInv'
<1>1. Unlocked # Restoring /\ CommandOK(Unlocked, broken)
  BY UnlockedIs
<1>2. job' = NoJob /\ command' = Unlocked /\ page' = page
  BY DEF Refused
<1>3. RowsOK' /\ PageKnown' /\ Valid(exported)' /\ source' = source
  BY <1>1, <1>2, SameRows DEF RInv, Stays, PageKnown
<1> QED
  BY <1>1, <1>2, <1>3, IsOver

LEMMA IsRefusedAsStale ==
  ASSUME RInv, IInv, Stays, RefusedAsStale
  PROVE  RInv'
<1>1. Unlocked # Restoring /\ CommandOK(Unlocked, broken)
  BY UnlockedIs
<1>2. job' = NoJob /\ command' = Unlocked /\ page' = [page EXCEPT !.plan = NoPlan]
  BY DEF RefusedAsStale
<1>3. page'.kind = page.kind /\ page'.document = page.document /\ page'.plan = NoPlan
  BY <1>2 DEF IInv, PageOK
<1>4. RowsOK' /\ Valid(exported)' /\ source' = source
  BY <1>1, <1>2, SameRows DEF RInv, Stays
<1>5. PageKnown'
  BY <1>3 DEF RInv, PageKnown
<1> QED
  BY <1>1, <1>2, <1>4, <1>5, IsOver

-----------------------------------------------------------------------------
(* Every step of an operation *)

LEMMA AsItIs ==
  ASSUME RInv, JobOK(job), job' = Done(job)
  PROVE  Onward(job)
BY DEF Onward, RInv, SourcesKnown

LEMMA JustGoesOn ==
  ASSUME RInv, IInv, Stays, job.steps # <<>>, Continue(job),
         Head(job.steps) \notin {"lock", "commit", "begin"},
         Head(job.steps) = "same plan" => Compared
  PROVE  RInv'
<1>1. JobOK(job) /\ job' = Done(job) /\ page' = page /\ command' = command
  BY DEF IInv, Continue
<1>2. Onward(job)
  BY <1>1, AsItIs
<1> QED
  BY <1>1, <1>2, GoesOn

LEMMA LockKeeps == RInv /\ IInv /\ Lock => RInv'
<1> SUFFICES ASSUME RInv, IInv, Lock
             PROVE  RInv'
  OBVIOUS
<1>1. /\ job.steps # <<>> /\ Head(job.steps) = "lock" /\ command = Free
      /\ command' = Restoring /\ job' = Done(job) /\ page' = page /\ Stays
  BY DEF Lock, Doing
<1>2. JobOK(job) /\ OperationOK
  BY DEF IInv, RInv
<1>3. job.op = "restore"
  BY <1>1, <1>2, OperationIs DEF Exporting, Previewing, Reading
<1>4. Onward(job)
  BY <1>1, <1>2, AsItIs
<1>5. OperationOK'
  BY <1>1, <1>3, <1>4, RestoreGoesOn
<1>6. RowsOK' /\ PageKnown' /\ Valid(exported)'
  BY <1>1, SameRows, Commands DEF RInv, Stays, PageKnown
<1>7. SourcesKnown'
  <2>1. job'.copy = job.copy /\ job'.read = job.read
    BY <1>1, <1>2, DoneIs
  <2> QED
    BY <1>1, <2>1 DEF RInv, SourcesKnown, Stays
<1> QED
  BY <1>5, <1>6, <1>7 DEF RInv

LEMMA InspectKeeps == RInv /\ IInv /\ Inspect => RInv'
<1> SUFFICES ASSUME RInv, IInv, Inspect
             PROVE  RInv'
  OBVIOUS
<1> DEFINE j == [job EXCEPT !.inspected = source.db]
<1>1. /\ job.steps # <<>> /\ Head(job.steps) = "inspect" /\ job' = Done(j)
      /\ command' = command /\ page' = page /\ Stays /\ JobOK(job)
  BY DEF Inspect, Doing, Continue, IInv
<1>2. /\ JobOK(j) /\ j.op = job.op /\ j.policy = job.policy /\ j.steps = job.steps
      /\ j.copy = job.copy /\ j.read = job.read /\ j.begun = job.begun
  BY <1>1 DEF JobOK
<1> HIDE DEF j
<1>3. Onward(j)
  BY <1>1, <1>2 DEF Onward, RInv, SourcesKnown
<1> QED
  BY <1>1, <1>2, <1>3, GoesOn

LEMMA InventoryKeeps == RInv /\ IInv /\ InventoryFile => RInv'
<1> SUFFICES ASSUME RInv, IInv, InventoryFile
             PROVE  RInv'
  OBVIOUS
<1>0. Stays /\ JobOK(job) /\ source.db \in Nat /\ source.wal \in Wals
  BY DEF InventoryFile, IInv, SourceOK, Files
<1>1. CASE Doing("inventory db") /\ Continue([job EXCEPT !.inventory.db = source.db])
  <2> DEFINE j == [job EXCEPT !.inventory.db = source.db]
  <2>1. /\ job.steps # <<>> /\ Head(job.steps) = "inventory db" /\ job' = Done(j)
        /\ command' = command /\ page' = page
    BY <1>1 DEF Doing, Continue
  <2>2. /\ JobOK(j) /\ j.op = job.op /\ j.policy = job.policy /\ j.steps = job.steps
        /\ j.copy = job.copy /\ j.read = job.read /\ j.begun = job.begun
    BY <1>0 DEF JobOK, Files
  <2> HIDE DEF j
  <2>3. Onward(j)
    BY <2>1, <2>2 DEF Onward, RInv, SourcesKnown
  <2> QED
    BY <1>0, <2>1, <2>2, <2>3, GoesOn
<1>2. CASE Doing("inventory wal") /\ Continue([job EXCEPT !.inventory.wal = source.wal])
  <2> DEFINE j == [job EXCEPT !.inventory.wal = source.wal]
  <2>1. /\ job.steps # <<>> /\ Head(job.steps) = "inventory wal" /\ job' = Done(j)
        /\ command' = command /\ page' = page
    BY <1>2 DEF Doing, Continue
  <2>2. /\ JobOK(j) /\ j.op = job.op /\ j.policy = job.policy /\ j.steps = job.steps
        /\ j.copy = job.copy /\ j.read = job.read /\ j.begun = job.begun
    BY <1>0 DEF JobOK, Files
  <2> HIDE DEF j
  <2>3. Onward(j)
    BY <2>1, <2>2 DEF Onward, RInv, SourcesKnown
  <2> QED
    BY <1>0, <2>1, <2>2, <2>3, GoesOn
<1> QED
  BY <1>1, <1>2 DEF InventoryFile

LEMMA CopyKeeps == RInv /\ IInv /\ CopyFile => RInv'
<1> SUFFICES ASSUME RInv, IInv, CopyFile
             PROVE  RInv'
  OBVIOUS
<1>0. Stays /\ JobOK(job) /\ source.db \in Nat /\ source.wal \in Wals
  BY DEF CopyFile, IInv, SourceOK, Files
<1>9. Known(source) /\ Known(job.copy) /\ job.read \in 0..Len(Legacy)
  BY DEF RInv, SourcesKnown
<1>8. Len(Legacy) \in Nat
  BY LegacyHoldsPrompts, LenProperties
<1>1. CASE Doing("copy db") /\ Continue([job EXCEPT !.copy.db = source.db])
  <2> DEFINE j == [job EXCEPT !.copy.db = source.db]
  <2>1. /\ job.steps # <<>> /\ Head(job.steps) = "copy db" /\ job' = Done(j)
        /\ command' = command /\ page' = page
    BY <1>1 DEF Doing, Continue
  <2>2. /\ JobOK(j) /\ j.op = job.op /\ j.policy = job.policy /\ j.steps = job.steps
        /\ j.read = job.read /\ j.begun = job.begun
        /\ j.copy.db = source.db /\ j.copy.wal = job.copy.wal
    BY <1>0 DEF JobOK, Files
  <2> HIDE DEF j
  <2>3. Onward(j)
    BY <1>9, <2>1, <2>2 DEF Onward, Known
  <2> QED
    BY <1>0, <2>1, <2>2, <2>3, GoesOn
<1>2. CASE Refused
  BY <1>0, <1>2, IsRefused
<1>3. CASE /\ Doing("copy wal")
           /\ Continue([job EXCEPT !.copy.wal =
                          IF job.inventory.wal = NoWal THEN NoWal ELSE source.wal])
  <2> DEFINE w == IF job.inventory.wal = NoWal THEN NoWal ELSE source.wal
             j == [job EXCEPT !.copy.wal = w]
  <2>1. /\ job.steps # <<>> /\ Head(job.steps) = "copy wal"
        /\ job' = Done(j) /\ page' = page /\ command' = command
    BY <1>3 DEF Doing, Continue
  <2>2. w \in Wals /\ w.upto <= Len(Legacy)
    BY <1>0, <1>8, <1>9 DEF Known, Wals, NoWal
  <2> HIDE DEF w
  <2> DEFINE copy == [job.copy EXCEPT !.wal = w]
  <2>6. copy \in Files /\ copy.db = job.copy.db /\ copy.wal = w
    BY <1>0, <2>2 DEF JobOK, Files
  <2>7. j = [job EXCEPT !.copy = copy]
    OBVIOUS
  <2> HIDE DEF copy
  <2>3. JobOK(j) /\ j.copy.db = job.copy.db /\ j.copy.wal = w
    BY SMTT(60), <1>0, <2>6, <2>7 DEF JobOK
  <2>5. /\ j.op = job.op /\ j.policy = job.policy /\ j.steps = job.steps
        /\ j.read = job.read /\ j.begun = job.begun
    BY <1>0 DEF JobOK
  <2> HIDE DEF j
  <2>4. Onward(j)
    BY <1>9, <2>1, <2>2, <2>3, <2>5 DEF Onward, Known
  <2> QED
    BY <1>0, <2>1, <2>4, <2>5, GoesOn
<1> QED
  BY <1>1, <1>2, <1>3 DEF CopyFile

LEMMA CheckKeeps == RInv /\ IInv /\ CheckFile => RInv'
<1> SUFFICES ASSUME RInv, IInv, CheckFile
             PROVE  RInv'
  OBVIOUS
<1>1. Stays /\ job.steps # <<>> /\ Head(job.steps) \in {"check db", "check wal"}
  BY DEF CheckFile, Doing
<1>2. CASE Continue(job)
  BY <1>1, <1>2, JustGoesOn
<1>3. CASE Refused
  BY <1>1, <1>3, IsRefused
<1> QED
  BY <1>2, <1>3 DEF CheckFile

LEMMA ReadKeeps == RInv /\ IInv /\ ReadDocument => RInv'
<1> SUFFICES ASSUME RInv, IInv, ReadDocument
             PROVE  RInv'
  OBVIOUS
<1> DEFINE n == Holds(job.copy.db, job.copy.wal)
           j == [job EXCEPT !.read = n]
<1>0. Stays /\ JobOK(job) /\ job.steps # <<>> /\ Head(job.steps) = "read"
  BY DEF ReadDocument, IInv, Doing
<1>1. Continue(j) \/ Refused
  BY DEF ReadDocument
<1>2. n \in 0..Len(Legacy)
  <2>1. Len(Legacy) \in Nat
    BY LegacyHoldsPrompts, LenProperties
  <2>2. job.copy.db \in Nat /\ job.copy.wal.upto \in Nat /\ Known(job.copy)
    BY <1>0 DEF JobOK, Files, Wals, RInv, SourcesKnown
  <2> QED
    BY <2>1, <2>2 DEF Holds, Known
<1> HIDE DEF n
<1>3. CASE Continue(j)
  <2>1. job' = Done(j) /\ page' = page /\ command' = command
    BY <1>3 DEF Continue
  <2>2. /\ JobOK(j) /\ j.op = job.op /\ j.policy = job.policy /\ j.steps = job.steps
        /\ j.copy = job.copy /\ j.read = n /\ j.begun = job.begun
    BY <1>0 DEF JobOK
  <2> HIDE DEF j
  <2>3. Onward(j)
    BY <1>2, <2>1, <2>2 DEF Onward, RInv, SourcesKnown
  <2> QED
    BY <1>0, <2>1, <2>2, <2>3, GoesOn
<1>4. CASE Refused
  BY <1>0, <1>4, IsRefused
<1> QED
  BY <1>1, <1>3, <1>4

LEMMA AnswerKeeps == RInv /\ IInv /\ AnswerPreview => RInv'
<1> SUFFICES ASSUME RInv, IInv, AnswerPreview
             PROVE  RInv'
  OBVIOUS
<1>1. /\ Stays /\ JobOK(job) /\ job.steps # <<>> /\ Head(job.steps) = "answer"
      /\ job' = Done(job) /\ command' = command
      /\ page' = [page EXCEPT !.document = DocumentAt(job.read), !.hash = job.inspected]
  BY DEF AnswerPreview, IInv, Doing
<1>2. page'.kind = page.kind /\ page'.plan = page.plan
  BY <1>1 DEF IInv, PageOK
<1>3. /\ job.op # "restore" /\ OtherOK /\ job.op = "preview" /\ job.steps \in Seq(Previewing)
  BY <1>1, OperationIs DEF RInv, Executing, Exporting, Reading
<1>4. page.kind = "legacy"
  <2>1. Remains(job.steps, "answer")
    BY <1>1, <1>3, RemainsOf
  <2> QED
    BY <1>3, <2>1 DEF OtherOK
<1>5. Onward(job)
  BY <1>1, AsItIs
<1>6. OperationOK'
  BY <1>1, <1>2, <1>3, <1>5, OtherGoesOn
<1>7. PageKnown'
  BY <1>2, <1>4 DEF PageKnown
<1>8. RowsOK' /\ Valid(exported)'
  BY <1>1, SameRows DEF RInv, RowsOK, Stays
<1>9. SourcesKnown'
  <2>1. job'.copy = job.copy /\ job'.read = job.read
    BY <1>1, DoneIs
  <2> QED
    BY <1>1, <2>1 DEF RInv, SourcesKnown, Stays
<1> QED
  BY <1>6, <1>7, <1>8, <1>9 DEF RInv

LEMMA ListedAlso ==
  ASSUME NEW j, JobOK(j), NEW left, NEW seen
  PROVE  LET k == [j EXCEPT !.left = left, !.seen = seen]
         IN /\ k.op = j.op /\ k.policy = j.policy
            /\ k.begun = j.begun /\ k.copy = j.copy
BY DEF JobOK

LEMMA ListKeeps == RInv /\ IInv /\ ListPrompts => RInv'
<1> SUFFICES ASSUME RInv, IInv, ListPrompts
             PROVE  RInv'
  OBVIOUS
<1> DEFINE seen == [s \in DOMAIN library |-> Summary(library[s])]
           left == DOMAIN library
           j == [job EXCEPT !.left = left, !.seen = seen]
<1>1. /\ job.steps # <<>> /\ Head(job.steps) = "list" /\ job' = Done(j)
      /\ page' = page /\ command' = command /\ Stays
  BY DEF ListPrompts, Doing, Continue
<1> HIDE DEF seen, left
<1>0. JobOK(job)
  BY DEF IInv
<1>2. JobOK(j) /\ j.steps = job.steps /\ j.read = job.read
  BY ZenonT(60), <1>0, ListedIs
<1>4. j.op = job.op /\ j.policy = job.policy /\ j.begun = job.begun /\ j.copy = job.copy
  BY <1>0, ListedAlso
<1> HIDE DEF j
<1>3. Onward(j)
  BY <1>1, <1>2, <1>4 DEF Onward, RInv, SourcesKnown
<1> QED
  BY <1>1, <1>2, <1>3, <1>4, GoesOn

LEMMA VersionsKeep == RInv /\ IInv /\ ListPromptVersions => RInv'
<1> SUFFICES ASSUME RInv, IInv, ListPromptVersions
             PROVE  RInv'
  OBVIOUS
<1>0. Stays /\ job.steps # <<>> /\ Head(job.steps) = "versions" /\ JobOK(job)
  BY DEF ListPromptVersions, Doing, IInv
<1>1. CASE Continue(job)
  BY <1>0, <1>1, JustGoesOn
<1>2. CASE Refused
  BY <1>0, <1>2, IsRefused
<1>3. ASSUME NEW s \in job.left,
             job' = [job EXCEPT !.left = @ \ {s}, !.seen[s].versions = library[s].versions],
             page' = page, command' = command
      PROVE  RInv'
  <2>1. /\ job'.op = job.op /\ job'.steps = job.steps /\ job'.begun = job.begun
        /\ job'.copy = job.copy /\ job'.read = job.read
    BY <1>0, <1>3 DEF JobOK
  <2>2. job.op # "restore" /\ OtherOK
    BY <1>0, OperationIs DEF RInv, Executing, Reading
  <2>3. OperationOK'
    BY <1>3, <2>1, <2>2 DEF OtherOK, OperationOK
  <2>4. RowsOK' /\ Valid(exported)' /\ PageKnown' /\ SourcesKnown'
    BY <1>0, <1>3, <2>1, SameRows DEF RInv, RowsOK, Stays, PageKnown, SourcesKnown
  <2> QED
    BY <2>3, <2>4 DEF RInv
<1> QED
  BY <1>1, <1>2, <1>3 DEF ListPromptVersions

LEMMA HashKeeps == RInv /\ IInv /\ SameHash => RInv'
<1> SUFFICES ASSUME RInv, IInv, SameHash
             PROVE  RInv'
  OBVIOUS
<1>0. Stays /\ job.steps # <<>> /\ Head(job.steps) = "same hash"
  BY DEF SameHash, Doing
<1>1. CASE Continue(job)
  BY <1>0, <1>1, JustGoesOn
<1>2. CASE RefusedAsStale
  BY <1>0, <1>2, IsRefusedAsStale
<1> QED
  BY <1>1, <1>2 DEF SameHash

(* Here the plan that was shown is compared with one made anew. *)
LEMMA PlanKeeps == RInv /\ IInv /\ SamePlan => RInv'
<1> SUFFICES ASSUME RInv, IInv, SamePlan
             PROVE  RInv'
  OBVIOUS
<1>0. Stays /\ job.steps # <<>> /\ Head(job.steps) = "same plan"
  BY DEF SamePlan, Doing
<1>1. CASE Refused
  BY <1>0, <1>1, IsRefused
<1>2. CASE RefusedAsStale
  BY <1>0, <1>2, IsRefusedAsStale
<1>3. CASE Valid(Restored) /\ page.plan = RebuiltPlan(Restored) /\ Continue(job)
  <2>1. page.plan = BuildRestorePlan(Restored, Visible(library))
    BY <1>3 DEF RebuiltPlan, LibraryFingerprint
  <2>2. page.plan.library = Visible(library)
    BY <2>1 DEF BuildRestorePlan
  <2>3. Compared
    BY <1>3, <2>1, <2>2 DEF Compared
  <2> QED
    BY <1>0, <1>3, <2>3, JustGoesOn
<1> QED
  BY <1>1, <1>2, <1>3 DEF SamePlan, ValidDocument

LEMMA WritingAlso ==
  ASSUME NEW j, JobOK(j), NEW begun
  PROVE  LET k == [j EXCEPT !.begun = begun]
         IN /\ k.op = j.op /\ k.policy = j.policy /\ k.steps = j.steps
            /\ k.begun = begun /\ k.copy = j.copy /\ k.read = j.read
BY DEF JobOK

LEMMA BeginKeeps == RInv /\ IInv /\ BeginTransaction => RInv'
<1> SUFFICES ASSUME RInv, IInv, BeginTransaction
             PROVE  RInv'
  OBVIOUS
<1> DEFINE j == [job EXCEPT !.begun = TRUE]
<1>1. /\ job.steps # <<>> /\ Head(job.steps) = "begin" /\ job' = Done(j)
      /\ page' = page /\ command' = command /\ Stays /\ JobOK(job)
  BY DEF BeginTransaction, Doing, Continue, IInv
<1>2. JobOK(j)
  BY <1>1, Writing
<1>3. /\ j.op = job.op /\ j.policy = job.policy /\ j.steps = job.steps
      /\ j.begun = TRUE /\ j.copy = job.copy /\ j.read = job.read
  BY <1>1, WritingAlso
<1> HIDE DEF j
<1>4. Onward(j)
  BY <1>1, <1>2, <1>3 DEF Onward, RInv, SourcesKnown
<1> QED
  BY <1>1, <1>3, <1>4, GoesOn

(* Only a file that parses again is handed out. *)
LEMMA HandOutKeeps == RInv /\ IInv /\ HandOut => RInv'
<1> SUFFICES ASSUME RInv, IInv, HandOut
             PROVE  RInv'
  OBVIOUS
<1>1. /\ job.steps # <<>> /\ Head(job.steps) = "hand out" /\ job' = NoJob
      /\ UNCHANGED <<library, rebuilt, purged, command, source, page, broken, clock>>
  BY DEF HandOut, Doing
<1>2. Valid(exported')
  BY DEF HandOut, RInv
<1>3. command # Restoring
  BY <1>1, OperationIs DEF RInv, Executing, Reading, OtherOK
<1>4. RowsOK' /\ PageKnown' /\ source' = source /\ command' # Restoring
  BY <1>1, <1>3 DEF RInv, RowsOK, PageKnown
<1> QED
  BY <1>1, <1>2, <1>4, IsOver

LEMMA ShowPlanKeeps == RInv /\ IInv /\ ShowPlan => RInv'
<1> SUFFICES ASSUME RInv, IInv, ShowPlan
             PROVE  RInv'
  OBVIOUS
<1>1. /\ job.steps # <<>> /\ Head(job.steps) = "plan" /\ job' = NoJob
      /\ Stays /\ command' = command
  BY DEF ShowPlan, Doing
<1>2. command # Restoring /\ page.kind # "none"
  BY <1>1, OperationIs DEF RInv, Executing, Exporting, Reading, OtherOK
<1>3. page'.kind = page.kind /\ page'.document = page.document
  <2> DEFINE plan == BuildRestorePlan(Normalized(page.document), job.seen)
  <2>1. page' = page \/ page' = [page EXCEPT !.plan = plan]
    BY DEF ShowPlan
  <2> HIDE DEF plan
  <2> QED
    BY <2>1 DEF IInv, PageOK
<1>4. PageKnown'
  BY <1>2, <1>3 DEF RInv, PageKnown
<1>5. RowsOK' /\ Valid(exported)' /\ source' = source /\ command' # Restoring
  BY <1>1, <1>2, SameRows DEF RInv, RowsOK, Stays
<1> QED
  BY <1>1, <1>4, <1>5, IsOver

LEMMA CrashKeeps == RInv /\ IInv /\ Crash => RInv'
<1> SUFFICES ASSUME RInv, IInv, Crash
             PROVE  RInv'
  OBVIOUS
<1>1. /\ command' = Free /\ page' = NoPage /\ job' = NoJob /\ clock' = clock + 1
      /\ UNCHANGED <<library, rebuilt, source, exported, broken>>
  BY DEF Crash, Tick
<1>2. PageKnown'
  BY <1>1 DEF PageKnown, NoPage
<1>3. RowsOK'
  <2>1. clock' \in Nat /\ rebuilt' \in BOOLEAN
    BY <1>1 DEF RInv, RowsOK
  <2>2. LibraryOK(library') /\ HistoriesOK(library', broken')
    BY <1>1 DEF RInv, RowsOK
  <2>3. CommandOK(command', broken')
    BY <1>1, Commands
  <2> QED
    BY <2>1, <2>2, <2>3 DEF RowsOK
<1>4. Valid(exported)' /\ command' # Restoring
  BY <1>1, Commands DEF RInv
<1> QED
  BY <1>1, <1>2, <1>3, <1>4, IsOver

LEMMA LegacyKeeps == RInv /\ IInv /\ LegacyApplication => RInv'
<1> SUFFICES ASSUME RInv, IInv, LegacyApplication
             PROVE  RInv'
  OBVIOUS
<1> DEFINE now == Holds(source.db, source.wal)
<1>1. UNCHANGED <<library, rebuilt, command, page, job, exported, broken, clock>>
  BY DEF LegacyApplication
<1>2. /\ source = [db |-> source.db, wal |-> source.wal]
      /\ source.wal = [base |-> source.wal.base, upto |-> source.wal.upto]
      /\ source.db \in Nat /\ source.wal.base \in Nat /\ source.wal.upto \in Nat
      /\ source.db <= Len(Legacy) /\ source.wal.upto <= Len(Legacy)
  BY DEF IInv, SourceOK, Files, Wals, RInv, SourcesKnown, Known
<1>3. Len(Legacy) \in Nat
  BY LegacyHoldsPrompts, LenProperties
<1>4. now \in Nat /\ now <= Len(Legacy)
  BY <1>2, <1>3 DEF Holds
<1> HIDE DEF now
<1>5. Known(source')
  <2>1. CASE now < Len(Legacy) /\ source' = [source EXCEPT !.wal = [base |-> now, upto |-> now + 1]]
    <3>1. source'.db = source.db /\ source'.wal.upto = now + 1
      BY <1>2, <2>1
    <3> QED
      BY <1>2, <1>3, <1>4, <2>1, <3>1 DEF Known
  <2>2. CASE now < Len(Legacy) /\ source' = [source EXCEPT !.wal.upto = now + 1]
    <3>1. source'.db = source.db /\ source'.wal.upto = now + 1
      BY <1>2, <2>2
    <3> QED
      BY <1>2, <1>3, <1>4, <2>2, <3>1 DEF Known
  <2>3. CASE source' = [source EXCEPT !.db = now]
    <3>1. source'.db = now /\ source'.wal = source.wal
      BY <1>2, <2>3
    <3> QED
      BY <1>2, <1>4, <3>1 DEF Known
  <2>4. CASE source' = [source EXCEPT !.wal = NoWal]
    <3>1. source'.db = source.db /\ source'.wal.upto = 0
      BY <1>2, <2>4 DEF NoWal
    <3> QED
      BY <1>2, <1>3, <3>1 DEF Known
  <2> QED
    BY <2>1, <2>2, <2>3, <2>4 DEF LegacyApplication, now
<1>6. RowsOK' /\ PageKnown' /\ Valid(exported)' /\ SourcesKnown'
  BY <1>1, <1>5 DEF RInv, RowsOK, PageKnown, SourcesKnown
<1>7. Compared' <=> Compared
  BY <1>1 DEF Compared, Restored
<1>8. OperationOK'
  BY <1>1, <1>7 DEF RInv, OperationOK, RestoreOK, OtherOK
<1> QED
  BY <1>6, <1>8 DEF RInv

-----------------------------------------------------------------------------
(* An operation begins *)

LEMMA Narrowed ==
  ASSUME NEW S, NEW T, NEW s, s \in Seq(S), \A i \in 1..Len(s) : s[i] \in T
  PROVE  s \in Seq(T)
<1>1. Len(s) \in Nat /\ s \in [1..Len(s) -> S]
  BY LenProperties
<1>2. s \in [1..Len(s) -> T]
  BY <1>1
<1> QED
  BY <1>1, <1>2, SeqDef

LEMMA RestoreStepsAre ==
  /\ LegacyRestore \in Seq(StepNames) /\ Len(LegacyRestore) = 20
  /\ LegacyRestore[1] = "lock" /\ LegacyRestore[2] = "inspect"
  /\ LegacyRestore[3] = "inventory db" /\ LegacyRestore[4] = "inventory wal"
  /\ LegacyRestore[5] = "copy db" /\ LegacyRestore[6] = "copy wal"
  /\ LegacyRestore[7] = "check db" /\ LegacyRestore[8] = "check wal"
  /\ LegacyRestore[9] = "read"
  /\ LegacyRestore[10] = "check db" /\ LegacyRestore[11] = "check wal"
  /\ LegacyRestore[12] = "same hash"
  /\ LegacyRestore[13] = "inventory db" /\ LegacyRestore[14] = "inventory wal"
  /\ LegacyRestore[15] = "same hash" /\ LegacyRestore[16] = "same plan"
  /\ LegacyRestore[17] = "begin"
  /\ LegacyRestore[18] = "check db" /\ LegacyRestore[19] = "check wal"
  /\ LegacyRestore[20] = "commit"
<1>1. /\ AfterCheck[1] = "same hash"
      /\ AfterCheck[2] = "inventory db" /\ AfterCheck[3] = "inventory wal"
      /\ AfterCheck[4] = "same hash" /\ AfterCheck[5] = "same plan" /\ AfterCheck[6] = "begin"
      /\ AfterCheck[7] = "check db" /\ AfterCheck[8] = "check wal" /\ AfterCheck[9] = "commit"
  BY DEF AfterCheck
<1>2. /\ LegacyRestore[12] = AfterCheck[1] /\ LegacyRestore[13] = AfterCheck[2]
      /\ LegacyRestore[14] = AfterCheck[3] /\ LegacyRestore[15] = AfterCheck[4]
      /\ LegacyRestore[16] = AfterCheck[5] /\ LegacyRestore[17] = AfterCheck[6]
      /\ LegacyRestore[18] = AfterCheck[7] /\ LegacyRestore[19] = AfterCheck[8]
      /\ LegacyRestore[20] = AfterCheck[9]
  BY RestoreSteps
<1>3. /\ LegacyRestore[3] = Snapshot[1] /\ LegacyRestore[4] = Snapshot[2]
      /\ LegacyRestore[5] = Snapshot[3] /\ LegacyRestore[6] = Snapshot[4]
      /\ LegacyRestore[7] = Snapshot[5] /\ LegacyRestore[8] = Snapshot[6]
      /\ LegacyRestore[9] = Snapshot[7]
      /\ LegacyRestore[10] = Snapshot[8] /\ LegacyRestore[11] = Snapshot[9]
  BY RestoreSteps
<1>4. /\ LegacyRestore[12] = "same hash"
      /\ LegacyRestore[13] = "inventory db" /\ LegacyRestore[14] = "inventory wal"
      /\ LegacyRestore[15] = "same hash" /\ LegacyRestore[16] = "same plan"
      /\ LegacyRestore[17] = "begin"
      /\ LegacyRestore[18] = "check db" /\ LegacyRestore[19] = "check wal"
      /\ LegacyRestore[20] = "commit"
  BY ZenonT(60), <1>1, <1>2
<1>5. /\ LegacyRestore[3] = "inventory db" /\ LegacyRestore[4] = "inventory wal"
      /\ LegacyRestore[5] = "copy db" /\ LegacyRestore[6] = "copy wal"
      /\ LegacyRestore[7] = "check db" /\ LegacyRestore[8] = "check wal"
      /\ LegacyRestore[9] = "read"
      /\ LegacyRestore[10] = "check db" /\ LegacyRestore[11] = "check wal"
  BY <1>3, SnapshotSteps
<1>6. /\ LegacyRestore \in Seq(StepNames) /\ Len(LegacyRestore) = 20
      /\ LegacyRestore[1] = "lock" /\ LegacyRestore[2] = "inspect"
  BY RestoreSteps
<1> QED
  BY <1>4, <1>5, <1>6

(* What a restore has before it when it begins. *)
Ahead(steps) ==
  /\ steps \in Seq(Executing) /\ RestoreOrder(steps) /\ Head(steps) = "lock"
  /\ Remains(steps, "same plan") /\ Remains(steps, "begin")

LEMMA LegacyAhead == Ahead(LegacyRestore)
<1> DEFINE s == LegacyRestore
<1>1. s \in Seq(StepNames) /\ Len(s) = 20
  BY RestoreStepsAre
<1>2. \A i \in 1..20 : \/ i = 1 \/ i = 2 \/ i = 3 \/ i = 4 \/ i = 5 \/ i = 6 \/ i = 7 \/ i = 8
                       \/ i = 9 \/ i = 10 \/ i = 11 \/ i = 12 \/ i = 13 \/ i = 14 \/ i = 15
                       \/ i = 16 \/ i = 17 \/ i = 18 \/ i = 19 \/ i = 20
  OBVIOUS
<1> HIDE DEF s
<1>3. /\ s[1] = "lock" /\ s[2] = "inspect"
      /\ s[3] = "inventory db" /\ s[4] = "inventory wal" /\ s[5] = "copy db"
      /\ s[6] = "copy wal" /\ s[7] = "check db" /\ s[8] = "check wal" /\ s[9] = "read"
      /\ s[10] = "check db" /\ s[11] = "check wal" /\ s[12] = "same hash"
      /\ s[13] = "inventory db" /\ s[14] = "inventory wal" /\ s[15] = "same hash"
      /\ s[16] = "same plan" /\ s[17] = "begin" /\ s[18] = "check db"
      /\ s[19] = "check wal" /\ s[20] = "commit"
  BY RestoreStepsAre DEF s
<1>4. \A i \in 1..20 : s[i] \in Executing
  BY ZenonT(60), <1>2, <1>3 DEF Executing, Reading
<1>5. \A i \in 2..20 : s[i] # "lock"
  <2>1. \A i \in 2..20 : i \in 1..20 /\ i # 1
    OBVIOUS
  <2> QED
    BY <1>2, <1>3, <2>1
<1>6. \A i \in 1..20 : s[i] = "commit" <=> i = 20
  BY <1>2, <1>3
<1>7. \A i \in 1..20 : s[i] = "read" => \E k \in (i + 1)..20 : s[k] = "same plan"
  <2>1. \A i \in 1..20 : s[i] = "read" => i = 9
    BY <1>2, <1>3
  <2>2. 16 \in (9 + 1)..20
    OBVIOUS
  <2> QED
    BY <1>3, <2>1, <2>2
<1>8. s \in Seq(Executing)
  BY <1>1, <1>4, Narrowed
<1>9. RestoreOrder(s)
  <2>1. \A i \in 2..Len(s) : s[i] # "lock"
    BY <1>1, <1>5
  <2>2. \A i \in 1..Len(s) : s[i] = "commit" <=> i = Len(s)
    BY <1>1, <1>6
  <2>3. \A i \in 1..Len(s) :
          s[i] = "read" => \E k \in (i + 1)..Len(s) : s[k] = "same plan"
    BY <1>1, <1>7
  <2>4. Len(s) >= 1
    BY <1>1
  <2> QED
    BY <2>1, <2>2, <2>3, <2>4 DEF RestoreOrder
<1>10. Remains(s, "same plan") /\ Remains(s, "begin")
  <2>1. 16 \in 1..20 /\ 17 \in 1..20
    OBVIOUS
  <2> QED
    BY <1>1, <1>3, <2>1 DEF Remains
<1>11. Head(s) = "lock"
  <2>2. ASSUME s = <<>>
        PROVE  Len(s) = 0
    BY <2>2
  <2>1. s # <<>>
    BY <1>1, <2>2
  <2> QED
    BY ZenonT(60), <1>3, <1>8, <2>1, TailOf
<1> QED
  BY <1>8, <1>9, <1>10, <1>11 DEF Ahead, s

LEMMA FileAhead == Ahead(FileSteps)
<1> DEFINE s == FileSteps
<1>1. /\ s \in Seq(StepNames) /\ Len(s) = 4
      /\ s[1] = "lock" /\ s[2] = "same plan" /\ s[3] = "begin" /\ s[4] = "commit"
  BY FilePlan DEF FileSteps
<1>2. \A i \in 1..4 : i = 1 \/ i = 2 \/ i = 3 \/ i = 4
  OBVIOUS
<1> HIDE DEF s
<1>3. Len(s) = 4
  BY <1>1
<1>4. \A i \in 1..4 : s[i] \in Executing
  BY <1>1, <1>2 DEF Executing
<1>5. \A i \in 2..4 : s[i] # "lock"
  <2>1. \A i \in 2..4 : i \in 1..4 /\ i # 1
    OBVIOUS
  <2> QED
    BY <1>1, <1>2, <2>1
<1>6. \A i \in 1..4 : s[i] = "commit" <=> i = 4
  BY <1>1, <1>2
<1>7. \A i \in 1..4 : s[i] = "read" => \E k \in (i + 1)..4 : s[k] = "same plan"
  BY <1>1, <1>2
<1>8. s \in Seq(Executing)
  BY <1>1, <1>4, Narrowed
<1>9. RestoreOrder(s)
  <2>1. \A i \in 2..Len(s) : s[i] # "lock"
    BY <1>1, <1>5
  <2>2. \A i \in 1..Len(s) : s[i] = "commit" <=> i = Len(s)
    BY <1>1, <1>6
  <2>3. \A i \in 1..Len(s) :
          s[i] = "read" => \E k \in (i + 1)..Len(s) : s[k] = "same plan"
    BY <1>1, <1>7
  <2>4. Len(s) >= 1
    BY <1>3
  <2> QED
    BY <2>1, <2>2, <2>3, <2>4 DEF RestoreOrder
<1>10. Remains(s, "same plan") /\ Remains(s, "begin")
  <2>1. 2 \in 1..4 /\ 3 \in 1..4
    OBVIOUS
  <2> QED
    BY <1>1, <2>1 DEF Remains
<1>11. Head(s) = "lock"
  <2>2. ASSUME s = <<>>
        PROVE  Len(s) = 0
    BY <2>2
  <2>1. s # <<>>
    BY <1>3, <2>2
  <2> QED
    BY <1>1, <1>8, <2>1, TailOf
<1> QED
  BY <1>8, <1>9, <1>10, <1>11 DEF Ahead, s

LEMMA PreviewReads == LegacyPreview \in Seq(Previewing)
<1> DEFINE s == LegacyPreview
<1>1. s \in Seq(StepNames) /\ Len(s) = 14
  BY PreviewSteps
<1>2. \A i \in 1..14 : i = 1 \/ i - 1 \in 1..9 \/ i = 11 \/ i = 12 \/ i = 13 \/ i = 14
  OBVIOUS
<1>3. \A i \in 1..9 : Snapshot[i] \in Reading
  <2>1. \A i \in 1..9 : \/ i = 1 \/ i = 2 \/ i = 3 \/ i = 4 \/ i = 5 \/ i = 6
                        \/ i = 7 \/ i = 8 \/ i = 9
    OBVIOUS
  <2> QED
    BY <2>1, SnapshotSteps DEF Reading
<1>4. \A i \in 1..14 : i - 1 \in 1..9 => s[i] \in Reading
  <2> SUFFICES ASSUME NEW i \in 1..14, i - 1 \in 1..9
               PROVE  s[i] \in Reading
    OBVIOUS
  <2>1. LegacyPreview[(i - 1) + 1] = Snapshot[i - 1]
    BY PreviewSteps
  <2>2. (i - 1) + 1 = i
    OBVIOUS
  <2> QED
    BY <1>3, <2>1, <2>2
<1>5. /\ s[1] = "inspect" /\ s[11] = "answer" /\ s[12] = "list" /\ s[13] = "versions"
      /\ s[14] = "plan"
  BY PreviewSteps
<1> HIDE DEF s
<1>6. \A i \in 1..14 : s[i] \in Previewing
  <2>1. \A x \in Reading : x \in Previewing
    BY DEF Previewing
  <2>2. "inspect" \in Previewing
    BY DEF Previewing, Reading
  <2>3. "answer" \in Previewing /\ "list" \in Previewing /\ "versions" \in Previewing
        /\ "plan" \in Previewing
    BY DEF Previewing
  <2> QED
    BY <1>2, <1>4, <1>5, <2>1, <2>2, <2>3
<1> QED
  BY <1>1, <1>6, Narrowed DEF s

LEMMA ListAhead ==
  /\ ReadLibrary \o <<"hand out">> \in Seq(Exporting)
  /\ ReadLibrary \o <<"plan">> \in Seq(Previewing)
  /\ ~Remains(ReadLibrary \o <<"hand out">>, "answer")
  /\ ~Remains(ReadLibrary \o <<"plan">>, "answer")
<1>1. ReadLibrary \o <<"hand out">> \in Seq(Exporting)
  BY DEF ReadLibrary, Exporting
<1>2. ReadLibrary \o <<"plan">> \in Seq(Previewing)
  BY DEF ReadLibrary, Previewing
<1>3. /\ "hand out" \in StepNames /\ ~UsesDocument("hand out")
      /\ "plan" \in StepNames /\ ~UsesDocument("plan")
  BY DEF StepNames, UsesDocument
<1>4. ~Remains(ReadLibrary \o <<"hand out">>, "answer")
  BY <1>3, PlainList DEF Remains, UsesDocument
<1>5. ~Remains(ReadLibrary \o <<"plan">>, "answer")
  BY <1>3, PlainList DEF Remains, UsesDocument
<1> QED
  BY <1>1, <1>2, <1>4, <1>5

LEMMA IsStarted ==
  ASSUME RInv, NEW op, NEW policy, NEW steps, Start(op, policy, steps), PageKnown'
  PROVE  /\ RowsOK' /\ SourcesKnown' /\ Valid(exported)'
         /\ command' = command /\ command # Restoring
         /\ job'.op = op /\ job'.policy = policy /\ job'.steps = steps /\ job'.begun = FALSE
<1>1. /\ job = NoJob /\ job' = Job(op, policy, steps)
      /\ UNCHANGED <<library, rebuilt, command, source, exported, broken, clock>>
  BY DEF Start
<1>2. /\ job'.op = op /\ job'.policy = policy /\ job'.steps = steps /\ job'.begun = FALSE
      /\ job'.copy = NoFiles /\ job'.read = 0
  BY <1>1 DEF Job
<1>3. Len(Legacy) \in Nat
  BY LegacyHoldsPrompts, LenProperties
<1>4. SourcesKnown'
  BY <1>1, <1>2, <1>3 DEF RInv, SourcesKnown, Known, NoFiles
<1>5. command # Restoring
  BY <1>1, NoJobIs DEF RInv, OperationOK, OtherOK
<1>6. RowsOK' /\ Valid(exported)'
  BY <1>1 DEF RInv, RowsOK
<1> QED
  BY <1>1, <1>2, <1>4, <1>5, <1>6

LEMMA StartKeeps ==
  ASSUME RInv, IInv,
         Export \/ PreviewFile \/ PreviewLegacy \/ \E policy \in Policies : Execute(policy)
  PROVE  RInv'
<1>1. CASE Export
  <2> DEFINE steps == ReadLibrary \o <<"hand out">>
  <2>1. Start("export", "none", steps) /\ page' = page
    BY <1>1 DEF Export
  <2>2. steps \in Seq(Exporting) /\ ~Remains(steps, "answer")
    BY ListAhead
  <2> HIDE DEF steps
  <2>3. PageKnown'
    BY <2>1 DEF RInv, PageKnown
  <2>4. /\ RowsOK' /\ SourcesKnown' /\ Valid(exported)'
        /\ command' = command /\ command # Restoring
        /\ job'.op = "export" /\ job'.steps = steps /\ job'.begun = FALSE
    BY <2>1, <2>3, IsStarted
  <2>5. OtherOK' /\ job'.op # "restore"
    BY <2>2, <2>4 DEF OtherOK
  <2> QED
    BY <2>3, <2>4, <2>5 DEF RInv, OperationOK
<1>2. CASE PreviewFile
  <2> DEFINE steps == ReadLibrary \o <<"plan">>
  <2>1. PICK file \in Backups : page' = [NoPage EXCEPT !.kind = "backup", !.document = file]
    BY <1>2 DEF PreviewFile
  <2>2. Start("preview", "none", steps)
    BY <1>2 DEF PreviewFile
  <2>3. steps \in Seq(Previewing) /\ ~Remains(steps, "answer")
    BY ListAhead
  <2> HIDE DEF steps
  <2>4. PageKnown' /\ page'.kind # "none"
    BY <2>1 DEF PageKnown, NoPage
  <2>5. /\ RowsOK' /\ SourcesKnown' /\ Valid(exported)'
        /\ command' = command /\ command # Restoring
        /\ job'.op = "preview" /\ job'.steps = steps /\ job'.begun = FALSE
    BY <2>2, <2>4, IsStarted
  <2>6. OtherOK' /\ job'.op # "restore"
    BY <2>3, <2>4, <2>5 DEF OtherOK
  <2> QED
    BY <2>4, <2>5, <2>6 DEF RInv, OperationOK
<1>3. CASE PreviewLegacy
  <2>1. Start("preview", "none", LegacyPreview) /\ page' = [NoPage EXCEPT !.kind = "legacy"]
    BY <1>3 DEF PreviewLegacy
  <2>2. PageKnown' /\ page'.kind = "legacy"
    BY <2>1 DEF PageKnown, NoPage
  <2>3. /\ RowsOK' /\ SourcesKnown' /\ Valid(exported)'
        /\ command' = command /\ command # Restoring
        /\ job'.op = "preview" /\ job'.steps = LegacyPreview /\ job'.begun = FALSE
    BY <2>1, <2>2, IsStarted
  <2>4. OtherOK' /\ job'.op # "restore"
    BY <2>2, <2>3, PreviewReads DEF OtherOK
  <2> QED
    BY <2>2, <2>3, <2>4 DEF RInv, OperationOK
<1>4. ASSUME NEW policy \in Policies, Execute(policy)
      PROVE  RInv'
  <2>1. page' = page /\ page.plan # NoPlan
    BY <1>4 DEF Execute
  <2>2. PageKnown' /\ page'.kind # "none"
    BY <2>1 DEF RInv, PageKnown
  <2>3. ASSUME NEW steps, Start("restore", policy, steps), Ahead(steps)
        PROVE  RInv'
    <3>1. /\ RowsOK' /\ SourcesKnown' /\ Valid(exported)'
          /\ command' = command /\ command # Restoring
          /\ job'.op = "restore" /\ job'.policy = policy /\ job'.steps = steps
          /\ job'.begun = FALSE
      BY <2>2, <2>3, IsStarted
    <3>2. RestoreOK'
      BY <2>2, <2>3, <3>1 DEF RestoreOK, Ahead
    <3> QED
      BY <2>2, <3>1, <3>2 DEF RInv, OperationOK
  <2>4. CASE page.kind = "legacy"
    <3>1. Start("restore", policy, LegacyRestore)
      BY <1>4, <2>4 DEF Execute
    <3> QED
      BY <2>3, <3>1, LegacyAhead
  <2>5. CASE page.kind # "legacy"
    <3>1. Start("restore", policy, FileSteps)
      BY <1>4, <2>5 DEF Execute, FileSteps
    <3> QED
      BY <2>3, <3>1, FileAhead
  <2> QED
    BY <2>4, <2>5
<1> QED
  BY <1>1, <1>2, <1>3, <1>4

-----------------------------------------------------------------------------
(* Carrying a plan out *)

(* A history that begins with another one. *)
Carries(vs, ws) == Len(vs) <= Len(ws) /\ \A i \in 1..Len(vs) : ws[i] = vs[i]

LEMMA CarriesIs ==
  ASSUME NEW vs, vs \in Seq(Version), NEW ws, ws \in Seq(Version), Carries(vs, ws)
  PROVE  IsPrefix(vs, ws) /\ Identities(vs) \subseteq Identities(ws)
<1>1. /\ Len(vs) \in Nat /\ Len(ws) \in Nat /\ DOMAIN vs = 1..Len(vs) /\ DOMAIN ws = 1..Len(ws)
      /\ Len(vs) <= Len(ws) /\ \A i \in 1..Len(vs) : ws[i] = vs[i]
  BY LenProperties DEF Carries
<1>2. SubSeq(vs, 1, Len(vs)) = SubSeq(ws, 1, Len(vs))
  BY <1>1
<1>3. ToSet(vs) \subseteq ToSet(ws)
  <2>1. \A i \in DOMAIN vs : i \in DOMAIN ws /\ ws[i] = vs[i]
    BY <1>1
  <2> QED
    BY <2>1 DEF ToSet
<1> QED
  BY <1>1, <1>2, <1>3 DEF IsPrefix, Identities

LEMMA CarriesOn ==
  ASSUME NEW us, us \in Seq(Version), NEW vs, vs \in Seq(Version), NEW ws, ws \in Seq(Version),
         Carries(us, vs), Carries(vs, ws)
  PROVE  Carries(us, ws)
<1>1. Len(us) \in Nat /\ Len(vs) \in Nat /\ Len(ws) \in Nat
  BY LenProperties
<1>2. \A i \in 1..Len(us) : i \in 1..Len(vs)
  BY <1>1 DEF Carries
<1> QED
  BY <1>1, <1>2 DEF Carries

LEMMA CarriesItself ==
  ASSUME NEW vs, vs \in Seq(Version)
  PROVE  Carries(vs, vs)
BY LenProperties DEF Carries

LEMMA CarriesJoined ==
  ASSUME NEW vs, vs \in Seq(Version), NEW ws, ws \in Seq(Version)
  PROVE  Carries(vs, vs \o ws)
<1>1. /\ vs \o ws \in Seq(Version) /\ Len(vs \o ws) = Len(vs) + Len(ws)
      /\ Len(vs) \in Nat /\ Len(ws) \in Nat
      /\ \A i \in 1..Len(vs) : (vs \o ws)[i] = vs[i]
  OBVIOUS
<1> QED
  BY <1>1 DEF Carries

NewEntry(e) == e.kind = "new-prompt"
Copies(policy, e) == ~NewEntry(e) /\ policy = "import-as-copy"
Adds(policy, e) == ~NewEntry(e) /\ policy = "add-missing-versions"
Skips(policy, e) == ~NewEntry(e) /\ policy = "skip-existing"

LEMMA OnePolicy ==
  ASSUME NEW policy \in Policies, NEW e
  PROVE  /\ NewEntry(e) \/ Copies(policy, e) \/ Adds(policy, e) \/ Skips(policy, e)
         /\ \A d : Copies(policy, e) => ~Adds(policy, d)
BY DEF Policies, NewEntry, Copies, Adds, Skips

EntryFits(e, p) == e.slug = p.slug /\ e.missing \subseteq Identities(p.versions)

LEMMA EntryFitsPlan ==
  ASSUME NEW p, NEW visible, NEW reserved
  PROVE  EntryFits(PlanEntry(p, visible, reserved), p)
<1> DEFINE e == PlanEntry(p, visible, reserved)
<1>1. CASE p.slug \notin DOMAIN visible
  <2>1. e = [slug |-> p.slug, kind |-> "new-prompt",
             missing |-> Identities(p.versions), copySlug |-> <<>>]
    BY <1>1 DEF PlanEntry
  <2> HIDE DEF e
  <2>2. e.slug = p.slug /\ e.missing = Identities(p.versions)
    BY <2>1
  <2> QED
    BY <2>2 DEF EntryFits, e
<1>2. CASE p.slug \in DOMAIN visible
  <2> DEFINE kind == Kind(p, visible[p.slug])
             missing == Identities(p.versions) \ Identities(visible[p.slug].versions)
             copy == FreeCopySlug(p.slug, reserved)
  <2>1. e = [slug |-> p.slug, kind |-> kind, missing |-> missing, copySlug |-> copy]
    BY <1>2 DEF PlanEntry
  <2> HIDE DEF e, kind, copy
  <2>2. e.slug = p.slug /\ e.missing = missing
    BY <2>1
  <2> QED
    BY <2>2 DEF EntryFits, e
<1> QED
  BY <1>1, <1>2

MissingFrom(p, e) ==
  Selected(p.versions, {i \in DOMAIN p.versions : Identity(p.versions[i]) \in e.missing})

LEMMA MissingFromIs ==
  ASSUME NEW p \in Source, NEW e, EntryFits(e, p)
  PROVE  /\ MissingFrom(p, e) \in Seq(Version)
         /\ Identities(MissingFrom(p, e)) = e.missing
         /\ MissingFrom(p, e) = <<>> => e.missing = {}
<1>1. p.versions \in Seq(Version)
  BY DEF Source, PromptWith
<1>2. /\ MissingFrom(p, e) \in Seq(Version)
      /\ Identities(MissingFrom(p, e)) = Identities(p.versions) \cap e.missing
  BY <1>1, ChosenIs DEF MissingFrom
<1>3. Identities(MissingFrom(p, e)) = e.missing
  BY <1>2 DEF EntryFits
<1>4. Identities(<<>>) = {}
  <2>1. ToSet(<<>>) = {}
    BY DEF ToSet
  <2> QED
    BY <2>1 DEF Identities
<1> QED
  BY <1>2, <1>3, <1>4

Extended(lib, s, added) == [lib EXCEPT ![s].versions = @ \o added]

LEMMA ApplyEntryGives ==
  ASSUME NEW policy \in Policies, NEW document, SlugsOnce(document),
         NEW k \in DOMAIN document, NEW e, e.slug = document[k].slug, NEW lib
  PROVE  LET p == document[k]
             result == ApplyEntry(policy, document, e, lib)
         IN /\ NewEntry(e) => result = InsertRecoveryPrompt(lib, p, p.slug, p.meta)
            /\ Skips(policy, e) => result = [ok |-> TRUE, library |-> lib]
            /\ Copies(policy, e) =>
                 result = InsertRecoveryPrompt(lib, p, e.copySlug, Copied(p.meta))
            /\ Adds(policy, e) =>
                 result = IF MissingFrom(p, e) = <<>> THEN [ok |-> TRUE, library |-> lib]
                          ELSE IF p.slug \notin DOMAIN lib THEN Failure
                          ELSE [ok |-> TRUE,
                                library |-> Extended(lib, p.slug, MissingFrom(p, e))]
<1> DEFINE p == CHOOSE q \in ToSet(document) : q.slug = e.slug
<1>1. p = document[k]
  <2>1. document[k] \in ToSet(document)
    BY DEF ToSet
  <2>2. \A q \in ToSet(document) : q.slug = e.slug => q = document[k]
    BY DEF ToSet, SlugsOnce
  <2> QED
    BY <2>1, <2>2
<1> HIDE DEF p
<1>2. ApplyEntry(policy, document, e, lib) =
        CASE e.kind = "new-prompt" -> InsertRecoveryPrompt(lib, p, p.slug, p.meta)
          [] e.kind # "new-prompt" /\ policy = "skip-existing" -> [ok |-> TRUE, library |-> lib]
          [] e.kind # "new-prompt" /\ policy = "import-as-copy" ->
               InsertRecoveryPrompt(lib, p, e.copySlug, Copied(p.meta))
          [] e.kind # "new-prompt" /\ policy = "add-missing-versions" ->
               IF MissingFrom(p, e) = <<>> THEN [ok |-> TRUE, library |-> lib]
               ELSE IF p.slug \notin DOMAIN lib THEN Failure
               ELSE [ok |-> TRUE,
                     library |-> Extended(lib, p.slug, MissingFrom(p, e))]
  BY DEF ApplyEntry, MissingFrom, Extended, p
<1>3. ASSUME NewEntry(e)
      PROVE  ApplyEntry(policy, document, e, lib) = InsertRecoveryPrompt(lib, p, p.slug, p.meta)
  BY <1>2, <1>3 DEF NewEntry
<1>4. ASSUME Skips(policy, e)
      PROVE  ApplyEntry(policy, document, e, lib) = [ok |-> TRUE, library |-> lib]
  <2>1. e.kind # "new-prompt" /\ policy = "skip-existing"
    BY <1>4 DEF Skips, NewEntry
  <2> QED
    BY <1>2, <2>1
<1>5. ASSUME Copies(policy, e)
      PROVE  ApplyEntry(policy, document, e, lib) =
               InsertRecoveryPrompt(lib, p, e.copySlug, Copied(p.meta))
  <2>1. e.kind # "new-prompt" /\ policy = "import-as-copy"
    BY <1>5 DEF Copies, NewEntry
  <2> QED
    BY <1>2, <2>1
<1>6. ASSUME Adds(policy, e)
      PROVE  ApplyEntry(policy, document, e, lib) =
               IF MissingFrom(p, e) = <<>> THEN [ok |-> TRUE, library |-> lib]
               ELSE IF p.slug \notin DOMAIN lib THEN Failure
               ELSE [ok |-> TRUE,
                     library |-> Extended(lib, p.slug, MissingFrom(p, e))]
  <2>1. e.kind # "new-prompt" /\ policy = "add-missing-versions"
    BY <1>6 DEF Adds, NewEntry
  <2> QED
    BY <1>2, <2>1
<1> QED
  BY <1>1, <1>3, <1>4, <1>5, <1>6

(* What an entry has announced is there. *)
Fulfilled(policy, p, e, lib) ==
  /\ NewEntry(e) => p.slug \in DOMAIN lib /\ lib[p.slug].versions = p.versions
  /\ Copies(policy, e) => e.copySlug \in DOMAIN lib /\ lib[e.copySlug].versions = p.versions
  /\ Adds(policy, e) =>
       \/ e.missing = {}
       \/ p.slug \in DOMAIN lib /\ e.missing \subseteq Identities(lib[p.slug].versions)

Retains(lib, new) ==
  \A s \in DOMAIN lib :
    /\ s \in DOMAIN new /\ new[s].meta = lib[s].meta
    /\ Carries(lib[s].versions, new[s].versions)

RowsFull(lib, begun) == LibraryOK(lib) /\ HistoriesOK(lib, begun)

(* One entry changes no row but that of its own prompt. *)
OneEntry(policy, p, e, lib, new, begun) ==
  /\ RowsFull(new, begun) /\ Retains(lib, new)
  /\ \A s \in DOMAIN lib : s # p.slug \/ ~Adds(policy, e) => new[s] = lib[s]
  /\ Fulfilled(policy, p, e, new)

LEMMA SourceParts ==
  ASSUME NEW p \in Source
  PROVE  /\ p = [slug |-> p.slug, meta |-> p.meta, versions |-> p.versions]
         /\ p.slug \in Slugs /\ p.meta \in Meta /\ p.versions \in Seq(Version)
BY DEF Source, PromptWith

LEMMA InsertedIs ==
  ASSUME NEW lib, NEW begun, RowsFull(lib, begun), NEW p \in Source, p.versions # <<>>,
         NEW s, NEW meta \in Meta, InsertRecoveryPrompt(lib, p, s, meta).ok
  PROVE  LET new == InsertRecoveryPrompt(lib, p, s, meta).library
         IN /\ RowsFull(new, begun) /\ Retains(lib, new)
            /\ \A t \in DOMAIN lib : new[t] = lib[t]
            /\ s \in DOMAIN new /\ new[s].versions = p.versions
<1> DEFINE row == [meta |-> meta, trashed |-> FALSE, versions |-> p.versions]
           new == With(lib, s, row)
<1>1. s \notin DOMAIN lib
  BY DEF InsertRecoveryPrompt, Failure
<1>2. InsertRecoveryPrompt(lib, p, s, meta).library = new
  BY <1>1 DEF InsertRecoveryPrompt
<1>3. p.versions \in Seq(Version)
  BY SourceParts
<1>4. FALSE \in BOOLEAN
  OBVIOUS
<1>5. row \in Row
  BY <1>3, <1>4, RowOf
<1>6. row.versions = p.versions
  OBVIOUS
<1> HIDE DEF row
<1>7. LibraryOK(lib) /\ HistoriesOK(lib, begun) /\ row.versions # <<>>
  BY <1>6 DEF RowsFull
<1>8. /\ LibraryOK(new) /\ HistoriesOK(new, begun)
      /\ DOMAIN new = DOMAIN lib \cup {s}
      /\ \A t \in DOMAIN lib \cup {s} : new[t] = IF t = s THEN row ELSE lib[t]
  <2>1. /\ LibraryOK(With(lib, s, row)) /\ HistoriesOK(With(lib, s, row), begun)
        /\ DOMAIN With(lib, s, row) = DOMAIN lib \cup {s}
    BY ZenonT(60), <1>5, <1>7, RowAdded
  <2>2. \A t \in DOMAIN lib \cup {s} :
          With(lib, s, row)[t] = IF t = s THEN row ELSE lib[t]
    BY DEF With
  <2> QED
    BY <2>1, <2>2
<1> HIDE DEF new
<1>9. \A t \in DOMAIN lib : t \in DOMAIN new /\ new[t] = lib[t]
  BY <1>1, <1>8
<1>10. \A t \in DOMAIN lib : Carries(lib[t].versions, lib[t].versions)
  BY <1>7, RowIs, CarriesItself DEF LibraryOK
<1>11. Retains(lib, new)
  BY <1>9, <1>10 DEF Retains
<1>12. s \in DOMAIN new /\ new[s].versions = p.versions
  BY <1>6, <1>8
<1> QED
  BY <1>2, <1>8, <1>9, <1>11, <1>12 DEF RowsFull

LEMMA JoinedRow ==
  ASSUME NEW lib, NEW begun, RowsFull(lib, begun), NEW s \in DOMAIN lib,
         NEW added, added \in Seq(Version), added # <<>>
  PROVE  LET new == Extended(lib, s, added)
         IN /\ RowsFull(new, begun) /\ Retains(lib, new)
            /\ \A t \in DOMAIN lib : t # s => new[t] = lib[t]
            /\ s \in DOMAIN new /\ Identities(added) \subseteq Identities(new[s].versions)
<1> DEFINE vs == lib[s].versions \o added
           row == [lib[s] EXCEPT !.versions = vs]
           new == [lib EXCEPT ![s] = row]
<1>1. LibraryOK(lib) /\ HistoriesOK(lib, begun) /\ lib[s] \in Row
  BY DEF RowsFull, LibraryOK
<1>2. lib[s].versions \in Seq(Version)
  BY <1>1, RowIs
<1>3. /\ vs \in Seq(Version) /\ Carries(lib[s].versions, vs)
      /\ Identities(added) \subseteq Identities(vs)
  BY <1>2, JoinedIs, CarriesJoined
<1>4. vs # <<>>
  <2>1. Len(vs) = Len(lib[s].versions) + Len(added)
        /\ Len(lib[s].versions) \in Nat /\ Len(added) \in Nat /\ Len(added) # 0
    BY <1>2, EmptySeq, LenProperties, ConcatProperties
  <2>2. ASSUME vs = <<>>
        PROVE  Len(vs) = 0
    BY <2>2
  <2> HIDE DEF vs
  <2> QED
    BY <2>1, <2>2
<1>5. Extended(lib, s, added) = new
  BY DEF Extended
<1> HIDE DEF vs
<1>6. row \in Row /\ row.versions = vs /\ row.meta = lib[s].meta
  BY <1>1, <1>3, RowIs DEF Row
<1> HIDE DEF row
<1>7. RowsFull(new, begun)
  BY <1>1, <1>4, <1>6, RowChanged DEF RowsFull
<1>8. /\ DOMAIN new = DOMAIN lib /\ new[s] = row
      /\ \A t \in DOMAIN lib : t # s => new[t] = lib[t]
  OBVIOUS
<1> HIDE DEF new
<1>9. \A t \in DOMAIN lib : Carries(lib[t].versions, lib[t].versions)
  BY <1>1, RowIs, CarriesItself DEF LibraryOK
<1>10. Retains(lib, new)
  BY <1>3, <1>6, <1>8, <1>9 DEF Retains
<1> QED
  BY <1>3, <1>5, <1>6, <1>7, <1>8, <1>10

LEMMA EntryRuns ==
  ASSUME NEW policy \in Policies, NEW document, document \in Seq(Source), Valid(document),
         NEW k \in DOMAIN document, NEW e, EntryFits(e, document[k]),
         NEW lib, NEW begun, RowsFull(lib, begun),
         ApplyEntry(policy, document, e, lib).ok
  PROVE  OneEntry(policy, document[k], e, lib, ApplyEntry(policy, document, e, lib).library, begun)
<1> DEFINE p == document[k]
           result == ApplyEntry(policy, document, e, lib)
<1>1. p \in Source
  OBVIOUS
<1>2. SlugsOnce(document) /\ p.versions # <<>>
  BY ValidIs DEF EachOnce
<1>3. e.slug = p.slug
  BY DEF EntryFits
<1> HIDE DEF p, result
<1>4. /\ NewEntry(e) => result = InsertRecoveryPrompt(lib, p, p.slug, p.meta)
      /\ Skips(policy, e) => result = [ok |-> TRUE, library |-> lib]
      /\ Copies(policy, e) =>
           result = InsertRecoveryPrompt(lib, p, e.copySlug, Copied(p.meta))
      /\ Adds(policy, e) =>
           result = IF MissingFrom(p, e) = <<>> THEN [ok |-> TRUE, library |-> lib]
                    ELSE IF p.slug \notin DOMAIN lib THEN Failure
                    ELSE [ok |-> TRUE,
                          library |-> Extended(lib, p.slug, MissingFrom(p, e))]
  BY <1>2, <1>3, ApplyEntryGives DEF p, result
<1>5. result.ok /\ EntryFits(e, p)
  BY DEF p, result
<1>6. p.meta \in Meta /\ Copied(p.meta) \in Meta
  BY <1>1, SourceParts DEF Meta, Copied
<1>7. Retains(lib, lib)
  BY RowIs, CarriesItself DEF Retains, RowsFull, LibraryOK
<1>8. CASE NewEntry(e)
  <2>1. /\ RowsFull(result.library, begun) /\ Retains(lib, result.library)
        /\ \A t \in DOMAIN lib : result.library[t] = lib[t]
        /\ p.slug \in DOMAIN result.library /\ result.library[p.slug].versions = p.versions
    BY <1>1, <1>2, <1>4, <1>5, <1>6, <1>8, InsertedIs
  <2>2. ~Copies(policy, e) /\ ~Adds(policy, e)
    BY <1>8 DEF Copies, Adds
  <2>3. Fulfilled(policy, p, e, result.library)
    BY <2>1, <2>2 DEF Fulfilled
  <2> QED
    BY <2>1, <2>3 DEF OneEntry, p, result
<1>9. CASE Copies(policy, e)
  <2> DEFINE meta == Copied(p.meta)
  <2>4. meta \in Meta
    BY <1>6
  <2>5. result = InsertRecoveryPrompt(lib, p, e.copySlug, meta)
    BY <1>4, <1>9
  <2> HIDE DEF meta
  <2>1. /\ RowsFull(result.library, begun) /\ Retains(lib, result.library)
        /\ \A t \in DOMAIN lib : result.library[t] = lib[t]
        /\ e.copySlug \in DOMAIN result.library
        /\ result.library[e.copySlug].versions = p.versions
    BY <1>1, <1>2, <1>5, <2>4, <2>5, InsertedIs
  <2>2. ~NewEntry(e) /\ ~Adds(policy, e)
    BY <1>9, OnePolicy DEF Copies
  <2>3. Fulfilled(policy, p, e, result.library)
    BY <2>1, <2>2 DEF Fulfilled
  <2> QED
    BY <2>1, <2>3 DEF OneEntry, p, result
<1>10. CASE Skips(policy, e)
  <2>1. result.library = lib
    BY <1>4, <1>10
  <2>2. ~NewEntry(e) /\ ~Adds(policy, e) /\ ~Copies(policy, e)
    BY <1>10 DEF Copies, Adds, Skips
  <2>3. Fulfilled(policy, p, e, result.library)
    BY <2>2 DEF Fulfilled
  <2> QED
    BY <1>7, <2>1, <2>3 DEF OneEntry, p, result
<1>11. CASE Adds(policy, e) /\ MissingFrom(p, e) = <<>>
  <2>1. result.library = lib
    BY <1>4, <1>11
  <2>2. e.missing = {}
    BY <1>1, <1>5, <1>11, MissingFromIs
  <2>3. ~NewEntry(e) /\ ~Copies(policy, e)
    BY <1>11, OnePolicy DEF Adds
  <2>4. Fulfilled(policy, p, e, result.library)
    BY <2>2, <2>3 DEF Fulfilled
  <2> QED
    BY <1>7, <2>1, <2>4 DEF OneEntry, p, result
<1>12. CASE Adds(policy, e) /\ MissingFrom(p, e) # <<>>
  <2> DEFINE added == MissingFrom(p, e)
  <2>1. added \in Seq(Version) /\ Identities(added) = e.missing /\ added # <<>>
    BY <1>1, <1>5, <1>12, MissingFromIs
  <2>2. p.slug \in DOMAIN lib
    BY <1>4, <1>5, <1>12 DEF Failure
  <2>3. result.library = Extended(lib, p.slug, added)
    BY <1>4, <1>12, <2>2
  <2> HIDE DEF added
  <2>4. /\ RowsFull(result.library, begun) /\ Retains(lib, result.library)
        /\ \A t \in DOMAIN lib : t # p.slug => result.library[t] = lib[t]
        /\ p.slug \in DOMAIN result.library
        /\ e.missing \subseteq Identities(result.library[p.slug].versions)
    BY <2>1, <2>2, <2>3, JoinedRow
  <2>5. ~NewEntry(e) /\ ~Copies(policy, e)
    BY <1>12, OnePolicy DEF Adds
  <2>6. Fulfilled(policy, p, e, result.library)
    BY <2>4, <2>5 DEF Fulfilled
  <2> QED
    BY <1>12, <2>4, <2>6 DEF OneEntry, p, result
<1> QED
  BY <1>8, <1>9, <1>10, <1>11, <1>12, OnePolicy

(* The first m entries. *)
Executed(policy, document, es, m, lib, new, begun) ==
  /\ RowsFull(new, begun) /\ Retains(lib, new)
  /\ \A k \in 1..m : Fulfilled(policy, document[k], es[k], new)

LEMMA RetainsOn ==
  ASSUME NEW begun, NEW a, RowsFull(a, begun), NEW b, RowsFull(b, begun), NEW c,
         RowsFull(c, begun), Retains(a, b), Retains(b, c)
  PROVE  Retains(a, c)
<1> SUFFICES ASSUME NEW s \in DOMAIN a
             PROVE  /\ s \in DOMAIN c /\ c[s].meta = a[s].meta
                    /\ Carries(a[s].versions, c[s].versions)
  BY DEF Retains
<1>1. /\ s \in DOMAIN b /\ b[s].meta = a[s].meta /\ Carries(a[s].versions, b[s].versions)
  BY DEF Retains
<1>2. /\ s \in DOMAIN c /\ c[s].meta = b[s].meta /\ Carries(b[s].versions, c[s].versions)
  BY <1>1 DEF Retains
<1>3. /\ a[s].versions \in Seq(Version) /\ b[s].versions \in Seq(Version)
      /\ c[s].versions \in Seq(Version)
  BY <1>1, <1>2, RowIs DEF RowsFull, LibraryOK
<1> QED
  BY <1>1, <1>2, <1>3, CarriesOn

LEMMA FulfilledStays ==
  ASSUME NEW policy \in Policies, NEW begun,
         NEW p, NEW e, NEW q, NEW d, p.slug # q.slug,
         NEW lib, RowsFull(lib, begun), Fulfilled(policy, p, e, lib),
         NEW new, OneEntry(policy, q, d, lib, new, begun)
  PROVE  Fulfilled(policy, p, e, new)
<1>1. /\ RowsFull(new, begun) /\ Retains(lib, new)
      /\ \A s \in DOMAIN lib : s # q.slug \/ ~Adds(policy, d) => new[s] = lib[s]
  BY DEF OneEntry
<1>2. \A s \in DOMAIN lib : s \in DOMAIN new
  BY <1>1 DEF Retains
<1>3. ASSUME NewEntry(e)
      PROVE  p.slug \in DOMAIN new /\ new[p.slug].versions = p.versions
  BY <1>1, <1>2, <1>3 DEF Fulfilled
<1>4. ASSUME Copies(policy, e)
      PROVE  e.copySlug \in DOMAIN new /\ new[e.copySlug].versions = p.versions
  <2>1. ~Adds(policy, d)
    BY <1>4, OnePolicy
  <2> QED
    BY <1>1, <1>2, <1>4, <2>1 DEF Fulfilled
<1>5. ASSUME Adds(policy, e), e.missing # {}
      PROVE  p.slug \in DOMAIN new /\ e.missing \subseteq Identities(new[p.slug].versions)
  BY <1>1, <1>2, <1>5 DEF Fulfilled
<1> QED
  BY <1>3, <1>4, <1>5 DEF Fulfilled

LEMMA NativePlanRuns ==
  ASSUME NEW policy, NEW document, NEW entries, NEW lib, Len(entries) \in Nat
  PROVE  \E after :
           /\ after[0] = [ok |-> TRUE, library |-> lib]
           /\ \A i \in 1..Len(entries) :
                after[i] = IF after[i - 1].ok
                           THEN ApplyEntry(policy, document, entries[i], after[i - 1].library)
                           ELSE after[i - 1]
           /\ ApplyPlan(policy, document, entries, lib) = after[Len(entries)]
<1> DEFINE n == Len(entries)
           first == [ok |-> TRUE, library |-> lib]
           step(before, i) == IF before.ok
                              THEN ApplyEntry(policy, document, entries[i], before.library)
                              ELSE before
           Are(f, m) == f = [i \in 0..m |-> IF i = 0 THEN first ELSE step(f[i - 1], i)]
           S == {m \in 0..n : \E f : Are(f, m)}
<1>1. 0 \in S
  <2>1. Are([i \in 0..0 |-> first], 0)
    <3> HIDE DEF first
    <3> QED
      OBVIOUS
  <2> HIDE DEF Are
  <2> QED
    BY <2>1
<1> HIDE DEF first
<1>2. ASSUME NEW m \in 1..n, m - 1 \in S
      PROVE  m \in S
  <2>1. PICK f : Are(f, m - 1)
    BY <1>2
  <2> DEFINE g == [i \in 0..m |-> IF i = m THEN step(f[m - 1], m) ELSE f[i]]
  <2>2. \A i \in 0..(m - 1) : f[i] = IF i = 0 THEN first ELSE step(f[i - 1], i)
    BY <2>1
  <2>3. ASSUME NEW i \in 0..m
        PROVE  g[i] = IF i = 0 THEN first ELSE step(g[i - 1], i)
    <3> HIDE DEF step
    <3>1. CASE i = m
      <4>1. i # 0 /\ i - 1 \in 0..m /\ i - 1 # m
        BY <3>1
      <4> QED
        BY <3>1, <4>1
    <3>2. CASE i # m /\ i # 0
      <4>1. i \in 0..(m - 1) /\ i - 1 \in 0..m /\ i - 1 # m
        BY <3>2
      <4> QED
        BY <2>2, <3>2, <4>1
    <3>3. CASE i # m /\ i = 0
      <4>1. i \in 0..(m - 1)
        BY <3>3
      <4> QED
        BY <2>2, <3>3, <4>1
    <3> QED
      BY <3>1, <3>2, <3>3
  <2>4. DOMAIN g = 0..m /\ g = [i \in 0..m |-> g[i]]
    OBVIOUS
  <2> HIDE DEF g, step
  <2>5. Are(g, m)
    BY <2>3, <2>4
  <2>6. m \in 0..n
    OBVIOUS
  <2> HIDE DEF Are
  <2> QED
    BY <2>5, <2>6
<1>3. n \in S
  <2> HIDE DEF S
  <2>1. \A i \in 1..n : i - 1 \in S => i \in S
    BY <1>2
  <2>2. \A i \in 0..n : i \in S
    BY <1>1, <2>1, UpTo
  <2> QED
    BY <2>2
<1> DEFINE after == CHOOSE f : Are(f, n)
<1>4. ApplyPlan(policy, document, entries, lib) = after[n]
  BY DEF ApplyPlan, first
<1>5. Are(after, n)
  <2>1. \E f : Are(f, n)
    BY <1>3
  <2> HIDE DEF Are
  <2> QED
    BY <2>1
<1> HIDE DEF after
<1>6. after[0] = first
  BY <1>5
<1>7. \A i \in 1..n : after[i] = step(after[i - 1], i)
  <2> HIDE DEF step
  <2>1. \A i \in 0..n : after[i] = IF i = 0 THEN first ELSE step(after[i - 1], i)
    BY <1>5
  <2>2. \A i \in 1..n : i \in 0..n /\ i # 0
    OBVIOUS
  <2> QED
    BY <2>1, <2>2
<1> QED
  BY <1>4, <1>6, <1>7 DEF first

LEMMA PlanExecuted ==
  ASSUME NEW policy \in Policies, NEW document, document \in Seq(Source), Valid(document),
         NEW visible, NEW lib, NEW begun, RowsFull(lib, begun),
         ApplyPlan(policy, document, Entries(document, visible), lib).ok
  PROVE  Executed(policy, document, Entries(document, visible), Len(document), lib,
                  ApplyPlan(policy, document, Entries(document, visible), lib).library, begun)
<1> DEFINE es == Entries(document, visible)
           n == Len(document)
           reserved(i) == DOMAIN visible \cup {Reserved(es[k]) : k \in 1..(i - 1)}
<1>1. n \in Nat /\ DOMAIN document = 1..n
  BY LenProperties
<1>2. Len(es) = n /\ \A i \in 1..n : es[i] = PlanEntry(document[i], visible, reserved(i))
  <2>1. document \in Seq(PromptWith(Meta))
    BY DEF Source
  <2> QED
    BY <2>1, EntriesOf
<1> HIDE DEF es
<1>3. \A i \in 1..n : EntryFits(es[i], document[i])
  BY <1>2, EntryFitsPlan
<1> HIDE DEF reserved
<1>4. PICK after :
        /\ after[0] = [ok |-> TRUE, library |-> lib]
        /\ \A i \in 1..n :
             after[i] = IF after[i - 1].ok
                        THEN ApplyEntry(policy, document, es[i], after[i - 1].library)
                        ELSE after[i - 1]
        /\ ApplyPlan(policy, document, es, lib) = after[n]
  <2>1. Len(es) = n /\ Len(es) \in Nat
    BY <1>1, <1>2
  <2>2. PICK after :
          /\ after[0] = [ok |-> TRUE, library |-> lib]
          /\ \A i \in 1..Len(es) :
               after[i] = IF after[i - 1].ok
                          THEN ApplyEntry(policy, document, es[i], after[i - 1].library)
                          ELSE after[i - 1]
          /\ ApplyPlan(policy, document, es, lib) = after[Len(es)]
    BY <2>1, NativePlanRuns
  <2> QED
    BY <2>1, <2>2
<1> DEFINE right(i) == after[i].ok => Executed(policy, document, es, i, lib, after[i].library, begun)
           S == {i \in 0..n : right(i)}
<1>5. 0 \in S
  <2>1. after[0].library = lib
    BY <1>4
  <2>2. Retains(lib, lib)
    BY RowIs, CarriesItself DEF Retains, RowsFull, LibraryOK
  <2>3. \A k \in 1..0 : FALSE
    OBVIOUS
  <2>4. right(0)
    BY <2>1, <2>2, <2>3 DEF Executed
  <2> HIDE DEF right
  <2> QED
    BY <1>1, <2>4
<1>6. ASSUME NEW i \in 1..n, i - 1 \in S
      PROVE  i \in S
  <2>1. SUFFICES ASSUME after[i].ok
                 PROVE  Executed(policy, document, es, i, lib, after[i].library, begun)
    BY <1>1
  <2>2. after[i] = IF after[i - 1].ok
                   THEN ApplyEntry(policy, document, es[i], after[i - 1].library)
                   ELSE after[i - 1]
    BY <1>4
  <2>3. after[i - 1].ok
    BY <2>1, <2>2
  <2> DEFINE before == after[i - 1].library
             new == after[i].library
  <2>4. Executed(policy, document, es, i - 1, lib, before, begun)
    BY <1>6, <2>3
  <2>5. RowsFull(before, begun) /\ Retains(lib, before)
        /\ \A k \in 1..(i - 1) : Fulfilled(policy, document[k], es[k], before)
    BY <2>4 DEF Executed
  <2>6. after[i] = ApplyEntry(policy, document, es[i], before)
    BY <2>2, <2>3
  <2>7. OneEntry(policy, document[i], es[i], before, new, begun)
    BY <1>1, <1>3, <2>1, <2>5, <2>6, EntryRuns
  <2> HIDE DEF before, new
  <2>8. RowsFull(new, begun) /\ Retains(before, new)
        /\ Fulfilled(policy, document[i], es[i], new)
    BY <2>7 DEF OneEntry
  <2>9. Retains(lib, new)
    BY <2>5, <2>8, RetainsOn
  <2>10. \A k \in 1..(i - 1) : document[k].slug # document[i].slug
    <3>1. \A k \in 1..(i - 1) : k \in 1..n /\ k # i
      BY <1>1
    <3>2. SlugsOnce(document)
      BY ValidIs
    <3> QED
      BY <1>1, <3>1, <3>2 DEF SlugsOnce
  <2>11. \A k \in 1..(i - 1) : Fulfilled(policy, document[k], es[k], new)
    BY <2>5, <2>7, <2>10, FulfilledStays
  <2>12. \A k \in 1..i : k = i \/ k \in 1..(i - 1)
    BY <1>1
  <2>13. \A k \in 1..i : Fulfilled(policy, document[k], es[k], new)
    BY <2>8, <2>11, <2>12
  <2> QED
    BY <2>8, <2>9, <2>13 DEF Executed, new
<1>7. n \in S
  <2> HIDE DEF S
  <2>1. \A i \in 1..n : i - 1 \in S => i \in S
    BY <1>6
  <2>2. \A i \in 0..n : i \in S
    BY <1>1, <1>5, <2>1, UpTo
  <2> QED
    BY <1>1, <2>2
<1>8. after[n].ok /\ after[n] = ApplyPlan(policy, document, es, lib)
  BY <1>4 DEF es
<1>9. right(n)
  BY <1>7
<1> QED
  BY <1>8, <1>9 DEF es

-----------------------------------------------------------------------------
(* The commit *)

LEMMA RestoredIs ==
  ASSUME SourcesKnown, PageKnown, page.kind # "none"
  PROVE  Restored \in Seq(Source)
<1>1. Legacy \in Seq(Seq(Source)) /\ Len(Legacy) \in Nat
  BY LegacyHoldsPrompts, LenProperties
<1>2. \A prompts \in Seq(Source) : Normalized(prompts) \in Seq(Source)
  BY NormalizedOf DEF Source
<1>3. CASE page.kind = "legacy"
  <2>1. job.read \in 0..Len(Legacy)
    BY DEF SourcesKnown
  <2>2. job.read # 0 => Legacy[job.read] \in Seq(Source)
    BY <1>1, <2>1
  <2>3. DocumentAt(job.read) \in Seq(Source)
    BY <1>2, <2>2 DEF DocumentAt
  <2> QED
    BY <1>3, <2>3 DEF Restored
<1>4. CASE page.kind # "legacy"
  <2>1. page.document \in Seq(Source)
    BY <1>4, BackupsHoldPrompts DEF PageKnown
  <2> QED
    BY <1>2, <1>4, <2>1 DEF Restored
<1> QED
  BY <1>3, <1>4

LEMMA Committing ==
  ASSUME RInv, Doing("commit")
  PROVE  /\ command = Restoring /\ job.begun /\ Compared
         /\ job.policy \in Policies /\ page.kind # "none"
<1>1. job.steps # <<>> /\ Head(job.steps) = "commit" /\ OperationOK
  BY DEF Doing, RInv
<1>2. job.op = "restore" /\ RestoreOK
  BY <1>1, OperationIs DEF Exporting, Previewing, Reading
<1>3. ~Remains(job.steps, "same plan") /\ ~Remains(job.steps, "begin")
  BY <1>1, <1>2, OrderOf DEF RestoreOK
<1> QED
  BY <1>1, <1>2, <1>3 DEF RestoreOK

Result == ApplyPlan(job.policy, Restored, page.plan.entries, library)

LEMMA ResultIs ==
  ASSUME RInv, Doing("commit"), Result.ok
  PROVE  /\ Valid(Restored) /\ page.plan.document = Restored
         /\ DOMAIN page.plan.entries = DOMAIN Restored
         /\ \A k \in DOMAIN Restored : page.plan.entries[k].slug = Restored[k].slug
         /\ RowsFull(Result.library, broken) /\ Retains(library, Result.library)
         /\ \A k \in DOMAIN Restored :
              Fulfilled(job.policy, Restored[k], page.plan.entries[k], Result.library)
<1> DEFINE document == Restored
           visible == page.plan.library
           es == Entries(document, visible)
           n == Len(document)
<1>1. /\ Valid(document) /\ job.policy \in Policies
      /\ page.plan = BuildRestorePlan(document, visible)
  BY Committing DEF Compared
<1>2. document \in Seq(Source)
  BY Committing, RestoredIs DEF RInv
<1>3. page.plan.entries = es /\ page.plan.document = document
  BY <1>1 DEF BuildRestorePlan
<1>4. n \in Nat /\ DOMAIN document = 1..n
  BY <1>2, LenProperties
<1>5. RowsFull(library, broken)
  BY DEF RInv, RowsOK, RowsFull
<1>6. /\ DOMAIN es = 1..n
      /\ \A i \in 1..n : EntryFits(es[i], document[i])
  <2> DEFINE reserved(i) == DOMAIN visible \cup {Reserved(es[k]) : k \in 1..(i - 1)}
  <2>1. document \in Seq(PromptWith(Meta))
    BY <1>2 DEF Source
  <2> HIDE DEF document, visible
  <2>2. DOMAIN es = 1..n /\ \A i \in 1..n : es[i] = PlanEntry(document[i], visible, reserved(i))
    BY <2>1, EntriesOf
  <2> HIDE DEF es, reserved
  <2> QED
    BY <2>2, EntryFitsPlan
<1> DEFINE result == ApplyPlan(job.policy, document, es, library)
<1>7. Result = result
  BY <1>3 DEF Result
<1>8. result.ok
  BY <1>7
<1>9. Executed(job.policy, document, es, n, library, result.library, broken)
  <2> HIDE DEF document, visible
  <2> QED
    BY <1>1, <1>2, <1>5, <1>8, PlanExecuted
<1> HIDE DEF document, visible, es, result
<1>10. \A i \in 1..n : es[i].slug = document[i].slug
  BY <1>6 DEF EntryFits
<1> QED
  BY <1>1, <1>3, <1>4, <1>6, <1>7, <1>9, <1>10 DEF Executed, document

LEMMA CommitKeeps == RInv /\ IInv /\ Commit => RInv'
<1> SUFFICES ASSUME RInv, IInv, Commit
             PROVE  RInv'
  OBVIOUS
<1>1. /\ Doing("commit") /\ job' = NoJob /\ command' = Free
      /\ UNCHANGED <<rebuilt, source, page, exported, broken, clock>>
  BY DEF Commit
<1>2. LibraryOK(library') /\ HistoriesOK(library', broken)
  <2>1. CASE Result.ok /\ library' = Result.library
    BY <1>1, <2>1, ResultIs DEF RowsFull
  <2>2. CASE library' = library
    BY <2>2 DEF RInv, RowsOK
  <2> QED
    BY <2>1, <2>2 DEF Commit, Result
<1>3. RowsOK'
  BY <1>1, <1>2, Commands DEF RInv, RowsOK
<1>4. PageKnown' /\ Valid(exported)'
  BY <1>1 DEF RInv, PageKnown
<1> QED
  BY <1>1, <1>3, <1>4, Commands, IsOver

LEMMA OthersKeep ==
  ASSUME RInv, IInv, PromptCommand \/ NodeProcess \/ UNCHANGED vars
  PROVE  RInv'
<1>1. job' = job /\ page' = page /\ source' = source /\ exported' = exported
  BY DEF PromptCommand, NodeProcess, CreatePrompt, AddPromptVersion, UpdateRow, UnlinkTags,
         StoreTag, DeleteTags, DeleteVersions, DeleteRow, recovering, vars
<1>2. RowsOK
  BY DEF RInv
<1>3. CASE PromptCommand
  <2>1. CommandKeeps
    BY <1>2, <1>3, PromptCommandKeeps
  <2> QED
    BY <1>1, <2>1, Untouched DEF CommandKeeps
<1>4. CASE NodeProcess
  <2>1. RowsOK' /\ command' = command
    BY <1>2, <1>4, NodeKeeps DEF NodeProcess
  <2> QED
    BY <1>1, <2>1, Untouched
<1>5. CASE UNCHANGED vars
  <2>1. RowsOK' /\ command' = command
    BY <1>2, <1>5 DEF vars, RowsOK
  <2> QED
    BY <1>1, <2>1, Untouched
<1> QED
  BY <1>3, <1>4, <1>5

LEMMA RInitially == Init => RInv
<1> SUFFICES ASSUME Init
             PROVE  RInv
  OBVIOUS
<1>1. /\ library = <<>> /\ rebuilt \in BOOLEAN /\ command = Free
      /\ source = [db |-> 1, wal |-> NoWal] /\ page = NoPage /\ job = NoJob
      /\ exported = <<>> /\ broken = {} /\ clock = 0
  BY DEF Init, NoFile
<1>2. LibraryOK(<<>>) /\ HistoriesOK(<<>>, {}) /\ Valid(<<>>)
  <2>1. DOMAIN <<>> = {} /\ <<>> = [s \in DOMAIN <<>> |-> <<>>[s]]
    OBVIOUS
  <2>2. LibraryOK(<<>>)
    BY <2>1 DEF LibraryOK
  <2>3. HistoriesOK(<<>>, {})
    BY <2>1 DEF HistoriesOK
  <2>4. WellFormed(<<>>) /\ TitlesFit(<<>>)
    BY <2>1 DEF WellFormed, TitlesFit
  <2>5. SizeFits(<<>>)
    <3> DEFINE counted == UNION {{i} \X DOMAIN <<>>[i].versions : i \in DOMAIN <<>>}
    <3>1. counted = {}
      BY <2>1
    <3>2. Cardinality(counted) = 0
      BY <3>1, FS_EmptySet
    <3>3. Len(<<>>) = 0
      OBVIOUS
    <3> HIDE DEF counted
    <3> QED
      BY <3>2, <3>3, LimitsCount DEF SizeFits, counted
  <2> QED
    BY <2>2, <2>3, <2>4, <2>5 DEF Valid
<1>3. RowsOK
  BY <1>1, <1>2, Commands DEF RowsOK
<1>4. Len(Legacy) \in Nat /\ Len(Legacy) >= 1
  <2>1. Len(Legacy) \in Nat /\ Len(Legacy) > 0
    BY LegacyHoldsPrompts, LenProperties
  <2> QED
    BY <2>1
<1>5. SourcesKnown
  <2>1. source.db = 1 /\ source.wal.upto = 0
    BY <1>1 DEF NoWal
  <2>2. Known(source)
    BY <1>4, <2>1 DEF Known
  <2>3. NoFiles.db = 0 /\ NoFiles.wal.upto = 0
    BY DEF NoFiles
  <2>4. Known(job.copy) /\ job.read = 0
    BY <1>1, <1>4, <2>3, NoJobIs DEF Known
  <2> QED
    BY <1>4, <2>2, <2>4 DEF SourcesKnown
<1>6. PageKnown
  BY <1>1 DEF PageKnown, NoPage
<1>7. OperationOK
  <2>1. 1..Len(<<>>) = {}
    BY EmptySeq
  <2>2. ~Remains(<<>>, "answer")
    BY <2>1 DEF Remains
  <2>3. OtherOK
    BY <1>1, <2>2, NoJobIs, Commands DEF OtherOK
  <2> QED
    BY <1>1, <2>3, NoJobIs DEF OperationOK
<1> QED
  BY <1>1, <1>2, <1>3, <1>5, <1>6, <1>7 DEF RInv

LEMMA RPreserved == RInv /\ IInv /\ [Next]_vars => RInv'
<1> SUFFICES ASSUME RInv, IInv, [Next]_vars
             PROVE  RInv'
  OBVIOUS
<1>1. CASE Recovery
  <2>1. CASE Export \/ PreviewFile \/ PreviewLegacy \/ \E policy \in Policies : Execute(policy)
    BY <2>1, StartKeeps
  <2>2. CASE Lock \/ Inspect \/ InventoryFile \/ CopyFile \/ CheckFile \/ ReadDocument
    BY <2>2, LockKeeps, InspectKeeps, InventoryKeeps, CopyKeeps, CheckKeeps, ReadKeeps
  <2>3. CASE AnswerPreview \/ ListPrompts \/ ListPromptVersions
    BY <2>3, AnswerKeeps, ListKeeps, VersionsKeep
  <2>4. CASE HandOut \/ ShowPlan \/ Commit
    BY <2>4, HandOutKeeps, ShowPlanKeeps, CommitKeeps
  <2>5. CASE SameHash \/ SamePlan \/ BeginTransaction
    BY <2>5, HashKeeps, PlanKeeps, BeginKeeps
  <2> QED
    BY <1>1, <2>1, <2>2, <2>3, <2>4, <2>5 DEF Recovery
<1>2. CASE LegacyApplication
  BY <1>2, LegacyKeeps
<1>3. CASE PromptCommand \/ NodeProcess \/ UNCHANGED vars
  BY <1>3, OthersKeep
<1>4. CASE Crash
  BY <1>4, CrashKeeps
<1> QED
  BY <1>1, <1>2, <1>3, <1>4 DEF Next

LEMMA RecoveryInvariant == Spec => [](IInv /\ RInv)
<1>1. Init => IInv /\ RInv
  BY Initially, RInitially
<1>2. (IInv /\ RInv) /\ [Next]_vars => (IInv /\ RInv)'
  BY Preserved, RPreserved
<1> QED
  BY <1>1, <1>2, PTL DEF Spec

LEMMA WholeFollows == IInv /\ RInv => ExportsAreWhole
<1> SUFFICES ASSUME IInv, RInv
             PROVE  ExportsAreWhole
  OBVIOUS
<1>1. RowsOK /\ OperationOK /\ Valid(exported)
  BY DEF RInv
<1>2. \A s \in DOMAIN library :
        /\ library[s].meta \in Meta
        /\ library[s].trashed \in BOOLEAN
        /\ library[s].versions \in Seq(Version)
        /\ library[s].versions = <<>> => s \in broken
  BY <1>1, RowIs DEF RowsOK, LibraryOK, HistoriesOK
<1>3. command = Restoring => job.op = "restore" /\ ~Doing("lock")
  BY <1>1 DEF OperationOK, RestoreOK, OtherOK, Doing
<1>4. job.begun => command = Restoring
  BY <1>1 DEF OperationOK, RestoreOK, OtherOK
<1>5. source.wal.base <= source.db
  BY DEF IInv, SourceOK
<1>6. rebuilt \in BOOLEAN
  BY <1>1 DEF RowsOK
<1> QED
  BY <1>1, <1>2, <1>3, <1>4, <1>5, <1>6 DEF ExportsAreWhole, TypeOK

(* Nobody else writes between the begin and the commit. *)
LEMMA OnlyCommitWrites ==
  ASSUME RInv, IInv, [Next]_vars, Doing("commit"), library' # library
  PROVE  Commit
<1>1. command = Restoring /\ job.begun /\ RowsOK
  BY Committing DEF RInv
<1>2. ASSUME PromptCommand
      PROVE  FALSE
  <2>1. CommandKeeps
    BY <1>1, <1>2, PromptCommandKeeps
  <2> QED
    BY <1>1, <2>1 DEF CommandKeeps
<1>3. ASSUME NodeProcess
      PROVE  FALSE
  BY <1>1, <1>3 DEF NodeProcess, Locked
<1>4. ~LegacyApplication /\ ~Crash /\ ~UNCHANGED vars
  BY DEF LegacyApplication, Crash, vars
<1>5. ~(Export \/ PreviewFile \/ PreviewLegacy \/ \E policy \in Policies : Execute(policy))
  BY DEF Export, PreviewFile, PreviewLegacy, Execute, Start
<1>6. ~(Lock \/ Inspect \/ InventoryFile \/ CopyFile \/ CheckFile \/ ReadDocument)
  BY DEF Lock, Inspect, InventoryFile, CopyFile, CheckFile, ReadDocument, Stays
<1>7. ~(AnswerPreview \/ ListPrompts \/ ListPromptVersions \/ HandOut \/ ShowPlan)
  BY DEF AnswerPreview, ListPrompts, ListPromptVersions, HandOut, ShowPlan, Stays
<1>8. ~(SameHash \/ SamePlan \/ BeginTransaction)
  BY DEF SameHash, SamePlan, BeginTransaction, Stays
<1> QED
  BY <1>2, <1>3, <1>4, <1>5, <1>6, <1>7, <1>8 DEF Next, Recovery

LEMMA CommitAnnounced ==
  ASSUME RInv, IInv, [Next]_vars
  PROVE  CommitStep
<1> SUFFICES ASSUME Doing("commit"), library' # library
             PROVE  /\ \A s \in DOMAIN library :
                         /\ s \in DOMAIN library' /\ library'[s].meta = library[s].meta
                         /\ IsPrefix(library[s].versions, library'[s].versions)
                    /\ \A e \in ToSet(page.plan.entries) : Announced(e, library')
  BY DEF CommitStep
<1>1. Result.ok /\ library' = Result.library
  BY OnlyCommitWrites DEF Commit, Result
<1>2. /\ Valid(Restored) /\ page.plan.document = Restored
      /\ DOMAIN page.plan.entries = DOMAIN Restored
      /\ \A k \in DOMAIN Restored : page.plan.entries[k].slug = Restored[k].slug
      /\ RowsFull(library', broken) /\ Retains(library, library')
      /\ \A k \in DOMAIN Restored :
           Fulfilled(job.policy, Restored[k], page.plan.entries[k], library')
  BY <1>1, ResultIs
<1>3. ASSUME NEW s \in DOMAIN library
      PROVE  /\ s \in DOMAIN library' /\ library'[s].meta = library[s].meta
             /\ IsPrefix(library[s].versions, library'[s].versions)
  <2>1. /\ s \in DOMAIN library' /\ library'[s].meta = library[s].meta
        /\ Carries(library[s].versions, library'[s].versions)
    BY <1>2 DEF Retains
  <2>2. library[s].versions \in Seq(Version)
    BY RowIs DEF RInv, RowsOK, LibraryOK
  <2>3. library'[s].versions \in Seq(Version)
    BY <1>2, <2>1, RowIs DEF RowsFull, LibraryOK
  <2> QED
    BY <2>1, <2>2, <2>3, CarriesIs
<1>4. ASSUME NEW e \in ToSet(page.plan.entries)
      PROVE  Announced(e, library')
  <2>1. PICK k \in DOMAIN Restored : e = page.plan.entries[k]
    BY <1>2 DEF ToSet
  <2> DEFINE p == CHOOSE q \in ToSet(page.plan.document) : q.slug = e.slug
             lib == library'
  <2>2. p = Restored[k]
    <3>1. Restored[k] \in ToSet(Restored) /\ Restored[k].slug = e.slug
      BY <1>2, <2>1 DEF ToSet
    <3>2. SlugsOnce(Restored)
      BY <1>2, ValidIs
    <3>3. \A q \in ToSet(Restored) : q.slug = e.slug => q = Restored[k]
      BY <3>1, <3>2 DEF ToSet, SlugsOnce
    <3> QED
      BY <1>2, <3>1, <3>3
  <2>3. Fulfilled(job.policy, p, e, lib)
    BY <1>2, <2>1, <2>2
  <2> HIDE DEF p, lib
  <2>4. job.policy \in Policies
    BY Committing
  <2>5. e.kind = "new-prompt" => lib[p.slug].versions = p.versions
    BY <2>3 DEF Fulfilled, NewEntry
  <2>6. e.kind # "new-prompt" /\ job.policy = "import-as-copy" =>
          lib[e.copySlug].versions = p.versions
    BY <2>3 DEF Fulfilled, Copies, NewEntry
  <2>7. e.kind # "new-prompt" /\ job.policy = "add-missing-versions" =>
          e.missing \subseteq (IF p.slug \in DOMAIN lib THEN Identities(lib[p.slug].versions)
                               ELSE {})
    BY <2>3 DEF Fulfilled, Adds, NewEntry
  <2> QED
    BY <2>4, <2>5, <2>6, <2>7 DEF Announced, Policies, p, lib
<1> QED
  BY <1>3, <1>4

(* Nothing that was handed out as a verified backup lacks the history of a  *)
(* prompt, and no prompt of the library lacks its own unless its deletion   *)
(* was begun, whatever prompts, files and labels there are and however the  *)
(* commands, restores, other processes and crashes follow each other.       *)
THEOREM HandedOutIsWhole == Spec => []ExportsAreWhole
<1> QED
  BY RecoveryInvariant, WholeFollows, PTL

(* What a restore of the desktop application commits is what the plan that  *)
(* the user was shown announced: no prompt loses a version or its metadata, *)
(* and every entry is fulfilled, whatever happened since the plan was made. *)
THEOREM RestoresAsShown == Spec => RestoredAsShown
<1>1. RInv /\ IInv /\ [Next]_vars => CommitStep
  BY CommitAnnounced
<1>2. RInv /\ IInv /\ [Next]_vars => [CommitStep]_vars
  BY <1>1
<1> QED
  BY <1>2, RecoveryInvariant, PTL DEF Spec, RestoredAsShown

=============================================================================
