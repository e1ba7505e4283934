------------------------- MODULE RecoveryDomain_proofs -------------------------
(***************************************************************************)
(* Lemmas about the functions of RecoveryDomain, for the proofs about the  *)
(* two programs that share them: orders and sorting, documents and their   *)
(* normal form, the entries of a plan.                                     *)
(***************************************************************************)
EXTENDS RecoveryDomain, FiniteSetTheorems, SequenceTheorems, WellFoundedInduction, TLAPS

-----------------------------------------------------------------------------
(* Orders.  The least element stands in for induction on numbers.          *)

LEMMA LeastOf ==
  ASSUME NEW S \in SUBSET Nat, S # {}
  PROVE  \E least \in S : \A k \in S : least <= k
<1> DEFINE R == OpToRel(<, Nat)
<1>1. IsWellFoundedOn(R, Nat)
  BY NatLessThanWellFounded
<1>2. \A x, y \in Nat : <<x, y>> \in R <=> x < y
  BY DEF OpToRel
<1> HIDE DEF R
<1>3. PICK n \in S : \A k \in S : ~ (<<k, n>> \in R)
  BY <1>1, WFMin
<1>4. ASSUME NEW k \in S
      PROVE  n <= k
  <2>1. k \in Nat /\ n \in Nat
    OBVIOUS
  <2>2. ~ (k < n)
    BY <1>2, <1>3, <2>1
  <2>3. QED
    BY <2>1, <2>2
<1>5. QED
  BY <1>4

IsOrder(S, before) ==
  /\ \A x \in S : <<x, x>> \notin before
  /\ \A x, y, z \in S : <<x, y>> \in before /\ <<y, z>> \in before => <<x, z>> \in before
  /\ \A x, y \in S : x = y \/ <<x, y>> \in before \/ <<y, x>> \in before

(* A finite set in a strict order: each element has one place. *)
LEMMA InOrderLists ==
  ASSUME NEW S, IsFiniteSet(S), NEW before, IsOrder(S, before)
  PROVE  /\ InOrder(S, before) \in [1..Cardinality(S) -> S]
         /\ \A x \in S : \E i \in 1..Cardinality(S) : InOrder(S, before)[i] = x
         /\ \A i, k \in 1..Cardinality(S) : InOrder(S, before)[i] = InOrder(S, before)[k] => i = k
<1> DEFINE below(x) == {y \in S : <<y, x>> \in before}
           count == [x \in S |-> Cardinality(below(x))]
           n == Cardinality(S)
           order == InOrder(S, before)
<1>1. n \in Nat
  BY FS_CardinalityType
<1>2. ASSUME NEW x \in S
      PROVE  IsFiniteSet(below(x)) /\ count[x] \in Nat /\ count[x] < n
  <2>1. below(x) \in SUBSET S /\ x \notin below(x)
    BY DEF IsOrder
  <2> HIDE DEF below
  <2>2. IsFiniteSet(below(x)) /\ Cardinality(below(x)) <= n /\ Cardinality(below(x)) # n
    BY <2>1, FS_Subset
  <2>3. Cardinality(below(x)) \in Nat
    BY <2>2, FS_CardinalityType
  <2>4. QED
    BY <1>1, <2>2, <2>3
<1>3. ASSUME NEW x \in S, NEW y \in S, <<x, y>> \in before
      PROVE  count[x] # count[y]
  <2>1. below(x) \in SUBSET below(y)
    BY <1>3 DEF IsOrder
  <2>2. x \in below(y) /\ x \notin below(x)
    BY <1>3 DEF IsOrder
  <2>3. IsFiniteSet(below(y))
    BY <1>2
  <2> HIDE DEF below
  <2>4. Cardinality(below(x)) # Cardinality(below(y))
    BY <2>1, <2>2, <2>3, FS_Subset
  <2>5. QED
    BY <2>4
<1>4. order \in [1..n -> S] /\ \A i \in 1..n : count[order[i]] = i - 1
  <2> DEFINE f == [x \in S |-> count[x] + 1]
  <2>1. f \in [S -> 1..n]
    BY SMTT(60), <1>1, <1>2
  <2>2. \A x, y \in S : f[x] = f[y] => x = y
    <3>1. \A x, y \in S : f[x] = f[y] => count[x] = count[y]
      BY <1>2
    <3> HIDE DEF count, f
    <3>2. QED
      BY <1>3, <3>1 DEF IsOrder
  <2>3. f \in Injection(S, 1..n)
    <3> HIDE DEF f
    <3>1. QED
      BY <2>1, <2>2 DEF Injection, IsInjective
  <2>4. IsFiniteSet(1..n) /\ Cardinality(1..n) = n
    BY <1>1, FS_Interval
  <2>5. f \in Surjection(S, 1..n)
    BY <2>3, <2>4, FS_Injection
  <2>6. \A i \in 1..n : \E x \in S : f[x] = i
    BY <2>5 DEF Surjection
  <2>7. \A i \in 1..n : order[i] \in S /\ Cardinality(below(order[i])) = i - 1
    <3>1. TAKE i \in 1..n
    <3>2. order[i] = CHOOSE x \in S : Cardinality(below(x)) = i - 1
      BY DEF InOrder
    <3>3. PICK x \in S : f[x] = i
      BY <2>6
    <3>4. count[x] = i - 1
      <4>1. i \in Int /\ count[x] \in Nat
        BY <1>1, <1>2
      <4>2. count[x] + 1 = i
        BY <3>3
      <4> HIDE DEF count
      <4>3. QED
        BY <4>1, <4>2
    <3>5. Cardinality(below(x)) = i - 1
      BY <3>4
    <3> HIDE DEF below, f, count
    <3>6. QED
      BY <3>2, <3>5
  <2>8. order = [i \in 1..n |-> CHOOSE x \in S : Cardinality(below(x)) = i - 1]
    BY DEF InOrder
  <2> HIDE DEF order, below
  <2>9. QED
    BY <2>7, <2>8
<1> HIDE DEF count, order, below
<1>5. ASSUME NEW x \in S
      PROVE  \E i \in 1..n : order[i] = x
  <2>1. count[x] + 1 \in 1..n /\ count[order[count[x] + 1]] = count[x]
    BY <1>1, <1>2, <1>4
  <2>2. order[count[x] + 1] \in S
    BY <1>4, <2>1
  <2>3. order[count[x] + 1] = x
    BY <1>3, <2>1, <2>2 DEF IsOrder
  <2>4. QED
    BY <2>1, <2>3
<1>6. \A i, k \in 1..n : order[i] = order[k] => i = k
  BY <1>4
<1>7. QED
  BY <1>4, <1>5, <1>6 DEF order

(* What InOrder makes of the places of a sequence. *)
LEMMA DomainFinite ==
  ASSUME NEW s, NEW S, s \in Seq(S)
  PROVE  /\ DOMAIN s = 1..Len(s) /\ Len(s) \in Nat
         /\ IsFiniteSet(DOMAIN s) /\ Cardinality(DOMAIN s) = Len(s)
<1>1. DOMAIN s = 1..Len(s) /\ Len(s) \in Nat
  OBVIOUS
<1>2. QED
  BY SMTT(60), <1>1, FS_Interval

LEMMA AscendingIsOrder ==
  ASSUME NEW places \in SUBSET Nat
  PROVE  IsOrder(places, Ascending(places))
<1>1. \A x, y \in places : <<x, y>> \in Ascending(places) <=> x < y
  BY DEF Ascending
<1>2. QED
  BY <1>1 DEF IsOrder

(* The places of a sequence that are selected, in their order. *)
LEMMA SelectedIs ==
  ASSUME NEW S, NEW s \in Seq(S), NEW places \in SUBSET DOMAIN s
  PROVE  /\ Selected(s, places) \in Seq(S)
         /\ \A p \in places : \E i \in DOMAIN Selected(s, places) : Selected(s, places)[i] = s[p]
         /\ \E order \in [DOMAIN Selected(s, places) -> places] :
              /\ \A i \in DOMAIN Selected(s, places) : Selected(s, places)[i] = s[order[i]]
              /\ \A i, k \in DOMAIN Selected(s, places) : order[i] = order[k] => i = k
<1> DEFINE order == InOrder(places, Ascending(places))
           n == Cardinality(places)
<1>1. IsFiniteSet(places) /\ n \in Nat
  BY DomainFinite, FS_Subset, FS_CardinalityType
<1>2. places \subseteq Nat
  BY DomainFinite
<1>3. /\ order \in [1..n -> places]
      /\ \A p \in places : \E i \in 1..n : order[i] = p
      /\ \A i, k \in 1..n : order[i] = order[k] => i = k
  BY <1>1, <1>2, AscendingIsOrder, InOrderLists
<1>4. Selected(s, places) = [i \in 1..n |-> s[order[i]]]
  BY <1>3 DEF Selected
<1> HIDE DEF order, n
<1>5. \A i \in 1..n : s[order[i]] \in S
  BY <1>3
<1>6. Selected(s, places) \in Seq(S)
  BY <1>1, <1>4, <1>5
<1>7. DOMAIN Selected(s, places) = 1..n
  BY <1>4
<1>8. \A p \in places : \E i \in 1..n : Selected(s, places)[i] = s[p]
  BY <1>3, <1>4
<1>9. \A i \in 1..n : Selected(s, places)[i] = s[order[i]]
  BY <1>4
<1> DEFINE chosen == Selected(s, places)
<1> HIDE DEF chosen
<1>10. order \in [DOMAIN chosen -> places]
  BY <1>3, <1>7 DEF chosen
<1>11. /\ \A i \in DOMAIN chosen : chosen[i] = s[order[i]]
       /\ \A i, k \in DOMAIN chosen : order[i] = order[k] => i = k
  BY <1>3, <1>7, <1>9 DEF chosen
<1>12. \A p \in places : \E i \in DOMAIN chosen : chosen[i] = s[p]
  BY <1>7, <1>8 DEF chosen
<1>13. chosen \in Seq(S)
  BY <1>6 DEF chosen
<1>14. \E o \in [DOMAIN chosen -> places] :
          /\ \A i \in DOMAIN chosen : chosen[i] = s[o[i]]
          /\ \A i, k \in DOMAIN chosen : o[i] = o[k] => i = k
  BY <1>10, <1>11
<1>15. QED
  BY <1>12, <1>13, <1>14 DEF chosen

(* Induction up to a number, over a set. *)
LEMMA UpTo ==
  ASSUME NEW n \in Nat, NEW S, 0 \in S, \A i \in 1..n : i - 1 \in S => i \in S
  PROVE  \A i \in 0..n : i \in S
<1> DEFINE C == {i \in 0..n : i \notin S}
<1>1. SUFFICES ASSUME C # {}
               PROVE  FALSE
  OBVIOUS
<1>2. C \in SUBSET Nat
  OBVIOUS
<1>3. PICK m \in C : \A k \in C : m <= k
  BY <1>1, <1>2, LeastOf
<1>4. m \in 1..n /\ m - 1 \in 0..n
  BY <1>3
<1>5. m - 1 \notin C
  BY <1>3, <1>4
<1>6. QED
  BY <1>3, <1>4, <1>5

(* The text order of slugs: they are compared part by part. *)
LEMMA PartIs ==
  ASSUME NEW s \in Slugs, NEW i \in Nat \ {0}
  PROVE  /\ Part(s, i) = <<Part(s, i)[1], Part(s, i)[2]>>
         /\ Part(s, i)[1] \in Nat /\ Part(s, i)[2] \in Nat
         /\ i > Len(s) <=> Part(s, i)[1] = 0
         /\ i > Len(s) => Part(s, i) = <<0, 0>>
         /\ i <= Len(s) => s[i] \in Nat /\ s[i] = IF Part(s, i)[1] = 2 THEN Part(s, i)[2] ELSE 1
<1>1. s \in Seq(Nat) /\ Len(s) \in Nat
  BY DEF Slugs
<1>2. CASE i > Len(s)
  BY <1>1, <1>2 DEF Part
<1>3. CASE i <= Len(s)
  <2>1. s[i] \in Nat
    BY <1>1, <1>3
  <2>2. QED
    BY <1>1, <1>3, <2>1 DEF Part
<1>4. QED
  BY <1>1, <1>2, <1>3

LEMMA SlugsDiffer ==
  ASSUME NEW s \in Slugs, NEW t \in Slugs, s # t
  PROVE  \E i \in Nat \ {0} :
           /\ i <= Len(s) + 1 /\ i <= Len(t) + 1
           /\ Part(s, i) # Part(t, i)
           /\ \A j \in 1..(i - 1) : Part(s, j) = Part(t, j)
<1> DEFINE D == {i \in Nat \ {0} : Part(s, i) # Part(t, i)}
<1>1. s \in Seq(Nat) /\ t \in Seq(Nat) /\ Len(s) \in Nat /\ Len(t) \in Nat
  BY DEF Slugs
<1>2. D # {}
  <2>1. SUFFICES ASSUME \A i \in Nat \ {0} : Part(s, i) = Part(t, i)
                 PROVE  FALSE
    OBVIOUS
  <2>2. ASSUME NEW i \in Nat \ {0}
        PROVE  i > Len(s) <=> i > Len(t)
    BY <2>1, PartIs
  <2>3. Len(s) = Len(t)
    <3>1. Len(s) + 1 > Len(t) /\ Len(t) + 1 > Len(s)
      BY <1>1, <2>2
    <3>2. QED
      BY <1>1, <3>1
  <2>4. ASSUME NEW i \in 1..Len(s)
        PROVE  s[i] = t[i]
    <3>1. i \in Nat \ {0} /\ i <= Len(s) /\ i <= Len(t)
      BY <1>1, <2>3
    <3>2. Part(s, i) = Part(t, i)
      BY <2>1, <3>1
    <3>3. s[i] = IF Part(s, i)[1] = 2 THEN Part(s, i)[2] ELSE 1
      BY <3>1, PartIs
    <3>4. t[i] = IF Part(t, i)[1] = 2 THEN Part(t, i)[2] ELSE 1
      BY <3>1, PartIs
    <3>5. QED
      BY <3>2, <3>3, <3>4
  <2>5. QED
    BY <1>1, <2>3, <2>4, SeqEqual
<1>3. PICK i \in D : \A k \in D : i <= k
  <2>1. D \in SUBSET Nat
    OBVIOUS
  <2> HIDE DEF D
  <2>2. QED
    BY <1>2, <2>1, LeastOf
<1>4. i \in Nat \ {0} /\ Part(s, i) # Part(t, i)
  BY <1>3
<1>5. ASSUME NEW j \in 1..(i - 1)
      PROVE  Part(s, j) = Part(t, j)
  <2>1. j \in Nat \ {0} /\ ~ (i <= j)
    BY <1>4
  <2>2. QED
    BY <1>3, <2>1
<1> HIDE DEF D
<1>6. ASSUME NEW m \in Nat, m + 1 < i
      PROVE  m # Len(s) /\ m # Len(t)
  <2>1. Part(s, m + 1) = Part(t, m + 1)
    BY <1>4, <1>5, <1>6
  <2>2. m + 1 \in Nat \ {0}
    BY <1>6
  <2>3. m + 1 > Len(s) <=> m + 1 > Len(t)
    BY <2>1, <2>2, PartIs
  <2>4. ~ (i > Len(s) /\ i > Len(t))
    BY <1>4, PartIs
  <2>5. QED
    BY <1>1, <1>4, <1>6, <2>3, <2>4
<1>7. i <= Len(s) + 1 /\ i <= Len(t) + 1
  BY <1>1, <1>4, <1>6
<1>8. QED
  BY <1>4, <1>5, <1>7

LEMMA SlugsOrdered ==
  /\ \A s \in Slugs : ~SlugBefore(s, s)
  /\ \A s, t, u \in Slugs : SlugBefore(s, t) /\ SlugBefore(t, u) => SlugBefore(s, u)
  /\ \A s, t \in Slugs : s = t \/ SlugBefore(s, t) \/ SlugBefore(t, s)
<1>1. ASSUME NEW s \in Slugs
      PROVE  ~SlugBefore(s, s)
  <2>1. ASSUME NEW i \in 1..(Len(s) + 1)
        PROVE  ~PartBefore(Part(s, i), Part(s, i))
    <3>1. i \in Nat \ {0}
      OBVIOUS
    <3>2. QED
      BY <3>1, PartIs DEF PartBefore
  <2>2. QED
    BY <2>1 DEF SlugBefore
<1>2. ASSUME NEW s \in Slugs, NEW t \in Slugs, NEW u \in Slugs,
             SlugBefore(s, t), SlugBefore(t, u)
      PROVE  SlugBefore(s, u)
  <2>1. PICK i \in 1..(Len(s) + 1) :
          /\ PartBefore(Part(s, i), Part(t, i))
          /\ \A j \in 1..(i - 1) : Part(s, j) = Part(t, j)
    BY <1>2 DEF SlugBefore
  <2>2. PICK k \in 1..(Len(t) + 1) :
          /\ PartBefore(Part(t, k), Part(u, k))
          /\ \A j \in 1..(k - 1) : Part(t, j) = Part(u, j)
    BY <1>2 DEF SlugBefore
  <2>3. i \in Nat \ {0} /\ k \in Nat \ {0} /\ Len(s) \in Nat /\ Len(t) \in Nat
    BY DEF Slugs
  <2>4. CASE i <= k
    <3>1. PartBefore(Part(s, i), Part(u, i))
      <4>1. Part(t, i) = Part(u, i) \/ PartBefore(Part(t, i), Part(u, i))
        BY <2>2, <2>3, <2>4
      <4>2. QED
        BY SMTT(60), <2>1, <2>3, <4>1, PartIs DEF PartBefore
    <3>2. \A j \in 1..(i - 1) : Part(s, j) = Part(u, j)
      BY <2>1, <2>2, <2>3, <2>4
    <3>3. QED
      BY <3>1, <3>2 DEF SlugBefore
  <2>5. CASE k < i
    <3>1. PartBefore(Part(s, k), Part(u, k))
      BY <2>1, <2>2, <2>3, <2>5
    <3>2. \A j \in 1..(k - 1) : Part(s, j) = Part(u, j)
      BY <2>1, <2>2, <2>3, <2>5
    <3>3. k \in 1..(Len(s) + 1)
      BY <2>3, <2>5
    <3>4. QED
      BY <3>1, <3>2, <3>3 DEF SlugBefore
  <2>6. QED
    BY <2>3, <2>4, <2>5
<1>3. ASSUME NEW s \in Slugs, NEW t \in Slugs, s # t
      PROVE  SlugBefore(s, t) \/ SlugBefore(t, s)
  <2>1. PICK i \in Nat \ {0} :
           /\ i <= Len(s) + 1 /\ i <= Len(t) + 1
           /\ Part(s, i) # Part(t, i)
           /\ \A j \in 1..(i - 1) : Part(s, j) = Part(t, j)
    BY <1>3, SlugsDiffer
  <2>2. i \in 1..(Len(s) + 1) /\ i \in 1..(Len(t) + 1)
    BY <2>1 DEF Slugs
  <2>3. PartBefore(Part(s, i), Part(t, i)) \/ PartBefore(Part(t, i), Part(s, i))
    <3>1. Part(s, i)[1] # Part(t, i)[1] \/ Part(s, i)[2] # Part(t, i)[2]
      BY <2>1, PartIs
    <3>2. QED
      BY <3>1, PartIs DEF PartBefore
  <2>4. QED
    BY <2>1, <2>2, <2>3 DEF SlugBefore
<1>4. QED
  BY <1>1, <1>2, <1>3

LEMMA BySlugIsOrder ==
  ASSUME NEW slugs \in SUBSET Slugs
  PROVE  IsOrder(slugs, BySlug(slugs))
<1>1. \A s, t \in slugs : <<s, t>> \in BySlug(slugs) <=> SlugBefore(s, t)
  BY DEF BySlug
<1>2. QED
  BY <1>1, SlugsOrdered DEF IsOrder

(* Alike elements keep their order: that is an order, too. *)
LEMMA ByPromptIsOrder ==
  ASSUME NEW metas, NEW prompts, prompts \in Seq(PromptWith(metas))
  PROVE  IsOrder(DOMAIN prompts, ByPrompt(prompts))
<1> DEFINE P == DOMAIN prompts
           slug(i) == prompts[i].slug
<1>1. \A i \in P : i \in Nat /\ slug(i) \in Slugs
  <2>1. \A i \in P : i \in Nat /\ prompts[i] \in PromptWith(metas)
    OBVIOUS
  <2>2. QED
    BY <2>1 DEF PromptWith
<1>2. \A i, k \in P : <<i, k>> \in ByPrompt(prompts) <=>
        SlugBefore(slug(i), slug(k)) \/ (i < k /\ ~SlugBefore(slug(k), slug(i)))
  BY DEF ByPrompt
<1> DEFINE X == P
<1> HIDE DEF X, slug
<1>3. \A i, k \in X : <<i, k>> \in ByPrompt(prompts) <=>
        SlugBefore(slug(i), slug(k)) \/ (i < k /\ slug(i) = slug(k))
  BY <1>1, <1>2, SlugsOrdered DEF X
<1>4. \A i \in X : i \in Nat /\ slug(i) \in Slugs
  BY <1>1 DEF X
<1>5. \A i \in X : <<i, i>> \notin ByPrompt(prompts)
  BY <1>3, <1>4, SlugsOrdered
<1>6. \A i, k \in X : i = k \/ <<i, k>> \in ByPrompt(prompts) \/ <<k, i>> \in ByPrompt(prompts)
  <2>1. \A i, k \in X : slug(i) = slug(k) \/ SlugBefore(slug(i), slug(k))
                           \/ SlugBefore(slug(k), slug(i))
    BY <1>4, SlugsOrdered
  <2>2. \A i, k \in X : i = k \/ i < k \/ k < i
    BY <1>4
  <2>3. QED
    BY <1>3, <2>1, <2>2
<1>7. ASSUME NEW i \in X, NEW j \in X, NEW k \in X,
             <<i, j>> \in ByPrompt(prompts), <<j, k>> \in ByPrompt(prompts)
      PROVE  <<i, k>> \in ByPrompt(prompts)
  <2>1. SlugBefore(slug(i), slug(j)) \/ (i < j /\ slug(i) = slug(j))
    BY <1>3, <1>7
  <2>2. SlugBefore(slug(j), slug(k)) \/ (j < k /\ slug(j) = slug(k))
    BY <1>3, <1>7
  <2>3. SlugBefore(slug(i), slug(k)) \/ (i < k /\ slug(i) = slug(k))
    BY <1>4, <2>1, <2>2, SlugsOrdered
  <2>4. QED
    BY <1>3, <2>3
<1>8. QED
  BY <1>5, <1>6, <1>7 DEF IsOrder, X

(* Versions are compared by three numbers. *)
LEMMA VersionsCompare ==
  /\ \A v \in Version : ~VersionBefore(v, v)
  /\ \A v, w \in Version : VersionBefore(v, w) => ~VersionBefore(w, v)
  /\ \A v, w, x \in Version :
       VersionBefore(v, w) /\ ~VersionBefore(x, w) => VersionBefore(v, x)
  /\ \A v, w, x \in Version :
       ~VersionBefore(w, v) /\ VersionBefore(w, x) => VersionBefore(v, x)
  /\ \A v, w, x \in Version :
       ~VersionBefore(w, v) /\ ~VersionBefore(x, w) => ~VersionBefore(x, v)
<1>1. \A v \in Version : v.created \in Nat /\ v.semver \in Nat /\ v.body \in Nat
  BY DEF Version
<1> DEFINE V == Version
<1> HIDE DEF V
<1>2. \A v \in V : v.created \in Nat /\ v.semver \in Nat /\ v.body \in Nat
  BY <1>1 DEF V
<1>3. \A v \in V : ~VersionBefore(v, v)
  BY <1>2 DEF VersionBefore
<1>4. \A v, w \in V : VersionBefore(v, w) => ~VersionBefore(w, v)
  BY <1>2 DEF VersionBefore
<1>5. \A v, w, x \in V : VersionBefore(v, w) /\ ~VersionBefore(x, w) => VersionBefore(v, x)
  BY <1>2 DEF VersionBefore
<1>6. \A v, w, x \in V : ~VersionBefore(w, v) /\ VersionBefore(w, x) => VersionBefore(v, x)
  BY <1>2 DEF VersionBefore
<1>7. \A v, w, x \in V : ~VersionBefore(w, v) /\ ~VersionBefore(x, w) => ~VersionBefore(x, v)
  BY <1>2 DEF VersionBefore
<1>8. QED
  BY <1>3, <1>4, <1>5, <1>6, <1>7 DEF V

LEMMA ByAgeIsOrder ==
  ASSUME NEW vs, vs \in Seq(Version)
  PROVE  IsOrder(DOMAIN vs, ByAge(vs))
<1> DEFINE P == DOMAIN vs
           v(i) == vs[i]
<1>1. \A i \in P : i \in Nat /\ v(i) \in Version
  OBVIOUS
<1>2. \A i, k \in P : <<i, k>> \in ByAge(vs) <=>
        VersionBefore(v(i), v(k)) \/ (i < k /\ ~VersionBefore(v(k), v(i)))
  BY DEF ByAge
<1> HIDE DEF P, v
<1>3. \A i \in P : <<i, i>> \notin ByAge(vs)
  BY <1>1, <1>2, VersionsCompare
<1>4. \A i, k \in P : i = k \/ <<i, k>> \in ByAge(vs) \/ <<k, i>> \in ByAge(vs)
  <2>1. \A i, k \in P : i = k \/ i < k \/ k < i
    BY <1>1
  <2>2. QED
    BY <1>1, <1>2, <2>1, VersionsCompare
<1>5. ASSUME NEW i \in P, NEW j \in P, NEW k \in P,
             <<i, j>> \in ByAge(vs), <<j, k>> \in ByAge(vs)
      PROVE  <<i, k>> \in ByAge(vs)
  <2>1. VersionBefore(v(i), v(j)) \/ (i < j /\ ~VersionBefore(v(j), v(i)))
    BY <1>2, <1>5
  <2>2. VersionBefore(v(j), v(k)) \/ (j < k /\ ~VersionBefore(v(k), v(j)))
    BY <1>2, <1>5
  <2>3. VersionBefore(v(i), v(k)) \/ (i < k /\ ~VersionBefore(v(k), v(i)))
    BY <1>1, <2>1, <2>2, VersionsCompare
  <2>4. QED
    BY <1>2, <2>3
<1>6. QED
  BY <1>3, <1>4, <1>5 DEF IsOrder, P

-----------------------------------------------------------------------------
(* Documents.  `EachOnce': a history as the parser wants it.               *)

EachOnce(vs) == vs # <<>> /\ Cardinality(Identities(vs)) = Len(vs)

SlugsOnce(document) ==
  \A i, k \in DOMAIN document : document[i].slug = document[k].slug => i = k

LEMMA WellFormedIs ==
  ASSUME NEW document
  PROVE  WellFormed(document) <=>
           SlugsOnce(document) /\ \A i \in DOMAIN document : EachOnce(document[i].versions)
BY DEF WellFormed, SlugsOnce, EachOnce

LEMMA ValidIs ==
  ASSUME NEW document, Valid(document)
  PROVE  /\ WellFormed(document) /\ TitlesFit(document)
         /\ SlugsOnce(document) /\ \A i \in DOMAIN document : EachOnce(document[i].versions)
BY WellFormedIs DEF Valid

(* Sorting a history keeps its versions. *)
LEMMA VersionsSortedIs ==
  ASSUME NEW vs, vs \in Seq(Version)
  PROVE  /\ VersionsSorted(vs) \in Seq(Version)
         /\ Identities(VersionsSorted(vs)) = Identities(vs)
         /\ EachOnce(vs) <=> EachOnce(VersionsSorted(vs))
         /\ vs # <<>> <=> VersionsSorted(vs) # <<>>
<1> DEFINE order == InOrder(DOMAIN vs, ByAge(vs))
           n == Len(vs)
           sorted == VersionsSorted(vs)
<1>1. DOMAIN vs = 1..n /\ n \in Nat /\ IsFiniteSet(DOMAIN vs) /\ Cardinality(DOMAIN vs) = n
  BY DomainFinite
<1>2. /\ order \in [1..n -> 1..n]
      /\ \A x \in 1..n : \E i \in 1..n : order[i] = x
  BY SMTT(60), <1>1, ByAgeIsOrder, InOrderLists
<1>3. sorted = [i \in 1..n |-> vs[order[i]]]
  <2>1. DOMAIN order = 1..n
    BY <1>2
  <2>2. QED
    BY <2>1 DEF VersionsSorted
<1> HIDE DEF order, sorted
<1>4. sorted \in Seq(Version) /\ Len(sorted) = n
  <2>1. \A i \in 1..n : vs[order[i]] \in Version
    BY <1>1, <1>2
  <2>2. QED
    BY <1>1, <1>3, <2>1
<1>5. ToSet(sorted) = ToSet(vs)
  <2>1. ASSUME NEW x \in ToSet(sorted)
        PROVE  x \in ToSet(vs)
    BY <1>1, <1>2, <1>3 DEF ToSet
  <2>2. ASSUME NEW x \in ToSet(vs)
        PROVE  x \in ToSet(sorted)
    <3>1. PICK k \in 1..n : x = vs[k]
      BY <1>1 DEF ToSet
    <3>2. PICK i \in 1..n : order[i] = k
      BY <1>2
    <3>3. x = sorted[i] /\ i \in DOMAIN sorted
      BY <1>3, <3>1, <3>2
    <3>4. QED
      BY <3>3 DEF ToSet
  <2>3. QED
    BY <2>1, <2>2
<1>6. Identities(sorted) = Identities(vs)
  BY <1>5 DEF Identities
<1>7. vs = <<>> <=> sorted = <<>>
  BY <1>1, <1>4
<1>8. QED
  BY <1>4, <1>6, <1>7 DEF EachOnce, sorted

(* What Normalized makes of a file: the same prompts, each once. *)
LEMMA NormalizedOf ==
  ASSUME NEW metas, NEW prompts, prompts \in Seq(PromptWith(metas))
  PROVE  /\ Normalized(prompts) \in Seq(PromptWith(metas))
         /\ WellFormed(prompts) => WellFormed(Normalized(prompts))
         /\ TitlesFit(prompts) => TitlesFit(Normalized(prompts))
<1> DEFINE order == InOrder(DOMAIN prompts, ByPrompt(prompts))
           n == Len(prompts)
           document == Normalized(prompts)
<1>1. DOMAIN prompts = 1..n /\ n \in Nat
      /\ IsFiniteSet(DOMAIN prompts) /\ Cardinality(DOMAIN prompts) = n
  BY DomainFinite
<1>2. /\ order \in [1..n -> 1..n]
      /\ \A i, k \in 1..n : order[i] = order[k] => i = k
  BY <1>1, ByPromptIsOrder, InOrderLists
<1>3. document = [i \in 1..n |->
        [prompts[order[i]] EXCEPT !.versions = VersionsSorted(prompts[order[i]].versions)]]
  <2>1. DOMAIN order = 1..n
    BY <1>2
  <2>2. QED
    BY <2>1 DEF Normalized
<1> HIDE DEF order, document
<1>4. ASSUME NEW i \in 1..n
      PROVE  /\ document[i] \in PromptWith(metas)
             /\ document[i].slug = prompts[order[i]].slug
             /\ document[i].meta = prompts[order[i]].meta
             /\ document[i].versions = VersionsSorted(prompts[order[i]].versions)
             /\ prompts[order[i]].versions \in Seq(Version)
  <2>1. PICK p \in PromptWith(metas) : p = prompts[order[i]]
    BY <1>1, <1>2
  <2>2. document[i] = [p EXCEPT !.versions = VersionsSorted(p.versions)]
    BY <1>3, <2>1
  <2>3. p.versions \in Seq(Version) /\ VersionsSorted(p.versions) \in Seq(Version)
    BY VersionsSortedIs DEF PromptWith
  <2>4. QED
    BY <2>1, <2>2, <2>3 DEF PromptWith
<1>5. document \in Seq(PromptWith(metas)) /\ DOMAIN document = 1..n
  <2>1. document \in [1..n -> PromptWith(metas)]
    BY <1>3, <1>4
  <2>2. QED
    BY <1>1, <2>1
<1>6. ASSUME WellFormed(prompts)
      PROVE  WellFormed(document)
  <2>1. SlugsOnce(document)
    BY <1>1, <1>2, <1>4, <1>5, <1>6 DEF WellFormed, SlugsOnce
  <2>2. ASSUME NEW i \in 1..n
        PROVE  EachOnce(document[i].versions)
    <3>1. EachOnce(prompts[order[i]].versions)
      BY <1>1, <1>2, <1>6, WellFormedIs
    <3>2. QED
      BY <1>4, <3>1, VersionsSortedIs
  <2>3. QED
    BY <1>5, <2>1, <2>2, WellFormedIs
<1>7. ASSUME TitlesFit(prompts)
      PROVE  TitlesFit(document)
  BY <1>1, <1>2, <1>4, <1>5, <1>7 DEF TitlesFit
<1>8. QED
  BY <1>5, <1>6, <1>7 DEF document

(* The versions of a history that have some identities. *)
LEMMA ChosenIs ==
  ASSUME NEW vs, vs \in Seq(Version), NEW ids
  PROVE  LET found == Selected(vs, {i \in DOMAIN vs : Identity(vs[i]) \in ids})
         IN found \in Seq(Version) /\ Identities(found) = Identities(vs) \cap ids
<1> DEFINE places == {i \in DOMAIN vs : Identity(vs[i]) \in ids}
           found == Selected(vs, places)
<1>1. vs \in Seq(Version)
  OBVIOUS
<1>2. places \in SUBSET DOMAIN vs /\ found = Selected(vs, places)
  OBVIOUS
<1>3. \A p \in DOMAIN vs : p \in places <=> Identity(vs[p]) \in ids
  OBVIOUS
<1> HIDE DEF places, found
<1>4. found \in Seq(Version)
  BY <1>1, <1>2, SelectedIs
<1>5. \A p \in places : \E i \in DOMAIN found : found[i] = vs[p]
  BY <1>1, <1>2, SelectedIs
<1>6. PICK order \in [DOMAIN found -> places] :
        /\ \A i \in DOMAIN found : found[i] = vs[order[i]]
        /\ \A i, k \in DOMAIN found : order[i] = order[k] => i = k
  <2>1. \E order \in [DOMAIN Selected(vs, places) -> places] :
          /\ \A i \in DOMAIN Selected(vs, places) : Selected(vs, places)[i] = vs[order[i]]
          /\ \A i, k \in DOMAIN Selected(vs, places) : order[i] = order[k] => i = k
    BY <1>1, <1>2, SelectedIs
  <2>2. QED
    BY <1>2, <2>1
<1>7. Identities(found) = {Identity(found[i]) : i \in DOMAIN found}
  BY DEF Identities, ToSet
<1>8. Identities(vs) = {Identity(vs[i]) : i \in DOMAIN vs}
  BY DEF Identities, ToSet
<1>9. Identities(found) = Identities(vs) \cap ids
  <2>1. ASSUME NEW x \in Identities(found)
        PROVE  x \in Identities(vs) \cap ids
    <3>1. PICK i \in DOMAIN found : x = Identity(found[i])
      BY <1>7
    <3>2. order[i] \in places /\ order[i] \in DOMAIN vs /\ x = Identity(vs[order[i]])
      BY <1>2, <1>6, <3>1
    <3>3. QED
      BY <1>3, <1>8, <3>2
  <2>2. ASSUME NEW x \in Identities(vs), x \in ids
        PROVE  x \in Identities(found)
    <3>1. PICK p \in DOMAIN vs : x = Identity(vs[p])
      BY <1>8
    <3>2. p \in places
      BY <1>3, <2>2, <3>1
    <3>3. PICK i \in DOMAIN found : found[i] = vs[p]
      BY <1>5, <3>2
    <3>4. QED
      BY <1>7, <3>1, <3>3
  <2>3. QED
    BY <2>1, <2>2
<1>10. QED
  BY <1>4, <1>9 DEF found, places

LEMMA JoinedIs ==
  ASSUME NEW vs \in Seq(Version), NEW ws \in Seq(Version)
  PROVE  /\ vs \o ws \in Seq(Version)
         /\ IsPrefix(vs, vs \o ws)
         /\ Identities(vs \o ws) = Identities(vs) \cup Identities(ws)
         /\ vs # <<>> => vs \o ws # <<>>
<1>1. /\ vs \o ws \in Seq(Version) /\ Len(vs \o ws) = Len(vs) + Len(ws)
      /\ Len(vs) \in Nat /\ Len(ws) \in Nat
      /\ \A i \in 1..Len(vs) : (vs \o ws)[i] = vs[i]
      /\ \A i \in 1..Len(ws) : (vs \o ws)[Len(vs) + i] = ws[i]
  OBVIOUS
<1>2. IsPrefix(vs, vs \o ws)
  <2>1. SubSeq(vs, 1, Len(vs)) = SubSeq(vs \o ws, 1, Len(vs))
    BY <1>1
  <2>2. QED
    BY <1>1, <2>1 DEF IsPrefix
<1> DEFINE all == vs \o ws
<1>3. all \in Seq(Version) /\ DOMAIN all = 1..(Len(vs) + Len(ws))
  BY <1>1
<1>4. DOMAIN vs = 1..Len(vs) /\ DOMAIN ws = 1..Len(ws)
  OBVIOUS
<1>5. \A i \in DOMAIN all : i \in 1..Len(vs) \/ i - Len(vs) \in 1..Len(ws)
  BY <1>1, <1>3
<1>6. ASSUME NEW i \in DOMAIN all, i - Len(vs) \in 1..Len(ws)
      PROVE  all[i] = ws[i - Len(vs)]
  <2>1. Len(vs) + (i - Len(vs)) = i
    BY <1>1, <1>3
  <2>2. QED
    BY <1>1, <1>6, <2>1
<1>7. \A i \in 1..Len(vs) : i \in DOMAIN all /\ all[i] = vs[i]
  BY <1>1, <1>3
<1>8. \A i \in 1..Len(ws) : Len(vs) + i \in DOMAIN all /\ all[Len(vs) + i] = ws[i]
  BY <1>1, <1>3
<1>9. vs # <<>> => all # <<>>
  BY <1>1
<1> HIDE DEF all
<1>10. Identities(all) = Identities(vs) \cup Identities(ws)
  <2>1. ToSet(all) = ToSet(vs) \cup ToSet(ws)
    <3>1. ASSUME NEW i \in DOMAIN all
          PROVE  all[i] \in ToSet(vs) \cup ToSet(ws)
      BY <1>4, <1>5, <1>6, <1>7 DEF ToSet
    <3>2. \A i \in DOMAIN vs : vs[i] \in ToSet(all)
      BY <1>4, <1>7 DEF ToSet
    <3>3. \A i \in DOMAIN ws : ws[i] \in ToSet(all)
      BY <1>4, <1>8 DEF ToSet
    <3>4. ToSet(all) \subseteq ToSet(vs) \cup ToSet(ws)
      BY <3>1 DEF ToSet
    <3>5. ToSet(vs) \cup ToSet(ws) \subseteq ToSet(all)
      <4>1. \A x \in ToSet(vs) : x \in ToSet(all)
        BY <3>2 DEF ToSet
      <4>2. \A x \in ToSet(ws) : x \in ToSet(all)
        BY <3>3 DEF ToSet
      <4>3. QED
        BY <4>1, <4>2
    <3>6. QED
      BY <3>4, <3>5
  <2>2. QED
    BY <2>1 DEF Identities
<1>11. QED
  BY <1>1, <1>2, <1>9, <1>10 DEF all

-----------------------------------------------------------------------------
(* Plans.                                                                  *)

LEMMA ImageFinite ==
  ASSUME NEW n \in Nat, NEW f, f = [k \in 1..n |-> f[k]]
  PROVE  IsFiniteSet({f[k] : k \in 1..n}) /\ Cardinality({f[k] : k \in 1..n}) <= n
<1> DEFINE T == {f[k] : k \in 1..n}
<1>1. f \in [1..n -> T] /\ \A t \in T : \E k \in 1..n : f[k] = t
  <2>1. \A k \in 1..n : f[k] \in T
    OBVIOUS
  <2>2. \A t \in T : \E k \in 1..n : f[k] = t
    OBVIOUS
  <2> HIDE DEF T
  <2>3. [k \in 1..n |-> f[k]] \in [1..n -> T]
    BY <2>1
  <2>4. QED
    BY <2>2, <2>3
<1> HIDE DEF T
<1>2. f \in Surjection(1..n, T)
  BY <1>1 DEF Surjection
<1>3. IsFiniteSet(1..n) /\ Cardinality(1..n) = n
  BY FS_Interval
<1>4. QED
  BY <1>2, <1>3, FS_Surjection DEF T

(* There is always a free `-imported-n'. *)
LEMMA CopyIsFree ==
  ASSUME NEW slug \in Slugs, NEW reserved, IsFiniteSet(reserved)
  PROVE  /\ FreeCopySlug(slug, reserved) \notin reserved
         /\ \E n \in Nat \ {0} : FreeCopySlug(slug, reserved) = CopySlug(slug, n)
<1> DEFINE m == Cardinality(reserved) + 1
           Copies == {CopySlug(slug, n) : n \in 1..m}
           free(n) == /\ CopySlug(slug, n) \notin reserved
                      /\ \A k \in 1..(n - 1) : CopySlug(slug, k) \in reserved
<1>1. m \in Nat \ {0} /\ Cardinality(reserved) < m
  BY FS_CardinalityType
<1>2. \A i, k \in 1..m : CopySlug(slug, i) = CopySlug(slug, k) => i = k
  <2>1. slug \in Seq(Nat)
    BY DEF Slugs
  <2>2. \A i \in 1..m : CopySlug(slug, i)[Len(slug) + 1] = i
    BY <2>1 DEF CopySlug
  <2>3. QED
    BY <2>2
<1>3. \E n \in 1..m : CopySlug(slug, n) \notin reserved
  <2>1. SUFFICES ASSUME \A n \in 1..m : CopySlug(slug, n) \in reserved
                 PROVE  FALSE
    OBVIOUS
  <2>2. [n \in 1..m |-> CopySlug(slug, n)] \in Injection(1..m, reserved)
    BY <1>2, <2>1 DEF Injection, IsInjective
  <2>3. Cardinality(1..m) <= Cardinality(reserved)
    BY <2>2, FS_Injection
  <2>4. Cardinality(1..m) = m
    BY <1>1, FS_Interval
  <2> HIDE DEF m
  <2>5. QED
    BY <1>1, <2>3, <2>4, FS_CardinalityType
<1>4. \E n \in 1..m : free(n)
  <2> DEFINE C == {n \in 1..m : CopySlug(slug, n) \notin reserved}
  <2>1. C \in SUBSET Nat /\ C # {}
    BY <1>3
  <2>2. PICK n \in C : \A k \in C : n <= k
    BY <2>1, LeastOf
  <2>3. \A k \in 1..(n - 1) : k \in 1..m /\ ~ (n <= k)
    BY <1>1, <2>2
  <2>4. free(n)
    BY <2>2, <2>3
  <2>5. QED
    BY <2>2, <2>4
<1> DEFINE n == CHOOSE k \in 1..m : free(k)
<1>5. n \in 1..m /\ free(n)
  BY <1>4
<1>6. FreeCopySlug(slug, reserved) = CopySlug(slug, n)
  BY DEF FreeCopySlug
<1>7. n \in Nat \ {0}
  BY <1>1, <1>5
<1> HIDE DEF n
<1>8. QED
  BY <1>5, <1>6, <1>7

LEMMA CopySlugIs ==
  ASSUME NEW slug \in Slugs, NEW n \in Nat
  PROVE  /\ CopySlug(slug, n) \in Slugs
         /\ CopySlug(slug, n) = CopySlug(slug, Last(CopySlug(slug, n)))
<1>1. slug \in Seq(Nat)
  BY DEF Slugs
<1>2. CopySlug(slug, n) \in Seq(Nat) /\ Len(CopySlug(slug, n)) = Len(slug) + 1
      /\ CopySlug(slug, n)[Len(slug) + 1] = n
  BY <1>1 DEF CopySlug
<1>3. Last(CopySlug(slug, n)) = n
  BY <1>2 DEF Last
<1>4. QED
  BY <1>1, <1>2, <1>3 DEF Slugs

(* The entries of a plan, one after the other. *)
LEMMA EntriesOf ==
  ASSUME NEW metas, NEW document, document \in Seq(PromptWith(metas)), NEW visible
  PROVE  LET entries == Entries(document, visible)
         IN /\ DOMAIN entries = 1..Len(document) /\ Len(entries) = Len(document)
            /\ \A i \in 1..Len(document) :
                 entries[i] = PlanEntry(document[i], visible,
                   DOMAIN visible \cup {Reserved(entries[k]) : k \in 1..(i - 1)})
<1> DEFINE n == Len(document)
           step(i, taken) == PlanEntry(document[i], visible, DOMAIN visible \cup taken)
           Are(f, m) == f = [i \in 1..m |-> step(i, {Reserved(f[k]) : k \in 1..(i - 1)})]
           S == {m \in 0..n : \E f : Are(f, m)}
<1>1. n \in Nat /\ DOMAIN document = 1..n
  OBVIOUS
<1>2. 0 \in S
  <2>1. Are([i \in 1..0 |-> 0], 0)
    OBVIOUS
  <2> HIDE DEF Are
  <2>2. QED
    BY <1>1, <2>1
<1>3. ASSUME NEW m \in 1..n, m - 1 \in S
      PROVE  m \in S
  <2>1. PICK f : Are(f, m - 1)
    BY <1>3
  <2> DEFINE last == step(m, {Reserved(f[k]) : k \in 1..(m - 1)})
             g == [i \in 1..m |-> IF i = m THEN last ELSE f[i]]
  <2>2. \A i \in 1..(m - 1) : f[i] = step(i, {Reserved(f[k]) : k \in 1..(i - 1)})
    BY <2>1
  <2>3. \A i \in 1..m : \A k \in 1..(i - 1) : k \in 1..m /\ k # m
    OBVIOUS
  <2>4. \A i \in 1..m : \A k \in 1..(i - 1) : g[k] = f[k]
    BY <2>3
  <2>5. ASSUME NEW i \in 1..m
        PROVE  g[i] = step(i, {Reserved(g[k]) : k \in 1..(i - 1)})
    <3>1. {Reserved(g[k]) : k \in 1..(i - 1)} = {Reserved(f[k]) : k \in 1..(i - 1)}
      BY <2>4
    <3>2. g[i] = step(i, {Reserved(f[k]) : k \in 1..(i - 1)})
      <4>1. CASE i = m
        BY <4>1
      <4>2. CASE i # m
        <5>1. i \in 1..(m - 1)
          BY <4>2
        <5>2. g[i] = f[i]
          BY <4>2
        <5> HIDE DEF step, g
        <5>3. QED
          BY <2>2, <5>1, <5>2
      <4>3. QED
        BY <4>1, <4>2
    <3> HIDE DEF g, step
    <3>3. QED
      BY <3>1, <3>2
  <2>6. DOMAIN g = 1..m /\ g = [i \in 1..m |-> g[i]]
    OBVIOUS
  <2> HIDE DEF g, step
  <2>7. Are(g, m)
    BY <2>5, <2>6
  <2>8. m \in 0..n
    OBVIOUS
  <2> HIDE DEF Are
  <2>9. QED
    BY <2>7, <2>8
<1>4. n \in S
  <2> HIDE DEF S
  <2>1. \A i \in 1..n : i - 1 \in S => i \in S
    BY <1>3
  <2>2. \A i \in 0..n : i \in S
    BY <1>1, <1>2, <2>1, UpTo
  <2>3. QED
    BY <1>1, <2>2
<1> DEFINE entries == Entries(document, visible)
<1>5. entries = CHOOSE f : Are(f, n)
  BY <1>1 DEF Entries
<1>6. Are(entries, n)
  <2>1. \E f : Are(f, n)
    BY <1>4
  <2> HIDE DEF Are, entries
  <2>2. QED
    BY <1>5, <2>1
<1>7. DOMAIN entries = 1..n
  BY <1>6
<1>8. Len(entries) = n
  BY <1>1, <1>7
<1>9. \A i \in 1..n : entries[i] = step(i, {Reserved(entries[k]) : k \in 1..(i - 1)})
  <2> HIDE DEF entries, step
  <2>1. QED
    BY <1>6
<1>10. QED
  BY <1>7, <1>8, <1>9

=============================================================================
