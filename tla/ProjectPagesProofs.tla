--------------------------- MODULE ProjectPagesProofs ---------------------------
(***************************************************************************)
(* Proofs about the pages of a project: the resolver of blueprints, for    *)
(* any catalogs, requirements and dependencies; the bootstrap factory; the *)
(* journey from a profile to a stored project; and the history of prompts  *)
(* over records that others write.                                         *)
(***************************************************************************)
EXTENDS ProjectPages, ConstitutionPagesProofs, WorkflowEvidenceProofs,
        SequenceTheorems, FunctionTheorems, FiniteSums

-----------------------------------------------------------------------------
(***************************************************************************)
(* Loops.  Induction is on sets of numbers; the function that Repeat       *)
(* chooses exists and its values keep an invariant J, a set of states, and *)
(* a measure mu tells when the loop has nothing left to do.                *)
(***************************************************************************)

LEMMA Induction ==
  ASSUME NEW K, 0 \in K, \A n \in Nat : n \in K => n + 1 \in K
  PROVE  \A n \in Nat : n \in K
  <1> SUFFICES ASSUME NEW n \in Nat, n \notin K PROVE FALSE
    OBVIOUS
  <1> DEFINE T == {0..m : m \in {k \in 0..n : k \notin K}}
  <1>1. T \subseteq SUBSET (0..n) /\ T # {}
    <2>1. \A k \in 0..n : 0..k \subseteq 0..n
      OBVIOUS
    <2>2. n \in 0..n
      OBVIOUS
    <2> QED BY <2>1, <2>2
  <1>2. IsFiniteSet(0..n)
    BY FS_Interval
  <1>3. PICK s \in T : \A t \in SUBSET s : t # s => t \notin T
    <2> HIDE DEF T
    <2> QED BY <1>1, <1>2, MinimalCounterexample
  <1>4. PICK m \in 0..n : m \notin K /\ s = 0..m
    BY <1>3
  <1>5. m # 0 /\ m - 1 \in Nat /\ m - 1 \in 0..n /\ (m - 1) + 1 = m
    BY <1>4
  <1>6. m - 1 \notin K
    BY <1>4, <1>5
  <1>7. 0..(m - 1) \in T
    BY <1>5, <1>6
  <1>8. 0..(m - 1) \in SUBSET s /\ 0..(m - 1) # s
    <2>1. m \in s /\ m \notin 0..(m - 1)
      BY <1>4
    <2>2. 0..(m - 1) \subseteq 0..m
      OBVIOUS
    <2> QED BY <1>4, <2>1, <2>2
  <1> QED BY <1>3, <1>7, <1>8

\* The first n rounds from s0.
Rounds(J, s0, step, g, n) ==
  /\ g \in [0..n -> J] /\ g[0] = s0
  /\ \A k \in 0..n : k + 1 \in 0..n => g[k + 1] = step[g[k]]

LEMMA RoundsExist ==
  ASSUME NEW J, NEW s0 \in J, NEW step \in [J -> J]
  PROVE  \A n \in Nat : \E g : Rounds(J, s0, step, g, n)
  <1> DEFINE K == {n \in Nat : \E g : Rounds(J, s0, step, g, n)}
  <1>1. 0 \in K
    <2> DEFINE g == [k \in 0..0 |-> s0]
    <2>1. Rounds(J, s0, step, g, 0)
      BY DEF Rounds
    <2> QED BY <2>1
  <1>2. ASSUME NEW n \in Nat, n \in K PROVE n + 1 \in K
    <2>1. PICK g : Rounds(J, s0, step, g, n)
      BY <1>2
    <2> DEFINE h == [k \in 0..(n + 1) |-> IF k = n + 1 THEN step[g[n]] ELSE g[k]]
    <2>2. /\ g \in [0..n -> J] /\ g[0] = s0 /\ n \in 0..n
          /\ \A k \in 0..n : k + 1 \in 0..n => g[k + 1] = step[g[k]]
      BY <2>1 DEF Rounds
    <2>3. h \in [0..(n + 1) -> J]
      <3>1. \A k \in 0..(n + 1) : k # n + 1 => k \in 0..n
        OBVIOUS
      <3> QED BY <2>2, <3>1
    <2>4. h[0] = s0
      BY <2>2
    <2>5. ASSUME NEW k \in 0..(n + 1), k + 1 \in 0..(n + 1)
          PROVE  h[k + 1] = step[h[k]]
      <3>1. k \in 0..n /\ k # n + 1 /\ h[k] = g[k]
        BY <2>5
      <3>2. CASE k = n
        BY <3>1, <3>2
      <3>3. CASE k # n
        BY <3>1, <3>3, <2>2
      <3> QED BY <3>2, <3>3
    <2>6. Rounds(J, s0, step, h, n + 1)
      <3> HIDE DEF h
      <3> QED BY <2>3, <2>4, <2>5 DEF Rounds
    <2> QED BY <2>6
  <1> HIDE DEF K
  <1>3. \A n \in Nat : n \in K
    BY <1>1, <1>2, Induction
  <1> QED BY <1>3 DEF K

LEMMA RoundsAgree ==
  ASSUME NEW J, NEW s0, NEW step,
         NEW m \in Nat, NEW n \in Nat, NEW g, NEW h,
         Rounds(J, s0, step, g, m), Rounds(J, s0, step, h, n)
  PROVE  \A k \in Nat : k <= m /\ k <= n => g[k] = h[k]
  <1> DEFINE K == {k \in Nat : k <= m /\ k <= n => g[k] = h[k]}
  <1>1. 0 \in K
    BY DEF Rounds
  <1>2. ASSUME NEW k \in Nat, k \in K PROVE k + 1 \in K
    <2> SUFFICES ASSUME k + 1 <= m, k + 1 <= n PROVE g[k + 1] = h[k + 1]
      OBVIOUS
    <2>1. k \in 0..m /\ k + 1 \in 0..m /\ k \in 0..n /\ k + 1 \in 0..n
      OBVIOUS
    <2>2. g[k] = h[k]
      BY <1>2
    <2> QED BY <2>1, <2>2 DEF Rounds
  <1> HIDE DEF K
  <1>3. \A k \in Nat : k \in K
    BY <1>1, <1>2, Induction
  <1> QED BY <1>3 DEF K

LEMMA LoopExists ==
  ASSUME NEW J, NEW s0 \in J, NEW step \in [J -> J]
  PROVE  \E f \in [Nat -> J] : f[0] = s0 /\ \A n \in Nat : f[n + 1] = step[f[n]]
  <1> DEFINE g(n) == CHOOSE h : Rounds(J, s0, step, h, n)
             f == [n \in Nat |-> g(n)[n]]
  <1>1. \A n \in Nat : Rounds(J, s0, step, g(n), n)
    BY RoundsExist
  <1> HIDE DEF g
  <1>2. f \in [Nat -> J]
    BY <1>1 DEF Rounds
  <1>3. f[0] = s0
    BY <1>1 DEF Rounds
  <1>4. ASSUME NEW n \in Nat PROVE f[n + 1] = step[f[n]]
    <2>1. g(n + 1)[n + 1] = step[g(n + 1)[n]]
      <3>1. n + 1 \in Nat /\ n \in 0..(n + 1) /\ n + 1 \in 0..(n + 1)
        OBVIOUS
      <3> QED BY <3>1, <1>1 DEF Rounds
    <2>2. g(n + 1)[n] = g(n)[n]
      <3>1. n + 1 \in Nat /\ n <= n /\ n <= n + 1
        OBVIOUS
      <3>2. Rounds(J, s0, step, g(n + 1), n + 1) /\ Rounds(J, s0, step, g(n), n)
        BY <1>1, <3>1
      <3> QED BY <3>1, <3>2, RoundsAgree
    <2> QED BY <2>1, <2>2
  <1> QED BY <1>2, <1>3, <1>4

\* g are the rounds of a loop that runs down mu.
IsLoop(J, s0, step, mu, g) ==
  /\ s0 \in J /\ step \in [J -> J] /\ mu \in [J -> Nat]
  /\ \A s \in J : mu[step[s]] = 0 \/ mu[step[s]] < mu[s]
  /\ g[0] = s0 /\ \A k \in Nat : g[k] \in J => g[k + 1] = step[g[k]]

(* What a loop that runs long enough has reached. *)
LEMMA LoopEnds ==
  ASSUME NEW J, NEW s0, NEW step, NEW mu, NEW g, IsLoop(J, s0, step, mu, g),
         NEW n \in Nat, mu[s0] <= n
  PROVE  g[n] \in J /\ mu[g[n]] = 0
  <1> USE DEF IsLoop
  <1> DEFINE K == {k \in Nat : g[k] \in J /\ (mu[g[k]] = 0 \/ mu[g[k]] + k <= mu[s0])}
  <1>1. 0 \in K
    OBVIOUS
  <1>2. ASSUME NEW k \in Nat, k \in K PROVE k + 1 \in K
    <2>1. g[k] \in J /\ g[k + 1] = step[g[k]] /\ g[k + 1] \in J
      BY <1>2
    <2>2. mu[g[k + 1]] = 0 \/ mu[g[k + 1]] < mu[g[k]]
      BY <2>1
    <2>3. mu[g[k]] \in Nat /\ mu[g[k + 1]] \in Nat /\ mu[s0] \in Nat
      BY <2>1
    <2> QED BY <1>2, <2>1, <2>2, <2>3
  <1> HIDE DEF K
  <1>3. n \in K
    BY <1>1, <1>2, Induction
  <1>4. g[n] \in J /\ mu[g[n]] \in Nat /\ mu[s0] \in Nat
    BY <1>3 DEF K
  <1> QED BY <1>3, <1>4 DEF K

LEMMA MinimalExists ==
  ASSUME NEW S, IsFiniteSet(S), S # {}, NEW R, \A x \in S : <<x, x>> \notin R,
         \A x, y, z \in S : <<x, y>> \in R /\ <<y, z>> \in R => <<x, z>> \in R
  PROVE  \E x \in S : \A y \in S : <<y, x>> \notin R
  <1> DEFINE Below(x) == {y \in S : <<y, x>> \in R}
             T == {Below(x) : x \in S}
  <1>1. T \subseteq SUBSET S /\ T # {}
    <2>1. \A x \in S : Below(x) \in T
      OBVIOUS
    <2> QED BY <2>1
  <1>2. PICK s \in T : \A t \in SUBSET s : t # s => t \notin T
    <2> HIDE DEF T
    <2> QED BY <1>1, MinimalCounterexample
  <1>3. PICK x \in S : s = Below(x)
    BY <1>2
  <1>4. ASSUME NEW y \in S, <<y, x>> \in R PROVE FALSE
    <2>1. y \in Below(x) /\ y \notin Below(y)
      BY <1>4
    <2>2. Below(y) \subseteq Below(x)
      BY <1>4
    <2>3. Below(y) \in T
      OBVIOUS
    <2> QED BY <1>2, <1>3, <2>1, <2>2, <2>3
  <1> QED BY <1>4

LEMMA FirstIdIs ==
  ASSUME NEW S, S \subseteq Ids, S # {}
  PROVE  FirstId(S) \in S
  <1> DEFINE R == {p \in S \X S : IdRank[p[1]] < IdRank[p[2]]}
  <1>1. IsFiniteSet(S)
    BY FS_Subset, ResolverAssumption
  <1>2. \A i \in S : IdRank[i] \in Nat
    BY ResolverAssumption
  <1>3. \A x, y \in S : <<x, y>> \in R <=> IdRank[x] < IdRank[y]
    OBVIOUS
  <1> HIDE DEF R
  <1>4. \A x \in S : <<x, x>> \notin R
    BY <1>2, <1>3
  <1>5. \A x, y, z \in S : <<x, y>> \in R /\ <<y, z>> \in R => <<x, z>> \in R
    BY <1>2, <1>3
  <1>6. \E x \in S : \A y \in S : <<y, x>> \notin R
    BY <1>1, <1>4, <1>5, MinimalExists
  <1>7. \E x \in S : \A y \in S : IdRank[x] <= IdRank[y]
    <2>1. PICK x \in S : \A y \in S : <<y, x>> \notin R
      BY <1>6
    <2>2. \A y \in S : ~(IdRank[y] < IdRank[x])
      BY <1>3, <2>1
    <2>3. \A y \in S : IdRank[x] <= IdRank[y]
      BY <1>2, <2>2
    <2> QED BY <2>3
  <1> QED BY <1>7 DEF FirstId

-----------------------------------------------------------------------------
(***************************************************************************)
(* Merging.                                                                *)
(***************************************************************************)

IsCatalog(templates) == IsFiniteSet(templates) /\ \A t \in templates : IsTemplate(t)
AreItems(items) ==
  IsFiniteSet(items) /\ \A x \in items :
    /\ x = <<x[1], x[2]>> /\ x[2] \in Nat /\ IsRequirement(Asked(x))
    /\ x[1].id \in Nat /\ x[1].rank \in Nat
AskedBy(items) == {Asked(x) : x \in items}

LEMMA ItemsAsk ==
  ASSUME NEW profile, NEW templates, IsCatalog(templates)
  PROVE  /\ AreItems(AskedItems(profile, templates))
         /\ AskedBy(AskedItems(profile, templates)) = AllAsked(profile, templates)
  <1> DEFINE active == {u \in templates : IsActive(profile, u)}
             items == AskedItems(profile, templates)
  <1>1. \A x : x \in items <=> \E t \in active : x \in {t} \X DOMAIN t.requirements
    BY DEF AskedItems
  <1>2. IsFiniteSet(items)
    <2>1. \A s \in {{t} \X DOMAIN t.requirements : t \in active} : IsFiniteSet(s)
      <3> SUFFICES ASSUME NEW t \in active PROVE IsFiniteSet({t} \X DOMAIN t.requirements)
        OBVIOUS
      <3>1. IsFiniteSet(DOMAIN t.requirements)
        BY DEF IsCatalog, IsTemplate
      <3> QED BY <3>1, FS_Product, FS_Singleton
    <2>2. IsFiniteSet(active)
      BY FS_Subset DEF IsCatalog
    <2>3. IsFiniteSet({{t} \X DOMAIN t.requirements : t \in active})
      <3> DEFINE F(t) == {t} \X DOMAIN t.requirements
      <3>1. IsFiniteSet({F(t) : t \in active})
        <4> HIDE DEF F, active
        <4>1. [t \in active |-> F(t)] \in Surjection(active, {F(t) : t \in active})
          BY DEF Surjection
        <4> QED BY <4>1, <2>2, FS_Surjection
      <3> QED BY <3>1
    <2> HIDE DEF active
    <2> QED BY <2>1, <2>3, FS_UNION DEF items, AskedItems, active
  <1>3. ASSUME NEW x \in items
        PROVE  /\ x = <<x[1], x[2]>> /\ x[2] \in Nat /\ IsRequirement(Asked(x))
               /\ x[1].id \in Nat /\ x[1].rank \in Nat
               /\ x[1] \in active /\ x[2] \in DOMAIN x[1].requirements
    <2>1. PICK t \in active : x \in {t} \X DOMAIN t.requirements
      BY <1>1
    <2>2. x = <<x[1], x[2]>> /\ x[1] = t /\ x[2] \in DOMAIN t.requirements
      BY <2>1
    <2>3. IsTemplate(t)
      BY DEF IsCatalog
    <2> QED BY <2>2, <2>3 DEF IsTemplate, Asked
  <1>4. AskedBy(items) \subseteq AllAsked(profile, templates)
    <2> HIDE DEF items, active
    <2> QED BY <1>3 DEF AskedBy, AllAsked, Asked, active
  <1>5. AllAsked(profile, templates) \subseteq AskedBy(items)
    <2> SUFFICES ASSUME NEW t \in active, NEW n \in DOMAIN t.requirements
                 PROVE  t.requirements[n] \in AskedBy(items)
      BY DEF AllAsked
    <2>1. <<t, n>> \in items
      BY <1>1
    <2>2. Asked(<<t, n>>) = t.requirements[n]
      BY DEF Asked
    <2> HIDE DEF items
    <2> QED BY <2>1, <2>2 DEF AskedBy
  <1> QED BY <1>2, <1>3, <1>4, <1>5 DEF AreItems

LEMMA BeforeIsTransitive ==
  ASSUME NEW items, AreItems(items), NEW x \in items, NEW y \in items, NEW z \in items,
         Before(x, y), Before(y, z)
  PROVE  Before(x, z)
  <1>1. /\ Asked(x).id \in Ids /\ Asked(y).id \in Ids /\ Asked(z).id \in Ids
        /\ IdRank[Asked(x).id] \in Nat /\ IdRank[Asked(y).id] \in Nat
        /\ IdRank[Asked(z).id] \in Nat
        /\ {Asked(x).kind, Asked(y).kind, Asked(z).kind} \subseteq {"module", "gate"}
    BY ResolverAssumption DEF AreItems, IsRequirement
  <1>2. /\ x[2] \in Nat /\ y[2] \in Nat /\ z[2] \in Nat
        /\ x[1].id \in Nat /\ y[1].id \in Nat /\ z[1].id \in Nat
        /\ x[1].rank \in Nat /\ y[1].rank \in Nat /\ z[1].rank \in Nat
    BY DEF AreItems
  <1>3. CASE CompareTemplates(x[1], y[1]) \/ CompareTemplates(y[1], z[1])
    BY <1>2, <1>3 DEF Before, CompareTemplates
  <1>4. CASE ~CompareTemplates(x[1], y[1]) /\ ~CompareTemplates(y[1], z[1])
    <2>1. x[1] = y[1] /\ y[1] = z[1]
      BY <1>4 DEF Before
    <2> DEFINE q == Asked(x)  r == Asked(y)  s == Asked(z)
    <2>2. /\ CompareRequirements(q, r) \/ (x[2] < y[2] /\ ~CompareRequirements(r, q))
          /\ CompareRequirements(r, s) \/ (y[2] < z[2] /\ ~CompareRequirements(s, r))
      BY <1>4 DEF Before
    <2>3. \A i, j \in Ids : IdRank[i] = IdRank[j] => i = j
      BY ResolverAssumption
    <2>4. CompareRequirements(q, s) \/ (x[2] < z[2] /\ ~CompareRequirements(s, q))
      <3> HIDE DEF q, r, s
      <3> SUFFICES ASSUME NEW i \in Ids, NEW j \in Ids, NEW k \in Ids,
                          i = q.id, j = r.id, k = s.id
                   PROVE  CompareRequirements(q, s) \/ (x[2] < z[2] /\ ~CompareRequirements(s, q))
        BY <1>1 DEF q, r, s
      <3>1. IdRank[i] \in Nat /\ IdRank[j] \in Nat /\ IdRank[k] \in Nat
        BY ResolverAssumption
      <3>2. {q.kind, r.kind, s.kind} \subseteq {"module", "gate"}
        BY <1>1 DEF q, r, s
      <3> QED BY <1>2, <2>2, <2>3, <3>1, <3>2 DEF CompareRequirements
    <2> QED BY <2>1, <2>4 DEF Before
  <1> QED BY <1>3, <1>4

LEMMA FirstItemIs ==
  ASSUME NEW items, AreItems(items), items # {}
  PROVE  \E x \in items : \A y \in items : ~Before(y, x)
  <1> DEFINE R == {p \in items \X items : Before(p[1], p[2])}
  <1>1. \A x, y \in items : <<x, y>> \in R <=> Before(x, y)
    OBVIOUS
  <1> HIDE DEF R
  <1>2. ASSUME NEW x \in items PROVE ~Before(x, x)
    BY ResolverAssumption
       DEF Before, CompareTemplates, CompareRequirements, AreItems, IsRequirement
  <1>3. \A x, y, z \in items : <<x, y>> \in R /\ <<y, z>> \in R => <<x, z>> \in R
    BY <1>1, BeforeIsTransitive
  <1>4. \A x \in items : <<x, x>> \notin R
    BY <1>1, <1>2
  <1>5. \E x \in items : \A y \in items : <<y, x>> \notin R
    BY <1>3, <1>4, MinimalExists DEF AreItems
  <1> QED BY <1>1, <1>5

\* What the entry of an id is after the requirements D.
RequirementEntries(C) == [kind : {"module", "gate"}, required : BOOLEAN, depth : 0..3,
               dependsOn : SUBSET Ids, constraint : C]
EntryOf(D, i, e) ==
  /\ \A q \in D : q.id = i =>
       /\ q.kind = e.kind /\ q.constraint \in {NoConstraint, e.constraint}
       /\ q.depth <= e.depth /\ q.dependsOn \subseteq e.dependsOn
       /\ q.required => e.required
  /\ e.required => \E q \in D : q.id = i /\ q.required
  /\ \E q \in D : q.id = i /\ q.depth = e.depth
  /\ \A d \in e.dependsOn : \E q \in D : q.id = i /\ d \in q.dependsOn
  /\ e.constraint # NoConstraint => \E q \in D : q.id = i /\ q.constraint = e.constraint

MergedOf(D, C, m) ==
  /\ m.merged \in [{q.id : q \in D} -> RequirementEntries(C)]
  /\ m.conflicts = {} <=> Compatible(D)
  /\ m.conflicts = {} => \A i \in DOMAIN m.merged : EntryOf(D, i, m.merged[i])

LEMMA FirstAsked ==
  ASSUME NEW D, NEW C, NEW m, MergedOf(D, C, m), \A q \in D : IsRequirement(q),
         NEW r, IsRequirement(r), r.constraint \in C, r.id \notin DOMAIN m.merged,
         m = [left |-> m.left, merged |-> m.merged, conflicts |-> m.conflicts]
  PROVE  MergedOf(D \union {r}, C, MergeRequirement(m, r))
  <1> DEFINE n == MergeRequirement(m, r)
             E == D \union {r}
             e == [kind |-> r.kind, required |-> r.required, depth |-> r.depth,
                   dependsOn |-> r.dependsOn, constraint |-> r.constraint]
  <1>1. /\ n.merged = [i \in DOMAIN m.merged \union {r.id} |->
                        IF i = r.id THEN e ELSE m.merged[i]]
        /\ n.conflicts = m.conflicts
    BY DEF MergeRequirement
  <1>2. DOMAIN m.merged = {q.id : q \in D} /\ \A i \in DOMAIN m.merged : m.merged[i] \in RequirementEntries(C)
    BY DEF MergedOf
  <1>3. e \in RequirementEntries(C)
    BY DEF RequirementEntries, IsRequirement
  <1>4. DOMAIN m.merged \union {r.id} = {q.id : q \in E}
    BY <1>2
  <1>5. n.merged \in [{q.id : q \in E} -> RequirementEntries(C)]
    <2> HIDE DEF n, E, e
    <2> QED BY <1>1, <1>2, <1>3, <1>4
  <1>6. \A q \in D : q.id # r.id
    BY <1>2
  <1>7. Compatible(E) <=> Compatible(D)
    BY <1>6 DEF Compatible
  <1>8. ASSUME n.conflicts = {}, NEW i \in DOMAIN n.merged PROVE EntryOf(E, i, n.merged[i])
    <2>1. CASE i = r.id
      <3>1. n.merged[i] = e
        BY <1>1, <2>1
      <3>2. \A q \in E : q.id = i => q = r
        BY <1>6, <2>1
      <3>3. r \in E /\ r.depth <= r.depth
        BY DEF IsRequirement
      <3> HIDE DEF n, E
      <3> QED BY <2>1, <3>1, <3>2, <3>3 DEF EntryOf
    <2>2. CASE i # r.id
      <3>1. n.merged[i] = m.merged[i] /\ i \in DOMAIN m.merged
        BY <1>1, <2>2
      <3>2. EntryOf(D, i, m.merged[i])
        BY <1>1, <1>8, <3>1 DEF MergedOf
      <3>3. \A q : q.id = i => (q \in E <=> q \in D)
        BY <2>2
      <3> HIDE DEF n, E
      <3> QED BY <3>1, <3>2, <3>3 DEF EntryOf
    <2> QED BY <2>1, <2>2
  <1> HIDE DEF n, E, e
  <1>9. n.conflicts = {} <=> Compatible(E)
    BY <1>1, <1>7 DEF MergedOf
  <1>10. MergedOf(E, C, n)
    <2>1. n.conflicts = {} => \A i \in DOMAIN n.merged : EntryOf(E, i, n.merged[i])
      BY <1>8
    <2> QED BY <1>5, <1>9, <2>1 DEF MergedOf
  <1> QED BY <1>10 DEF n, E

LEMMA AskedAgain ==
  ASSUME NEW D, NEW C, NEW m, MergedOf(D, C, m), \A q \in D : IsRequirement(q),
         NEW r, IsRequirement(r), r.constraint \in C, r.id \in DOMAIN m.merged,
         m = [left |-> m.left, merged |-> m.merged, conflicts |-> m.conflicts]
  PROVE  MergedOf(D \union {r}, C, MergeRequirement(m, r))
  <1> DEFINE n == MergeRequirement(m, r)
             E == D \union {r}
             old == m.merged[r.id]
             kept == IF old.constraint = NoConstraint THEN r.constraint ELSE old.constraint
             e == [kind |-> old.kind, required |-> old.required \/ r.required,
                   depth |-> Stricter(old.depth, r.depth),
                   dependsOn |-> old.dependsOn \union r.dependsOn, constraint |-> kept]
  <1>1. /\ DOMAIN m.merged = {q.id : q \in D} /\ \A i \in DOMAIN m.merged : m.merged[i] \in RequirementEntries(C)
        /\ DOMAIN m.merged \union {r.id} = DOMAIN m.merged
    BY DEF MergedOf
  <1>2. {q.id : q \in E} = {q.id : q \in D}
    BY <1>1
  <1>3. PICK q \in D : q.id = r.id
    BY <1>1
  <1>4. Compatible(E) => Compatible(D)
    BY DEF Compatible
  <1>5. CASE old.kind # r.kind
    <2>1. n.merged = m.merged /\ n.conflicts # {}
      BY <1>5 DEF MergeRequirement
    <2>2. ~Compatible(E)
      <3>1. CASE m.conflicts # {}
        BY <3>1, <1>4 DEF MergedOf
      <3>2. CASE m.conflicts = {}
        <4>1. q.kind = old.kind
          BY <1>3, <3>2 DEF MergedOf, EntryOf
        <4> QED BY <1>3, <1>5, <4>1 DEF Compatible
      <3> QED BY <3>1, <3>2
    <2> HIDE DEF n, E
    <2>3. MergedOf(E, C, n)
      BY <1>2, <2>1, <2>2 DEF MergedOf
    <2> QED BY <2>3 DEF n, E
  <1>6. CASE old.kind = r.kind
    <2>1. /\ n.merged = [i \in DOMAIN m.merged |-> IF i = r.id THEN e ELSE m.merged[i]]
          /\ n.conflicts = IF r.constraint \in {NoConstraint, kept} THEN m.conflicts
                           ELSE m.conflicts \union {Conflict("INCOMPATIBLE_VALUE", r.id, "constraint")}
      BY <1>1, <1>6 DEF MergeRequirement
    <2>2. e \in RequirementEntries(C)
      <3>1. old \in RequirementEntries(C)
        BY <1>1
      <3> QED BY <3>1 DEF RequirementEntries, IsRequirement, Stricter
    <2>3. n.merged \in [{p.id : p \in E} -> RequirementEntries(C)]
      <3> HIDE DEF n, E, e
      <3> QED BY <1>1, <1>2, <2>1, <2>2
    <2>4. CASE m.conflicts # {}
      <3>1. n.conflicts # {} /\ ~Compatible(E)
        BY <2>1, <2>4, <1>4 DEF MergedOf
      <3> HIDE DEF n, E
      <3>2. MergedOf(E, C, n)
        BY <2>3, <3>1 DEF MergedOf
      <3> QED BY <3>2 DEF n, E
    <2>5. CASE m.conflicts = {} /\ r.constraint \notin {NoConstraint, kept}
      <3>1. EntryOf(D, r.id, old)
        BY <2>5 DEF MergedOf
      <3>2. old.constraint # NoConstraint /\ kept = old.constraint
        BY <2>5
      <3>3. PICK p \in D : p.id = r.id /\ p.constraint = old.constraint
        BY <3>1, <3>2 DEF EntryOf
      <3>4. ~Compatible(E)
        BY <2>5, <3>2, <3>3 DEF Compatible
      <3>5. n.conflicts # {}
        BY <2>1, <2>5
      <3> HIDE DEF n, E
      <3>6. MergedOf(E, C, n)
        BY <2>3, <3>4, <3>5 DEF MergedOf
      <3> QED BY <3>6 DEF n, E
    <2>6. CASE m.conflicts = {} /\ r.constraint \in {NoConstraint, kept}
      <3>1. EntryOf(D, r.id, old) /\ Compatible(D)
        BY <2>6 DEF MergedOf
      <3>2. \A p \in D : p.id = r.id =>
              p.kind = r.kind /\ p.constraint \in {NoConstraint, old.constraint}
        BY <3>1, <1>6 DEF EntryOf
      <3>3. \A p \in D : p.id = r.id =>
              NoConstraint \in {p.constraint, r.constraint} \/ p.constraint = r.constraint
        BY <2>6, <3>2
      <3>4. Compatible(E)
        BY <3>1, <3>2, <3>3 DEF Compatible
      <3>5. EntryOf(E, r.id, e)
        <4>1. old \in RequirementEntries(C)
          BY <1>1
        <4>2. old.depth \in Nat /\ r.depth \in Nat /\ old.required \in BOOLEAN /\ r.required \in BOOLEAN
          BY <4>1 DEF RequirementEntries, IsRequirement
        <4>3. \A p \in D : p.depth \in Nat
          BY DEF IsRequirement
        <4>4. ASSUME NEW p \in E, p.id = r.id
              PROVE  /\ p.kind = e.kind /\ p.constraint \in {NoConstraint, e.constraint}
                     /\ p.depth <= e.depth /\ p.dependsOn \subseteq e.dependsOn
                     /\ p.required => e.required
          <5>1. CASE p \in D
            <6>1. /\ p.kind = old.kind /\ p.constraint \in {NoConstraint, old.constraint}
                  /\ p.depth <= old.depth /\ p.dependsOn \subseteq old.dependsOn
                  /\ p.required => old.required
              BY <3>1, <4>4, <5>1 DEF EntryOf
            <6> QED BY <4>2, <4>3, <5>1, <6>1 DEF Stricter
          <5>2. CASE p = r
            BY <1>6, <2>6, <4>2, <5>2 DEF Stricter
          <5> QED BY <5>1, <5>2
        <4>5. e.required => \E p \in E : p.id = r.id /\ p.required
          BY <3>1 DEF EntryOf
        <4>6. \E p \in E : p.id = r.id /\ p.depth = e.depth
          <5>1. e.depth = old.depth \/ e.depth = r.depth
            BY DEF Stricter
          <5> QED BY <3>1, <5>1 DEF EntryOf
        <4>7. \A d \in e.dependsOn : \E p \in E : p.id = r.id /\ d \in p.dependsOn
          BY <3>1 DEF EntryOf
        <4>8. e.constraint # NoConstraint => \E p \in E : p.id = r.id /\ p.constraint = e.constraint
          BY <3>1 DEF EntryOf
        <4> HIDE DEF E, e
        <4> QED BY <4>4, <4>5, <4>6, <4>7, <4>8 DEF EntryOf
      <3>6. ASSUME NEW i \in DOMAIN n.merged PROVE EntryOf(E, i, n.merged[i])
        <4>1. CASE i = r.id
          BY <2>1, <3>5, <4>1
        <4>2. CASE i # r.id
          <5>1. n.merged[i] = m.merged[i] /\ i \in DOMAIN m.merged
            BY <2>1, <4>2
          <5>2. EntryOf(D, i, m.merged[i])
            BY <2>6, <5>1 DEF MergedOf
          <5>3. \A p : p.id = i => (p \in E <=> p \in D)
            BY <4>2
          <5> HIDE DEF n, E
          <5> QED BY <5>1, <5>2, <5>3 DEF EntryOf
        <4> QED BY <4>1, <4>2
      <3>7. n.conflicts = {}
        BY <2>1, <2>6
      <3> HIDE DEF n, E
      <3>8. MergedOf(E, C, n)
        BY <2>3, <3>4, <3>6, <3>7 DEF MergedOf
      <3> QED BY <3>8 DEF n, E
    <2> QED BY <2>4, <2>5, <2>6
  <1> QED BY <1>5, <1>6

Constraints(items) == {Asked(x).constraint : x \in items}
Conflicts ==
  [kind : {"INCOMPATIBLE_VALUE", "MISSING_DEPENDENCY"}, target : Ids,
   field : {"kind", "constraint", "dependsOn"}]
MergeStates(items) ==
  {m \in [left : SUBSET items,
          merged : UNION {[S -> RequirementEntries(Constraints(items))] : S \in SUBSET Ids},
          conflicts : SUBSET Conflicts] :
     MergedOf(AskedBy(items \ m.left), Constraints(items), m)}

LEMMA MergeStep ==
  ASSUME NEW items, AreItems(items), NEW m \in MergeStates(items)
  PROVE  /\ MergeNext(m) \in MergeStates(items)
         /\ \/ m.left = {} /\ MergeNext(m) = m
            \/ \E x \in m.left : MergeNext(m).left = m.left \ {x}
  <1> DEFINE C == Constraints(items)
             D == AskedBy(items \ m.left)
             x == CHOOSE x \in m.left : \A y \in m.left : ~Before(y, x)
             r == Asked(x)
             n == MergeRequirement(m, r)
  <1>1. /\ m.left \subseteq items /\ m.conflicts \subseteq Conflicts /\ MergedOf(D, C, m)
        /\ m = [left |-> m.left, merged |-> m.merged, conflicts |-> m.conflicts]
    BY DEF MergeStates
  <1>2. CASE m.left = {}
    BY <1>2 DEF MergeNext
  <1>3. CASE m.left # {}
    <2>1. AreItems(m.left)
      BY <1>1, FS_Subset DEF AreItems
    <2>2. x \in m.left
      <3>1. \E z \in m.left : \A y \in m.left : ~Before(y, z)
        BY <1>3, <2>1, FirstItemIs
      <3> QED BY <3>1
    <2> HIDE DEF x
    <2>3. IsRequirement(r) /\ r.constraint \in C
      BY <1>1, <2>2 DEF AreItems, Constraints
    <2>4. \A q \in D : IsRequirement(q)
      BY DEF AreItems, AskedBy
    <2>5. AskedBy(items \ (m.left \ {x})) = D \union {r}
      BY <1>1, <2>2 DEF AskedBy
    <2>6. MergedOf(D \union {r}, C, n)
      <3> HIDE DEF C, D, r, n
      <3>1. CASE r.id \in DOMAIN m.merged
        BY <1>1, <2>3, <2>4, <3>1, AskedAgain DEF n
      <3>2. CASE r.id \notin DOMAIN m.merged
        BY <1>1, <2>3, <2>4, <3>2, FirstAsked DEF n
      <3> QED BY <3>1, <3>2
    <2>7. /\ n = [left |-> m.left, merged |-> n.merged, conflicts |-> n.conflicts]
          /\ n.conflicts \subseteq Conflicts
      <3>1. r.id \in Ids
        BY <2>3 DEF IsRequirement
      <3>2. \A field \in {"kind", "constraint"} : Conflict("INCOMPATIBLE_VALUE", r.id, field) \in Conflicts
        BY <3>1 DEF Conflict, Conflicts
      <3> HIDE DEF r
      <3>3. \/ n = [m EXCEPT !.merged = n.merged]
            \/ \E field \in {"kind", "constraint"} :
                 n = [m EXCEPT !.merged = n.merged, !.conflicts = @ \union
                        {Conflict("INCOMPATIBLE_VALUE", r.id, field)}]
        BY <1>1 DEF MergeRequirement
      <3> QED BY <1>1, <3>2, <3>3
    <2>8. MergeNext(m) = [n EXCEPT !.left = @ \ {x}]
      BY <1>3 DEF MergeNext, x
    <2> DEFINE o == [left |-> m.left \ {x}, merged |-> n.merged, conflicts |-> n.conflicts]
    <2>9. MergeNext(m) = o
      BY <2>7, <2>8
    <2>10. MergedOf(AskedBy(items \ o.left), C, o)
      BY <2>5, <2>6 DEF MergedOf
    <2>11. n.merged \in UNION {[S -> RequirementEntries(C)] : S \in SUBSET Ids}
      <3>1. n.merged \in [{q.id : q \in D \union {r}} -> RequirementEntries(C)]
        BY <2>6 DEF MergedOf
      <3>2. {q.id : q \in D \union {r}} \subseteq Ids
        BY <2>3, <2>4 DEF IsRequirement
      <3> HIDE DEF n, D, r, C
      <3> QED BY <3>1, <3>2
    <2>12. o \in MergeStates(items)
      <3>1. o \in [left : SUBSET items,
                    merged : UNION {[S -> RequirementEntries(C)] : S \in SUBSET Ids},
                    conflicts : SUBSET Conflicts]
        <4> HIDE DEF n, C
        <4> QED BY <1>1, <2>7, <2>11
      <3> HIDE DEF o
      <3> QED BY <2>10, <3>1 DEF MergeStates
    <2> QED BY <2>2, <2>9, <2>12
  <1> QED BY <1>2, <1>3

(* What merging the requirements one by one comes to. *)
LEMMA MergingIs ==
  ASSUME NEW items, AreItems(items)
  PROVE  /\ MergedOf(AskedBy(items), Constraints(items), Merging(items))
         /\ Merging(items).conflicts \subseteq Conflicts
  <1> DEFINE J == MergeStates(items)
             s0 == [left |-> items, merged |-> [i \in {} |-> {}], conflicts |-> {}]
             step == [m \in J |-> MergeNext(m)]
             mu == [m \in J |-> Cardinality(m.left)]
             n == Cardinality(items)
             g == CHOOSE f : f = [k \in Nat |-> IF k = 0 THEN s0 ELSE MergeNext(f[k - 1])]
  <1>1. s0 \in J
    <2>1. AskedBy(items \ s0.left) = {}
      BY DEF AskedBy
    <2>2. MergedOf({}, Constraints(items), s0)
      BY DEF MergedOf, Compatible
    <2>3. s0.merged \in [{} -> RequirementEntries(Constraints(items))]
      OBVIOUS
    <2>4. s0.merged \in UNION {[S -> RequirementEntries(Constraints(items))] : S \in SUBSET Ids}
      <3> HIDE DEF s0
      <3> QED BY <2>3
    <2>5. s0 \in [left : SUBSET items,
                   merged : UNION {[S -> RequirementEntries(Constraints(items))] : S \in SUBSET Ids},
                   conflicts : SUBSET Conflicts]
      BY <2>4
    <2> HIDE DEF s0
    <2> QED BY <2>1, <2>2, <2>5 DEF MergeStates
  <1>2. step \in [J -> J]
    BY MergeStep
  <1>3. \A m \in J : IsFiniteSet(m.left)
    BY FS_Subset DEF MergeStates, AreItems
  <1>4. mu \in [J -> Nat]
    BY <1>3, FS_CardinalityType
  <1>5. ASSUME NEW m \in J PROVE mu[step[m]] = 0 \/ mu[step[m]] < mu[m]
    <2>1. step[m] = MergeNext(m) /\ MergeNext(m) \in J
      BY MergeStep
    <2>2. CASE m.left = {}
      <3>1. MergeNext(m) = m
        BY <2>2, MergeStep
      <3> QED BY <2>1, <2>2, <3>1, FS_EmptySet
    <2>3. CASE m.left # {}
      <3>1. PICK x \in m.left : MergeNext(m).left = m.left \ {x}
        BY <2>3, MergeStep
      <3>2. Cardinality(m.left \ {x}) = Cardinality(m.left) - 1 /\ Cardinality(m.left) \in Nat
        BY <1>3, FS_RemoveElement, FS_CardinalityType
      <3> QED BY <2>1, <3>1, <3>2
    <2> QED BY <2>2, <2>3
  <1>6. PICK f \in [Nat -> J] : f[0] = s0 /\ \A k \in Nat : f[k + 1] = step[f[k]]
    <2> HIDE DEF J, s0, step
    <2> QED BY <1>1, <1>2, LoopExists
  <1>7. f = [k \in Nat |-> IF k = 0 THEN s0 ELSE MergeNext(f[k - 1])]
    <2> HIDE DEF s0, J
    <2>1. ASSUME NEW k \in Nat, k # 0 PROVE f[k] = MergeNext(f[k - 1])
      <3>1. k - 1 \in Nat /\ (k - 1) + 1 = k /\ f[k - 1] \in J
        BY <2>1
      <3> QED BY <1>6, <3>1
    <2> QED BY <1>6, <2>1
  <1>8. g = [k \in Nat |-> IF k = 0 THEN s0 ELSE MergeNext(g[k - 1])]
    <2> HIDE DEF s0
    <2> QED BY <1>7
  <1>9. Merging(items) = g[n]
    BY DEF Merging, Repeat
  <1> HIDE DEF g
  <1>10. g[0] = s0 /\ \A k \in Nat : g[k] \in J => g[k + 1] = step[g[k]]
    <2> HIDE DEF s0, J
    <2>1. \A k \in Nat : k + 1 \in Nat /\ k + 1 # 0 /\ (k + 1) - 1 = k
      OBVIOUS
    <2> QED BY <1>8, <2>1
  <1>11. n \in Nat /\ mu[s0] <= n
    BY <1>1, FS_CardinalityType DEF AreItems
  <1>12. g[n] \in J /\ mu[g[n]] = 0
    <2> HIDE DEF s0, J, step, mu, n
    <2>1. IsLoop(J, s0, step, mu, g)
      BY <1>1, <1>2, <1>4, <1>5, <1>10 DEF IsLoop
    <2> QED BY <1>11, <2>1, LoopEnds
  <1>13. g[n].left = {}
    BY <1>3, <1>12, FS_EmptySet
  <1> QED BY <1>9, <1>12, <1>13 DEF MergeStates

-----------------------------------------------------------------------------
(***************************************************************************)
(* The closure.                                                            *)
(***************************************************************************)

\* What the walk over dependencies needs of the merged requirements.
IsWalkable(merged) ==
  LET modules == OfKind(merged, "module") IN
  modules \subseteq Ids /\ \A i \in modules : merged[i].dependsOn \subseteq Ids

IsClosedUnder(merged, start, S) ==
  /\ start \subseteq S
  /\ \A i \in S : merged[i].dependsOn \intersect OfKind(merged, "module") \subseteq S

ClosureStates(merged, start, before) ==
  LET modules == OfKind(merged, "module") IN
  {c \in [required : SUBSET modules, queue : SUBSET modules, conflicts : SUBSET Conflicts] :
     /\ start \subseteq c.required /\ c.queue \subseteq c.required
     /\ \A i \in c.required \ c.queue :
          merged[i].dependsOn \intersect modules \subseteq c.required
     /\ c.conflicts = {} <=> /\ before = {}
                            /\ \A i \in c.required \ c.queue : merged[i].dependsOn \subseteq modules
     /\ \A S \in SUBSET modules : IsClosedUnder(merged, start, S) => c.required \subseteq S}

LEMMA ClosureStep ==
  ASSUME NEW merged, IsWalkable(merged), NEW start, NEW before,
         NEW c \in ClosureStates(merged, start, before)
  PROVE  LET n == StepClosure(merged, c) IN
         /\ n \in ClosureStates(merged, start, before)
         /\ c.queue = {} => n = c
         /\ c.queue # {} => \E i \in c.queue : n.required \ n.queue = (c.required \ c.queue) \union {i}
  <1> DEFINE modules == OfKind(merged, "module")
             n == StepClosure(merged, c)
             id == FirstId(c.queue)
             here == merged[id].dependsOn \intersect modules
             missing == {Conflict("MISSING_DEPENDENCY", id, "dependsOn") :
                           d \in merged[id].dependsOn \ here}
  <1>1. /\ c.required \subseteq modules /\ c.queue \subseteq modules
        /\ c.conflicts \subseteq Conflicts
        /\ start \subseteq c.required /\ c.queue \subseteq c.required
        /\ \A i \in c.required \ c.queue : merged[i].dependsOn \intersect modules \subseteq c.required
        /\ c.conflicts = {} <=> /\ before = {}
                               /\ \A i \in c.required \ c.queue : merged[i].dependsOn \subseteq modules
        /\ \A S \in SUBSET modules : IsClosedUnder(merged, start, S) => c.required \subseteq S
    BY DEF ClosureStates
  <1>2. CASE c.queue = {}
    BY <1>2 DEF StepClosure
  <1>3. CASE c.queue # {}
    <2>1. id \in c.queue /\ id \in modules /\ id \in Ids
      <3>1. c.queue \subseteq Ids
        BY <1>1 DEF IsWalkable
      <3>2. id \in c.queue
        BY <1>3, <3>1, FirstIdIs
      <3> QED BY <1>1, <3>1, <3>2
    <2>2. n = [required |-> c.required \union here,
               queue |-> (c.queue \ {id}) \union (here \ c.required),
               conflicts |-> c.conflicts \union missing]
      BY <1>3 DEF StepClosure
    <2>3. n.required \ n.queue = (c.required \ c.queue) \union {id}
      BY <1>1, <2>1, <2>2
    <2>4. n \in [required : SUBSET modules, queue : SUBSET modules, conflicts : SUBSET Conflicts]
      <3>1. missing \subseteq Conflicts
        BY <2>1 DEF Conflict, Conflicts
      <3> HIDE DEF missing, id, modules
      <3> QED BY <1>1, <2>2, <3>1
    <2>5. \A i \in n.required \ n.queue : merged[i].dependsOn \intersect modules \subseteq n.required
      <3> HIDE DEF id, n
      <3> QED BY <1>1, <2>2, <2>3
    <2>6. n.conflicts = {} <=> /\ before = {}
                             /\ \A i \in n.required \ n.queue : merged[i].dependsOn \subseteq modules
      <3>1. missing = {} <=> merged[id].dependsOn \subseteq modules
        OBVIOUS
      <3> HIDE DEF id, n, missing, here
      <3> QED BY <1>1, <2>2, <2>3, <3>1
    <2>7. ASSUME NEW S \in SUBSET modules, IsClosedUnder(merged, start, S)
          PROVE  n.required \subseteq S
      <3>1. c.required \subseteq S
        BY <1>1, <2>7
      <3>2. id \in S
        BY <1>1, <2>1, <3>1
      <3>3. here \subseteq S
        BY <2>7, <3>2 DEF IsClosedUnder
      <3> HIDE DEF here, n, id
      <3> QED BY <2>2, <3>1, <3>3
    <2>8. start \subseteq n.required /\ n.queue \subseteq n.required
      <3> HIDE DEF id, n
      <3> QED BY <1>1, <2>2
    <2> HIDE DEF n, id
    <2>9. n \in ClosureStates(merged, start, before)
      BY <2>4, <2>5, <2>6, <2>7, <2>8 DEF ClosureStates
    <2> QED BY <1>3, <2>1, <2>3, <2>9 DEF n
  <1> QED BY <1>2, <1>3

(* The closure is the least closed set, and no dependency of it is missing *)
(* if there is no conflict.                                                *)
LEMMA ClosureIs ==
  ASSUME NEW m, IsWalkable(m.merged), m.conflicts \subseteq Conflicts
  PROVE  LET c == DependencyClosure(m)
             modules == OfKind(m.merged, "module")
             start == RequiredOf(m.merged, "module")
         IN /\ c.required \subseteq modules
            /\ IsClosedUnder(m.merged, start, c.required)
            /\ \A S \in SUBSET modules : IsClosedUnder(m.merged, start, S) => c.required \subseteq S
            /\ c.conflicts = {} <=> /\ m.conflicts = {}
                                   /\ \A i \in c.required : m.merged[i].dependsOn \subseteq modules
  <1> DEFINE modules == OfKind(m.merged, "module")
             start == RequiredOf(m.merged, "module")
             J == ClosureStates(m.merged, start, m.conflicts)
             s0 == [required |-> start, queue |-> start, conflicts |-> m.conflicts]
             step == [c \in J |-> StepClosure(m.merged, c)]
             left(c) == modules \ (c.required \ c.queue)
             mu == [c \in J |-> IF c.queue = {} THEN 0 ELSE Cardinality(left(c))]
             n == Cardinality(modules)
             g == CHOOSE f : f = [k \in Nat |-> IF k = 0 THEN s0 ELSE StepClosure(m.merged, f[k - 1])]
  <1>1. s0 \in J
    <2>1. start \subseteq modules
      BY DEF RequiredOf
    <2>2. s0 \in [required : SUBSET modules, queue : SUBSET modules, conflicts : SUBSET Conflicts]
      <3> HIDE DEF start, modules
      <3> QED BY <2>1
    <2>3. \A S \in SUBSET modules : IsClosedUnder(m.merged, start, S) => start \subseteq S
      BY DEF IsClosedUnder
    <2> HIDE DEF start
    <2> QED BY <2>2, <2>3 DEF ClosureStates
  <1>2. step \in [J -> J]
    BY ClosureStep
  <1>3. IsFiniteSet(modules) /\ \A c \in J : IsFiniteSet(left(c))
    BY FS_Subset, ResolverAssumption DEF IsWalkable
  <1>4. mu \in [J -> Nat]
    BY <1>3, FS_CardinalityType
  <1>5. ASSUME NEW c \in J PROVE mu[step[c]] = 0 \/ mu[step[c]] < mu[c]
    <2> DEFINE o == StepClosure(m.merged, c)
    <2>1. step[c] = o /\ o \in J
      BY ClosureStep
    <2>2. CASE c.queue = {}
      BY <2>1, <2>2, ClosureStep
    <2>3. CASE c.queue # {}
      <3>1. PICK i \in c.queue : o.required \ o.queue = (c.required \ c.queue) \union {i}
        BY <2>3, ClosureStep
      <3>2. i \in left(c) /\ left(o) = left(c) \ {i}
        BY <3>1 DEF ClosureStates
      <3> HIDE DEF o, J, left
      <3>3. /\ Cardinality(left(o)) = Cardinality(left(c)) - 1
            /\ Cardinality(left(c)) \in Nat /\ Cardinality(left(o)) \in Nat
        BY <1>3, <2>1, <3>2, FS_RemoveElement, FS_CardinalityType
      <3>4. mu[c] = Cardinality(left(c)) /\ (mu[o] = 0 \/ mu[o] = Cardinality(left(o)))
        BY <2>1, <2>3
      <3> QED BY <2>1, <3>3, <3>4
    <2> QED BY <2>2, <2>3
  <1>6. PICK f \in [Nat -> J] : f[0] = s0 /\ \A k \in Nat : f[k + 1] = step[f[k]]
    <2> HIDE DEF J, s0, step, left
    <2>1. s0 \in J /\ step \in [J -> J]
      BY <1>1, <1>2
    <2>2. \E f \in [Nat -> J] : f[0] = s0 /\ \A k \in Nat : f[k + 1] = step[f[k]]
      BY ONLY <2>1, LoopExists
    <2> QED BY <2>2
  <1>7. f = [k \in Nat |-> IF k = 0 THEN s0 ELSE StepClosure(m.merged, f[k - 1])]
    <2> HIDE DEF s0, J
    <2>1. ASSUME NEW k \in Nat, k # 0 PROVE f[k] = StepClosure(m.merged, f[k - 1])
      <3>1. k - 1 \in Nat /\ (k - 1) + 1 = k /\ f[k - 1] \in J
        BY <2>1
      <3> QED BY <1>6, <3>1
    <2> QED BY <1>6, <2>1
  <1>8. g = [k \in Nat |-> IF k = 0 THEN s0 ELSE StepClosure(m.merged, g[k - 1])]
    <2> HIDE DEF s0
    <2> QED BY <1>7
  <1>9. DependencyClosure(m) = g[n]
    BY DEF DependencyClosure, Repeat
  <1> HIDE DEF g
  <1>10. g[0] = s0 /\ \A k \in Nat : g[k] \in J => g[k + 1] = step[g[k]]
    <2> HIDE DEF s0, J
    <2>1. \A k \in Nat : k + 1 \in Nat /\ k + 1 # 0 /\ (k + 1) - 1 = k
      OBVIOUS
    <2> QED BY <1>8, <2>1
  <1>11. n \in Nat /\ mu[s0] <= n
    <2>1. left(s0) \subseteq modules
      OBVIOUS
    <2> HIDE DEF modules, s0, left
    <2>2. Cardinality(left(s0)) <= Cardinality(modules) /\ Cardinality(modules) \in Nat
      BY <1>3, <2>1, FS_Subset, FS_CardinalityType
    <2>3. mu[s0] = 0 \/ mu[s0] = Cardinality(left(s0))
      BY <1>1
    <2> QED BY <2>2, <2>3
  <1>12. g[n] \in J /\ mu[g[n]] = 0
    <2> HIDE DEF s0, J, step, mu, n
    <2>1. IsLoop(J, s0, step, mu, g)
      BY <1>1, <1>2, <1>4, <1>5, <1>10 DEF IsLoop
    <2> QED BY <1>11, <2>1, LoopEnds
  <1> HIDE DEF n
  <1>13. g[n].queue = {}
    <2> SUFFICES ASSUME g[n].queue # {} PROVE FALSE
      OBVIOUS
    <2>1. PICK i \in g[n].queue : TRUE
      OBVIOUS
    <2>2. i \in left(g[n])
      BY <1>12, <2>1 DEF ClosureStates
    <2>3. Cardinality(left(g[n])) = 0
      BY <1>12
    <2> QED BY <1>3, <1>12, <2>2, <2>3, FS_EmptySet
  <1> HIDE DEF start
  <1>14. /\ g[n].required \subseteq modules
         /\ IsClosedUnder(m.merged, start, g[n].required)
         /\ \A S \in SUBSET modules : IsClosedUnder(m.merged, start, S) => g[n].required \subseteq S
         /\ g[n].conflicts = {} <=> /\ m.conflicts = {}
                                   /\ \A i \in g[n].required : m.merged[i].dependsOn \subseteq modules
    <2>1. g[n].required \ g[n].queue = g[n].required
      BY <1>13
    <2> QED BY <1>12, <2>1 DEF ClosureStates, IsClosedUnder
  <1> QED BY <1>9, <1>14 DEF start

-----------------------------------------------------------------------------
(***************************************************************************)
(* Cycles.  The stack is a path of modules that are not done.  While no    *)
(* cycle was found, what is done has no cycle and needs only what is done, *)
(* and of the modules on the stack only the next one is passed and not     *)
(* done yet.                                                               *)
(***************************************************************************)

IsGraph(depends) ==
  DOMAIN depends \subseteq Ids /\ \A i \in DOMAIN depends : depends[i] \subseteq DOMAIN depends
Bites(depends, C) == C # {} /\ \A i \in C : depends[i] \intersect C # {}

OnStack(v) == {v.stack[k] : k \in 1..Len(v.stack)}
NoCycleYet(depends, v) ==
  /\ \A i \in v.done : depends[i] \subseteq v.done
  /\ \A C \in SUBSET v.done : ~Bites(depends, C)
  /\ \A k \in 1..Len(v.stack) : \A d \in depends[v.stack[k]] :
       <<v.stack[k], d>> \in v.passed =>
         d \in v.done \/ (k < Len(v.stack) /\ d = v.stack[k + 1])
VisitKeeps(depends, v) ==
  /\ \A k \in 1..Len(v.stack) : v.stack[k] \notin v.done
  /\ \A k, l \in 1..Len(v.stack) : v.stack[k] = v.stack[l] => k = l
  /\ \A k \in 1..Len(v.stack) : k < Len(v.stack) => v.stack[k + 1] \in depends[v.stack[k]]
  /\ \A e \in v.passed : e[1] \in v.done \union OnStack(v)
  /\ \A C \in v.cycles : Bites(depends, C)
  /\ v.cycles = {} => NoCycleYet(depends, v)
VisitStates(depends) ==
  LET R == DOMAIN depends IN
  {v \in [stack : Seq(R), passed : SUBSET Dependencies(depends), done : SUBSET R,
          cycles : SUBSET SUBSET R] : VisitKeeps(depends, v)}

\* What is left of a visit; nothing once all is done.
Finished(depends, v) == v.stack = <<>> /\ DOMAIN depends \subseteq v.done
Entering(depends, v) == DOMAIN depends \ (v.done \union OnStack(v))
Leaving(depends, v) == DOMAIN depends \ v.done
Passing(depends, v) == Dependencies(depends) \ v.passed
Shrinks(depends, v, o) ==
  /\ Entering(depends, o) \subseteq Entering(depends, v)
  /\ Leaving(depends, o) \subseteq Leaving(depends, v)
  /\ Passing(depends, o) \subseteq Passing(depends, v)
  /\ \/ Entering(depends, o) # Entering(depends, v)
     \/ Leaving(depends, o) # Leaving(depends, v)
     \/ Passing(depends, o) # Passing(depends, v)

LEMMA AreDependencies ==
  ASSUME NEW depends, NEW i \in DOMAIN depends, NEW d \in depends[i]
  PROVE  <<i, d>> \in Dependencies(depends)
  BY DEF Dependencies

\* The loop over the modules visits one that is not done.
LEMMA VisitStarts ==
  ASSUME NEW depends, IsGraph(depends), NEW v \in VisitStates(depends),
         Len(v.stack) = 0, ~Finished(depends, v)
  PROVE  LET o == StepVisit(depends, v) IN
         o \in VisitStates(depends) /\ Shrinks(depends, v, o)
  <1> DEFINE R == DOMAIN depends
             i == FirstId(R \ v.done)
             o == StepVisit(depends, v)
  <1>1. /\ v.stack \in Seq(R) /\ v.passed \subseteq Dependencies(depends)
        /\ v.done \subseteq R /\ v.cycles \subseteq SUBSET R /\ VisitKeeps(depends, v)
        /\ v = [stack |-> v.stack, passed |-> v.passed, done |-> v.done, cycles |-> v.cycles]
    BY DEF VisitStates
  <1>2. v.stack = <<>> /\ ~(R \subseteq v.done)
    BY <1>1 DEF Finished
  <1>3. i \in R /\ i \notin v.done
    <2>1. R \ v.done # {} /\ R \ v.done \subseteq Ids
      BY <1>2 DEF IsGraph
    <2> QED BY <2>1, FirstIdIs
  <1> HIDE DEF i
  <1>4. o = [stack |-> <<i>>, passed |-> v.passed, done |-> v.done, cycles |-> v.cycles]
    <2>1. o = [v EXCEPT !.stack = <<i>>]
      BY <1>2 DEF StepVisit, i
    <2> QED BY <1>1, <2>1
  <1> HIDE DEF o
  <1>5. OnStack(v) = {} /\ OnStack(o) = {i}
    BY <1>2, <1>4 DEF OnStack
  <1>6. VisitKeeps(depends, o)
    <2>1. \A e \in v.passed : e[1] \in v.done
      BY <1>1, <1>5 DEF VisitKeeps
    <2>2. Len(o.stack) = 1 /\ o.stack[1] = i
      BY <1>4
    <2>3. \A k \in 1..Len(o.stack) : k = 1
      BY <2>2
    <2>4. \A d : <<i, d>> \notin o.passed
      BY <1>3, <1>4, <2>1
    <2>5. v.cycles = {} => NoCycleYet(depends, o)
      <3> SUFFICES ASSUME v.cycles = {} PROVE NoCycleYet(depends, o)
        OBVIOUS
      <3>1. NoCycleYet(depends, v)
        BY <1>1 DEF VisitKeeps
      <3> QED BY <1>4, <2>2, <2>3, <2>4, <3>1 DEF NoCycleYet
    <2> QED BY <1>1, <1>3, <1>4, <2>1, <2>2, <2>3, <2>5 DEF VisitKeeps
  <1>7. o \in VisitStates(depends)
    <2>1. <<i>> \in Seq(R)
      BY <1>3
    <2> QED BY <1>1, <1>4, <1>6, <2>1 DEF VisitStates
  <1>8. Shrinks(depends, v, o)
    BY <1>3, <1>4, <1>5 DEF Shrinks, Entering, Leaving, Passing
  <1> QED BY <1>7, <1>8 DEF o

\* A module whose dependencies are all passed is done.
LEMMA VisitReturns ==
  ASSUME NEW depends, IsGraph(depends), NEW v \in VisitStates(depends), NEW n, NEW top,
         n = Len(v.stack), n # 0, top = v.stack[n],
         \A d \in depends[top] : <<top, d>> \in v.passed
  PROVE  LET o == StepVisit(depends, v) IN
         o \in VisitStates(depends) /\ Shrinks(depends, v, o)
  <1> DEFINE R == DOMAIN depends
             o == StepVisit(depends, v)
             rest == SubSeq(v.stack, 1, n - 1)
  <1>1. /\ v.stack \in Seq(R) /\ v.passed \subseteq Dependencies(depends)
        /\ v.done \subseteq R /\ v.cycles \subseteq SUBSET R /\ VisitKeeps(depends, v)
        /\ v = [stack |-> v.stack, passed |-> v.passed, done |-> v.done, cycles |-> v.cycles]
    BY DEF VisitStates
  <1>2. n \in Nat /\ n \in 1..n /\ top \in R /\ n - 1 \in Nat
        /\ \A k \in 1..n : v.stack[k] \in R
    BY <1>1
  <1>3. /\ rest \in Seq(R) /\ Len(rest) = n - 1
        /\ \A k \in 1..(n - 1) : rest[k] = v.stack[k]
    <2>1. \A k \in 1..(n - 1) : v.stack[k] \in R
      BY <1>2
    <2>2. 1 \in Int /\ n - 1 \in Int
      BY <1>2
    <2>3. /\ rest \in Seq(R) /\ Len(rest) = IF 1 <= n - 1 THEN (n - 1) - 1 + 1 ELSE 0
          /\ \A k \in 1..((n - 1) - 1 + 1) : rest[k] = v.stack[1 + k - 1]
      BY <2>1, <2>2, SubSeqProperties
    <2> QED BY <1>2, <2>3
  <1> HIDE DEF rest
  <1>4. o = [stack |-> rest, passed |-> v.passed, done |-> v.done \union {top},
             cycles |-> v.cycles]
    <2>1. {d \in depends[top] : <<top, d>> \notin v.passed} = {}
      OBVIOUS
    <2>2. o = [v EXCEPT !.stack = SubSeq(@, 1, n - 1), !.done = @ \union {top}]
      BY <2>1 DEF StepVisit
    <2> QED BY <1>1, <2>2 DEF rest
  <1> HIDE DEF o
  <1>5. top \notin v.done /\ \A k \in 1..(n - 1) : v.stack[k] # top
    BY <1>1, <1>2 DEF VisitKeeps
  <1>6. OnStack(v) = OnStack(o) \union {top}
    <2>1. \A k \in 1..n : k = n \/ k \in 1..(n - 1)
      BY <1>2
    <2>2. \A k \in 1..(n - 1) : k \in 1..n
      BY <1>2
    <2> QED BY <1>2, <1>3, <1>4, <2>1, <2>2 DEF OnStack
  <1>7. VisitKeeps(depends, o)
    <2>1. \A k \in 1..Len(o.stack) : o.stack[k] \notin o.done /\ k \in 1..n /\ o.stack[k] = v.stack[k]
      BY <1>1, <1>2, <1>3, <1>4, <1>5 DEF VisitKeeps
    <2>2. \A k, l \in 1..Len(o.stack) : o.stack[k] = o.stack[l] => k = l
      BY <1>1, <2>1 DEF VisitKeeps
    <2>3. \A k \in 1..Len(o.stack) : k < Len(o.stack) => o.stack[k + 1] \in depends[o.stack[k]]
      <3> SUFFICES ASSUME NEW k \in 1..(n - 1), k < n - 1
                   PROVE  v.stack[k + 1] \in depends[v.stack[k]] /\ rest[k + 1] = v.stack[k + 1]
        BY <1>3, <1>4
      <3>1. k \in 1..n /\ k < n /\ k + 1 \in 1..(n - 1)
        BY <1>2
      <3> QED BY <1>1, <1>3, <3>1 DEF VisitKeeps
    <2>4. \A e \in o.passed : e[1] \in o.done \union OnStack(o)
      BY <1>1, <1>4, <1>6 DEF VisitKeeps
    <2>5. \A C \in o.cycles : Bites(depends, C)
      BY <1>1, <1>4 DEF VisitKeeps
    <2>6. ASSUME o.cycles = {} PROVE NoCycleYet(depends, o)
      <3>1. NoCycleYet(depends, v)
        BY <1>1, <1>4, <2>6 DEF VisitKeeps
      <3>2. depends[top] \subseteq v.done
        <4> SUFFICES ASSUME NEW d \in depends[top] PROVE d \in v.done
          OBVIOUS
        <4>1. <<v.stack[n], d>> \in v.passed /\ n \in 1..Len(v.stack) /\ ~(n < Len(v.stack))
          BY <1>2
        <4> QED BY <3>1, <4>1 DEF NoCycleYet
      <3>3. \A i \in o.done : depends[i] \subseteq o.done
        BY <1>4, <3>1, <3>2 DEF NoCycleYet
      <3>4. ASSUME NEW C \in SUBSET o.done, Bites(depends, C) PROVE FALSE
        <4> DEFINE B == C \ {top}
        <4>1. B \in SUBSET v.done
          BY <1>4
        <4>2. \A i \in C : i # top => depends[i] \subseteq v.done
          BY <1>4, <3>1 DEF NoCycleYet
        <4>3. \A i \in C : depends[i] \intersect B # {}
          BY <1>5, <3>2, <3>4, <4>2 DEF Bites
        <4>4. B # {} /\ \A i \in B : depends[i] \intersect B # {}
          BY <3>4, <4>3 DEF Bites
        <4> HIDE DEF B
        <4> QED BY <3>1, <4>1, <4>4 DEF NoCycleYet, Bites
      <3>5. ASSUME NEW k \in 1..Len(o.stack), NEW d \in depends[o.stack[k]],
                   <<o.stack[k], d>> \in o.passed
            PROVE  d \in o.done \/ (k < Len(o.stack) /\ d = o.stack[k + 1])
        <4>1. k \in 1..(n - 1) /\ k \in 1..n /\ o.stack[k] = v.stack[k] /\ Len(o.stack) = n - 1
          BY <1>2, <1>3, <1>4
        <4>2. d \in v.done \/ (k < n /\ d = v.stack[k + 1])
          BY <1>4, <3>1, <3>5, <4>1 DEF NoCycleYet
        <4>3. CASE k = n - 1 /\ d = v.stack[k + 1]
          BY <1>2, <1>4, <4>3
        <4>4. CASE k < n - 1 /\ d = v.stack[k + 1]
          <5>1. k + 1 \in 1..(n - 1)
            BY <1>2, <4>4
          <5> QED BY <1>3, <1>4, <4>1, <4>4, <5>1
        <4>5. k = n - 1 \/ k < n - 1
          BY <1>2, <4>1
        <4> QED BY <1>4, <4>2, <4>3, <4>4, <4>5
      <3> QED BY <3>3, <3>4, <3>5 DEF NoCycleYet
    <2> QED BY <2>1, <2>2, <2>3, <2>4, <2>5, <2>6 DEF VisitKeeps
  <1>8. o \in VisitStates(depends)
    BY <1>1, <1>2, <1>3, <1>4, <1>7 DEF VisitStates
  <1>9. Shrinks(depends, v, o)
    BY <1>2, <1>4, <1>5, <1>6 DEF Shrinks, Entering, Leaving, Passing
  <1> QED BY <1>8, <1>9 DEF o

\* A dependency is passed: it is done, closes a cycle, or is entered.
LEMMA VisitPasses ==
  ASSUME NEW depends, IsGraph(depends), NEW v \in VisitStates(depends), NEW n, NEW top,
         n = Len(v.stack), n # 0, top = v.stack[n],
         ~ \A d \in depends[top] : <<top, d>> \in v.passed
  PROVE  LET o == StepVisit(depends, v) IN
         o \in VisitStates(depends) /\ Shrinks(depends, v, o)
  <1> DEFINE R == DOMAIN depends
             o == StepVisit(depends, v)
             ahead == {d \in depends[top] : <<top, d>> \notin v.passed}
             next == FirstId(ahead)
             past == [v EXCEPT !.passed = @ \union {<<top, next>>}]
             start == CHOOSE k \in 1..n : v.stack[k] = next
             C == {v.stack[k] : k \in start..n}
  <1>1. /\ v.stack \in Seq(R) /\ v.passed \subseteq Dependencies(depends)
        /\ v.done \subseteq R /\ v.cycles \subseteq SUBSET R /\ VisitKeeps(depends, v)
        /\ v = [stack |-> v.stack, passed |-> v.passed, done |-> v.done, cycles |-> v.cycles]
    BY DEF VisitStates
  <1>2. n \in Nat /\ n \in 1..n /\ top \in R /\ n - 1 \in Nat
        /\ \A k \in 1..n : v.stack[k] \in R
    BY <1>1
  <1>3. next \in depends[top] /\ <<top, next>> \notin v.passed /\ next \in R /\ ahead # {}
    <2>1. ahead # {}
      OBVIOUS
    <2>2. ahead \subseteq Ids
      BY <1>2 DEF IsGraph
    <2>3. next \in ahead
      <3> HIDE DEF ahead
      <3> QED BY <2>1, <2>2, FirstIdIs
    <2> QED BY <1>2, <2>1, <2>3 DEF IsGraph
  <1>4. <<top, next>> \in Dependencies(depends)
    BY <1>2, <1>3, AreDependencies
  <1>5. past = [stack |-> v.stack, passed |-> v.passed \union {<<top, next>>},
                done |-> v.done, cycles |-> v.cycles]
    <2> HIDE DEF next, ahead
    <2>1. v \in [stack : Seq(R), passed : SUBSET Dependencies(depends), done : SUBSET R,
                cycles : SUBSET SUBSET R]
      BY DEF VisitStates
    <2>2. past = [v EXCEPT !.passed = v.passed \union {<<top, next>>}]
      OBVIOUS
    <2> HIDE DEF past
    <2> QED BY <2>1, <2>2
  <1>6. o = IF next \in v.done THEN past
            ELSE IF \E k \in 1..n : v.stack[k] = next
              THEN [past EXCEPT !.cycles = @ \union {C}]
            ELSE [past EXCEPT !.stack = Append(@, next)]
    BY <1>3 DEF StepVisit
  <1> HIDE DEF next, past, o
  <1>7. top \in OnStack(v) /\ top \notin v.done
    BY <1>1, <1>2 DEF OnStack, VisitKeeps
  <1>8. \A u : u.stack = v.stack /\ u.done = v.done /\ u.passed = v.passed \union {<<top, next>>}
               => OnStack(u) = OnStack(v) /\ Shrinks(depends, v, u)
    BY <1>3, <1>4 DEF OnStack, Shrinks, Entering, Leaving, Passing
  <1>9. CASE next \in v.done
    <2>1. o = past
      BY <1>6, <1>9
    <2>2. NoCycleYet(depends, v) => NoCycleYet(depends, o)
      BY <1>2, <1>5, <1>9, <2>1 DEF NoCycleYet
    <2>3. \A e \in o.passed : e[1] \in o.done \union OnStack(o)
      BY <1>1, <1>5, <1>7, <1>8, <2>1 DEF VisitKeeps
    <2>4. VisitKeeps(depends, o)
      BY <1>1, <1>5, <2>1, <2>2, <2>3 DEF VisitKeeps
    <2>5. o \in VisitStates(depends)
      BY <1>1, <1>4, <1>5, <2>1, <2>4 DEF VisitStates
    <2> QED BY <1>5, <1>8, <2>1, <2>5 DEF o
  <1>10. CASE next \notin v.done /\ \E k \in 1..n : v.stack[k] = next
    <2>1. o = [stack |-> v.stack, passed |-> v.passed \union {<<top, next>>},
               done |-> v.done, cycles |-> v.cycles \union {C}]
      BY <1>5, <1>6, <1>10
    <2>2. start \in 1..n /\ v.stack[start] = next
      BY <1>10
    <2> HIDE DEF start
    <2>3. Bites(depends, C)
      <3>1. next \in C /\ start \in Nat
        BY <1>2, <2>2
      <3>2. ASSUME NEW k \in start..n PROVE depends[v.stack[k]] \intersect C # {}
        <4>1. CASE k = n
          BY <1>3, <3>1, <4>1
        <4>2. CASE k # n
          <5>1. k + 1 \in start..n /\ k \in 1..n /\ k < n
            BY <1>2, <2>2, <4>2
          <5>2. v.stack[k + 1] \in depends[v.stack[k]]
            BY <1>1, <5>1 DEF VisitKeeps
          <5> QED BY <5>1, <5>2
        <4> QED BY <4>1, <4>2
      <3> QED BY <3>1, <3>2 DEF Bites
    <2>4. C \subseteq R
      BY <1>2, <2>2
    <2> HIDE DEF C
    <2>5. \A e \in o.passed : e[1] \in o.done \union OnStack(o)
      BY <1>1, <1>7, <1>8, <2>1 DEF VisitKeeps
    <2>6. VisitKeeps(depends, o)
      BY <1>1, <2>1, <2>3, <2>5 DEF VisitKeeps
    <2>7. o \in VisitStates(depends)
      BY <1>1, <1>4, <2>1, <2>4, <2>6 DEF VisitStates
    <2> QED BY <1>8, <2>1, <2>7 DEF o
  <1>11. CASE next \notin v.done /\ ~ \E k \in 1..n : v.stack[k] = next
    <2> DEFINE more == Append(v.stack, next)
    <2>1. o = [stack |-> more, passed |-> v.passed \union {<<top, next>>},
               done |-> v.done, cycles |-> v.cycles]
      BY <1>5, <1>6, <1>11
    <2>2. /\ more \in Seq(R) /\ Len(more) = n + 1 /\ more[n + 1] = next
          /\ \A k \in 1..n : more[k] = v.stack[k]
      BY <1>1, <1>3
    <2>3. \A k \in 1..(n + 1) : k \in 1..n \/ k = n + 1
      BY <1>2
    <2>4. n + 1 \in 1..(n + 1) /\ \A k \in 1..n : k \in 1..(n + 1)
      BY <1>2
    <2> HIDE DEF more
    <2>5. OnStack(o) = OnStack(v) \union {next}
      <3>1. OnStack(o) = {more[k] : k \in 1..(n + 1)} /\ OnStack(v) = {v.stack[k] : k \in 1..n}
        BY <2>1, <2>2 DEF OnStack
      <3>2. OnStack(o) \subseteq OnStack(v) \union {next}
        <4>1. \A k \in 1..(n + 1) : more[k] \in OnStack(v) \union {next}
          BY <2>2, <2>3, <3>1
        <4> QED BY <3>1, <4>1
      <3>3. OnStack(v) \union {next} \subseteq OnStack(o)
        BY <2>2, <2>4, <3>1
      <3> QED BY <3>1, <3>2, <3>3
    <2>6. \A k \in 1..Len(o.stack) : o.stack[k] \notin o.done
      BY <1>1, <1>11, <2>1, <2>2, <2>3 DEF VisitKeeps
    <2>7. \A k, l \in 1..Len(o.stack) : o.stack[k] = o.stack[l] => k = l
      BY <1>1, <1>11, <2>1, <2>2, <2>3 DEF VisitKeeps
    <2>8. ASSUME NEW k \in 1..Len(o.stack), k < Len(o.stack)
          PROVE  o.stack[k + 1] \in depends[o.stack[k]]
      <3>1. k \in 1..n /\ (k = n \/ (k < n /\ k + 1 \in 1..n))
        BY <1>2, <2>1, <2>2, <2>8
      <3> QED BY <1>1, <1>3, <2>1, <2>2, <3>1 DEF VisitKeeps
    <2>9. \A e \in o.passed : e[1] \in o.done \union OnStack(o)
      <3>1. \A e \in v.passed : e[1] \in v.done \union OnStack(v)
        BY <1>1 DEF VisitKeeps
      <3>2. <<top, next>>[1] = top
        OBVIOUS
      <3> QED BY <1>7, <2>1, <2>5, <3>1, <3>2
    <2>10. ASSUME o.cycles = {} PROVE NoCycleYet(depends, o)
      <3>1. NoCycleYet(depends, v)
        BY <1>1, <2>1, <2>10 DEF VisitKeeps
      <3>2. ASSUME NEW k \in 1..Len(o.stack), NEW d \in depends[o.stack[k]],
                   <<o.stack[k], d>> \in o.passed
            PROVE  d \in o.done \/ (k < Len(o.stack) /\ d = o.stack[k + 1])
        <4>1. CASE k = n + 1
          <5>1. o.stack[k] = next /\ <<next, d>> \in v.passed \union {<<top, next>>}
            BY <2>1, <2>2, <3>2, <4>1
          <5>2. next # top /\ next \notin OnStack(v)
            BY <1>2, <1>11 DEF OnStack
          <5>3. <<next, d>> \notin v.passed
            BY <1>1, <1>11, <5>2 DEF VisitKeeps
          <5> QED BY <5>1, <5>2, <5>3
        <4>2. CASE k \in 1..n
          <5>1. o.stack[k] = v.stack[k] /\ k < Len(o.stack)
            BY <1>2, <2>1, <2>2, <4>2
          <5>2. CASE <<v.stack[k], d>> \in v.passed
            <6>1. d \in v.done \/ (k < n /\ d = v.stack[k + 1])
              BY <3>1, <3>2, <4>2, <5>1, <5>2 DEF NoCycleYet
            <6>2. k < n => k + 1 \in 1..n
              BY <1>2, <4>2
            <6> QED BY <2>1, <2>2, <5>1, <6>1, <6>2
          <5>3. CASE <<v.stack[k], d>> = <<top, next>>
            <6>1. k = n /\ d = next
              BY <1>1, <1>2, <4>2, <5>3 DEF VisitKeeps
            <6> QED BY <2>1, <2>2, <5>1, <6>1
          <5> QED BY <2>1, <3>2, <5>1, <5>2, <5>3
        <4> QED BY <2>1, <2>2, <2>3, <4>1, <4>2
      <3> QED BY <2>1, <3>1, <3>2 DEF NoCycleYet
    <2>11. VisitKeeps(depends, o)
      BY <1>1, <2>1, <2>6, <2>7, <2>8, <2>9, <2>10 DEF VisitKeeps
    <2>12. o \in VisitStates(depends)
      BY <1>1, <1>4, <2>1, <2>2, <2>11 DEF VisitStates
    <2>13. Shrinks(depends, v, o)
      BY <1>3, <1>4, <2>1, <2>5 DEF Shrinks, Entering, Leaving, Passing
    <2> QED BY <2>12, <2>13 DEF o
  <1> QED BY <1>9, <1>10, <1>11

LEMMA VisitStep ==
  ASSUME NEW depends, IsGraph(depends), NEW v \in VisitStates(depends)
  PROVE  LET o == StepVisit(depends, v) IN
         /\ o \in VisitStates(depends)
         /\ Finished(depends, v) => o = v
         /\ ~Finished(depends, v) => Shrinks(depends, v, o)
  <1>1. v.stack \in Seq(DOMAIN depends) /\ Len(v.stack) \in Nat
    BY DEF VisitStates
  <1>2. CASE Finished(depends, v)
    BY <1>2 DEF Finished, StepVisit
  <1>3. CASE ~Finished(depends, v)
    <2>1. CASE Len(v.stack) = 0
      BY <1>3, <2>1, VisitStarts
    <2>2. CASE Len(v.stack) # 0
      BY <1>1, <2>2, <1>3, VisitReturns, VisitPasses DEF Finished
    <2> QED BY <2>1, <2>2, <1>3
  <1> QED BY <1>2, <1>3

LEMMA DependenciesAreFinite ==
  ASSUME NEW depends, IsGraph(depends)
  PROVE  IsFiniteSet(DOMAIN depends) /\ IsFiniteSet(Dependencies(depends))
  <1> DEFINE R == DOMAIN depends
  <1>1. IsFiniteSet(R)
    BY FS_Subset, ResolverAssumption DEF IsGraph
  <1>2. IsFiniteSet(R \X R)
    BY <1>1, FS_Product
  <1>3. Dependencies(depends) \subseteq R \X R
    BY DEF Dependencies, IsGraph
  <1> QED BY <1>1, <1>2, <1>3, FS_Subset

LEMMA ShrinkingCounts ==
  ASSUME NEW depends, IsGraph(depends), NEW v, NEW o, Shrinks(depends, v, o)
  PROVE  LET size(u) == Cardinality(Entering(depends, u)) + Cardinality(Leaving(depends, u))
                          + Cardinality(Passing(depends, u))
         IN size(v) \in Nat /\ size(o) \in Nat /\ size(o) < size(v)
  <1> DEFINE a(u) == Entering(depends, u)  b(u) == Leaving(depends, u)  c(u) == Passing(depends, u)
  <1>1. \A u : IsFiniteSet(a(u)) /\ IsFiniteSet(b(u)) /\ IsFiniteSet(c(u))
    BY FS_Subset, DependenciesAreFinite DEF Entering, Leaving, Passing
  <1>2. /\ a(o) \subseteq a(v) /\ b(o) \subseteq b(v) /\ c(o) \subseteq c(v)
        /\ a(o) # a(v) \/ b(o) # b(v) \/ c(o) # c(v)
    BY DEF Shrinks
  <1> HIDE DEF a, b, c
  <1>3. /\ Cardinality(a(o)) <= Cardinality(a(v)) /\ Cardinality(b(o)) <= Cardinality(b(v))
        /\ Cardinality(c(o)) <= Cardinality(c(v))
    BY <1>1, <1>2, FS_Subset
  <1>4. \/ Cardinality(a(o)) # Cardinality(a(v)) \/ Cardinality(b(o)) # Cardinality(b(v))
        \/ Cardinality(c(o)) # Cardinality(c(v))
    BY <1>1, <1>2, FS_Subset
  <1>5. /\ Cardinality(a(o)) \in Nat /\ Cardinality(b(o)) \in Nat /\ Cardinality(c(o)) \in Nat
        /\ Cardinality(a(v)) \in Nat /\ Cardinality(b(v)) \in Nat /\ Cardinality(c(v)) \in Nat
    BY <1>1, FS_CardinalityType
  <1>6. /\ Cardinality(a(v)) + Cardinality(b(v)) + Cardinality(c(v)) \in Nat
        /\ Cardinality(a(o)) + Cardinality(b(o)) + Cardinality(c(o)) \in Nat
        /\ Cardinality(a(o)) + Cardinality(b(o)) + Cardinality(c(o))
             < Cardinality(a(v)) + Cardinality(b(v)) + Cardinality(c(v))
    BY <1>3, <1>4, <1>5
  <1> QED BY <1>6 DEF a, b, c

(* The depth first search reports no cycle exactly if there is none.       *)
LEMMA CyclesAre ==
  ASSUME NEW depends, IsGraph(depends)
  PROVE  CycleConflicts(depends) = {} <=> \A C \in SUBSET DOMAIN depends : ~Bites(depends, C)
  <1> DEFINE R == DOMAIN depends
             J == VisitStates(depends)
             s0 == [stack |-> <<>>, passed |-> {}, done |-> {}, cycles |-> {}]
             step == [v \in J |-> StepVisit(depends, v)]
             size(u) == Cardinality(Entering(depends, u)) + Cardinality(Leaving(depends, u))
                          + Cardinality(Passing(depends, u))
             mu == [v \in J |-> IF Finished(depends, v) THEN 0 ELSE size(v)]
             n == 2 * Cardinality(R) + Cardinality(Dependencies(depends))
             g == CHOOSE f : f = [k \in Nat |-> IF k = 0 THEN s0 ELSE StepVisit(depends, f[k - 1])]
  <1>1. s0 \in J
    <2>1. VisitKeeps(depends, s0)
      BY DEF VisitKeeps, NoCycleYet, Bites
    <2> QED BY <2>1 DEF VisitStates
  <1>2. step \in [J -> J]
    BY VisitStep
  <1>3. \A v \in J : size(v) \in Nat
    <2>1. ASSUME NEW u PROVE IsFiniteSet(Entering(depends, u)) /\ IsFiniteSet(Leaving(depends, u))
                             /\ IsFiniteSet(Passing(depends, u))
      BY FS_Subset, DependenciesAreFinite DEF Entering, Leaving, Passing
    <2>2. ASSUME NEW u PROVE /\ Cardinality(Entering(depends, u)) \in Nat
                             /\ Cardinality(Leaving(depends, u)) \in Nat
                             /\ Cardinality(Passing(depends, u)) \in Nat
      BY <2>1, FS_CardinalityType
    <2> QED BY <2>2
  <1>4. mu \in [J -> Nat]
    BY <1>3
  <1>5. ASSUME NEW v \in J PROVE mu[step[v]] = 0 \/ mu[step[v]] < mu[v]
    <2> DEFINE o == StepVisit(depends, v)
    <2>1. step[v] = o /\ o \in J
      BY VisitStep
    <2>2. CASE Finished(depends, v)
      BY <2>1, <2>2, VisitStep
    <2>3. CASE ~Finished(depends, v)
      <3>1. Shrinks(depends, v, o)
        BY <2>3, VisitStep
      <3> HIDE DEF o
      <3>2. size(o) < size(v)
        BY <3>1, ShrinkingCounts
      <3> HIDE DEF size, J
      <3> QED BY <2>1, <2>3, <3>2
    <2> QED BY <2>2, <2>3
  <1>6. PICK f \in [Nat -> J] : f[0] = s0 /\ \A k \in Nat : f[k + 1] = step[f[k]]
    <2> HIDE DEF J, s0, step, size
    <2>1. s0 \in J /\ step \in [J -> J]
      BY <1>1, <1>2
    <2> QED BY <2>1, LoopExists
  <1>7. f = [k \in Nat |-> IF k = 0 THEN s0 ELSE StepVisit(depends, f[k - 1])]
    <2> HIDE DEF s0, J
    <2>1. ASSUME NEW k \in Nat, k # 0 PROVE f[k] = StepVisit(depends, f[k - 1])
      <3>1. k - 1 \in Nat /\ (k - 1) + 1 = k /\ f[k - 1] \in J
        BY <2>1
      <3> QED BY <1>6, <3>1
    <2> QED BY <1>6, <2>1
  <1>8. g = [k \in Nat |-> IF k = 0 THEN s0 ELSE StepVisit(depends, g[k - 1])]
    <2> HIDE DEF s0
    <2> QED BY <1>7
  <1>9. CycleConflicts(depends) = g[n].cycles
    BY DEF CycleConflicts, Repeat
  <1> HIDE DEF g
  <1>10. g[0] = s0 /\ \A k \in Nat : g[k] \in J => g[k + 1] = step[g[k]]
    <2> HIDE DEF s0, J
    <2>1. \A k \in Nat : k + 1 \in Nat /\ k + 1 # 0 /\ (k + 1) - 1 = k
      OBVIOUS
    <2> QED BY <1>8, <2>1
  <1>11. n \in Nat /\ mu[s0] <= n
    <2>1. Entering(depends, s0) = R /\ Leaving(depends, s0) = R /\ Passing(depends, s0) = Dependencies(depends)
      <3>1. OnStack(s0) = {}
        <4>1. Len(s0.stack) = 0 /\ 1..0 = {}
          OBVIOUS
        <4> QED BY <4>1 DEF OnStack
      <3>2. s0.done = {} /\ s0.passed = {}
        OBVIOUS
      <3> HIDE DEF s0
      <3> QED BY <3>1, <3>2 DEF Entering, Leaving, Passing
    <2>2. Cardinality(R) \in Nat /\ Cardinality(Dependencies(depends)) \in Nat
      BY DependenciesAreFinite, FS_CardinalityType
    <2>3. mu[s0] = 0 \/ mu[s0] = size(s0)
      BY <1>1
    <2> HIDE DEF s0, mu, R
    <2>4. size(s0) = Cardinality(R) + Cardinality(R) + Cardinality(Dependencies(depends))
      BY <2>1
    <2> QED BY <2>2, <2>3, <2>4
  <1>12. g[n] \in J /\ mu[g[n]] = 0
    <2> HIDE DEF s0, J, step, mu, n
    <2>1. IsLoop(J, s0, step, mu, g)
      BY <1>1, <1>2, <1>4, <1>5, <1>10 DEF IsLoop
    <2> QED BY <1>11, <2>1, LoopEnds
  <1> HIDE DEF n
  <1>13. R \subseteq g[n].done
    <2> SUFFICES ASSUME ~Finished(depends, g[n]) PROVE FALSE
      BY DEF Finished
    <2> DEFINE v == g[n]
               o == StepVisit(depends, v)
    <2>1. size(v) = 0
      BY <1>12
    <2>2. Shrinks(depends, v, o)
      BY <1>12, VisitStep
    <2>3. size(o) \in Nat /\ size(o) < size(v)
      <3> HIDE DEF o, v
      <3> QED BY <2>2, ShrinkingCounts
    <2> QED BY <2>1, <2>3
  <1>14. g[n].done \subseteq R /\ g[n].cycles \subseteq SUBSET R /\ VisitKeeps(depends, g[n])
    BY <1>12 DEF VisitStates
  <1>15. g[n].done = R
    BY <1>13, <1>14
  <1>16. ASSUME g[n].cycles = {} PROVE \A C \in SUBSET R : ~Bites(depends, C)
    BY <1>14, <1>15, <1>16 DEF VisitKeeps, NoCycleYet
  <1>17. ASSUME g[n].cycles # {} PROVE \E C \in SUBSET R : Bites(depends, C)
    BY <1>14, <1>17 DEF VisitKeeps
  <1> QED BY <1>9, <1>16, <1>17

-----------------------------------------------------------------------------
(***************************************************************************)
(* The contract.                                                           *)
(***************************************************************************)

\* What is merged is what the requirements D ask.
Asks(D, m) ==
  /\ DOMAIN m.merged = {q.id : q \in D}
  /\ \A i \in DOMAIN m.merged :
       /\ m.merged[i].dependsOn = DependenciesOf(D, i)
       /\ m.merged[i].depth = Max({r.depth : r \in {q \in D : q.id = i}})
  /\ \A kind : OfKind(m.merged, kind) = {r.id : r \in {q \in D : q.kind = kind}}
  /\ \A kind : RequiredOf(m.merged, kind)
                = {r.id : r \in {q \in D : q.kind = kind /\ q.required}}

\* It is, if they agree.
LEMMA MergedAsks ==
  ASSUME NEW D, NEW C, NEW m, MergedOf(D, C, m), \A q \in D : IsRequirement(q), Compatible(D)
  PROVE  Asks(D, m)
  <1>1. /\ DOMAIN m.merged = {q.id : q \in D} /\ m.conflicts = {}
        /\ \A i \in DOMAIN m.merged : EntryOf(D, i, m.merged[i]) /\ m.merged[i] \in RequirementEntries(C)
    BY DEF MergedOf
  <1>2. ASSUME NEW i \in DOMAIN m.merged
        PROVE  /\ m.merged[i].dependsOn = DependenciesOf(D, i)
               /\ m.merged[i].depth = Max({r.depth : r \in {q \in D : q.id = i}})
    <2> DEFINE e == m.merged[i]
               S == {r.depth : r \in {q \in D : q.id = i}}
    <2>1. EntryOf(D, i, e)
      BY <1>1
    <2>2. e.dependsOn = DependenciesOf(D, i)
      BY <2>1 DEF EntryOf, DependenciesOf
    <2>3. e.depth \in S /\ \A d \in S : d <= e.depth
      BY <2>1 DEF EntryOf
    <2>4. e.depth \in Nat /\ \A d \in S : d \in Nat
      BY <1>1 DEF RequirementEntries, IsRequirement
    <2> HIDE DEF S, e
    <2>5. \A x \in S : (\A y \in S : x >= y) => x = e.depth
      BY <2>3, <2>4
    <2>6. \A y \in S : e.depth >= y
      BY <2>3, <2>4
    <2>7. Max(S) = e.depth
      BY <2>3, <2>5, <2>6 DEF Max
    <2> QED BY <2>2, <2>7 DEF S, e
  <1>3. \A q \in D : q.id \in DOMAIN m.merged /\ q.kind = m.merged[q.id].kind
                    /\ (q.required => m.merged[q.id].required)
    BY <1>1 DEF EntryOf
  <1>4. \A i \in DOMAIN m.merged : \E q \in D : q.id = i
    BY <1>1
  <1>5. \A i \in DOMAIN m.merged : m.merged[i].required => \E q \in D : q.id = i /\ q.required
    BY <1>1 DEF EntryOf
  <1>6. ASSUME NEW kind PROVE OfKind(m.merged, kind) = {r.id : r \in {q \in D : q.kind = kind}}
    BY <1>3, <1>4 DEF OfKind
  <1>7. ASSUME NEW kind
        PROVE  RequiredOf(m.merged, kind) = {r.id : r \in {q \in D : q.kind = kind /\ q.required}}
    BY <1>3, <1>5 DEF OfKind, RequiredOf
  <1> QED BY <1>1, <1>2, <1>6, <1>7 DEF Asks

\* What is walked, of requirements that agree, is what the contract closes.
LEMMA NeededIs ==
  ASSUME NEW D, NEW C, NEW m, MergedOf(D, C, m), \A q \in D : IsRequirement(q), Compatible(D),
         m.conflicts \subseteq Conflicts
  PROVE  LET c == DependencyClosure(m)
             modules == {r.id : r \in {q \in D : q.kind = "module"}}
         IN /\ c.required = Needed(D, modules)
            /\ c.required \subseteq DOMAIN m.merged
            /\ c.conflicts = {} <=> \A i \in c.required : DependenciesOf(D, i) \subseteq modules
  <1> DEFINE c == DependencyClosure(m)
             modules == {r.id : r \in {q \in D : q.kind = "module"}}
             start == RequiredOf(m.merged, "module")
             all == {S \in SUBSET modules : IsClosed(D, modules, S)}
  <1>1. /\ \A i \in DOMAIN m.merged : m.merged[i].dependsOn = DependenciesOf(D, i)
        /\ modules = OfKind(m.merged, "module")
        /\ start = {r.id : r \in {q \in D : q.kind = "module" /\ q.required}}
    <2>1. Asks(D, m)
      BY MergedAsks
    <2> QED BY <2>1 DEF Asks
  <1>2. IsWalkable(m.merged)
    BY DEF MergedOf, RequirementEntries, IsWalkable, OfKind, IsRequirement
  <1>3. /\ c.required \subseteq modules
        /\ IsClosedUnder(m.merged, start, c.required)
        /\ \A S \in SUBSET modules : IsClosedUnder(m.merged, start, S) => c.required \subseteq S
        /\ c.conflicts = {} <=> /\ m.conflicts = {}
                               /\ \A i \in c.required : m.merged[i].dependsOn \subseteq modules
    BY <1>1, <1>2, ClosureIs
  <1>4. modules \subseteq DOMAIN m.merged
    BY <1>1 DEF OfKind
  <1> HIDE DEF c, modules, start
  <1>5. ASSUME NEW S \in SUBSET modules
        PROVE  IsClosed(D, modules, S) <=> IsClosedUnder(m.merged, start, S)
    BY <1>1, <1>4 DEF IsClosed, IsClosedUnder
  <1>6. c.required \in all /\ \A S \in all : c.required \subseteq S
    BY <1>3, <1>5
  <1>7. c.required = Needed(D, modules)
    BY <1>3, <1>6 DEF Needed
  <1>8. m.conflicts = {}
    BY DEF MergedOf
  <1> QED BY <1>1, <1>3, <1>4, <1>7, <1>8 DEF c, modules

\* A resolution is what the contract says of all that is asked.
LEMMA ResolutionIs ==
  ASSUME NEW profile, NEW templates, IsCatalog(templates)
  PROVE  MeetsContract(AllAsked(profile, templates), ResolveBlueprint(profile, templates))
  <1> DEFINE items == AskedItems(profile, templates)
             D == AllAsked(profile, templates)
             m == Merging(items)
             c == DependencyClosure(m)
             depends == [i \in c.required |-> m.merged[i].dependsOn \intersect c.required]
             result == ResolveBlueprint(profile, templates)
             modules == {r.id : r \in {q \in D : q.kind = "module"}}
             needed == Needed(D, modules)
             legal == /\ Compatible(D)
                      /\ \A i \in needed : DependenciesOf(D, i) \subseteq modules
                      /\ ~Cyclic(D, needed)
  <1>1. AreItems(items) /\ AskedBy(items) = D
    BY ItemsAsk
  <1>2. MergedOf(D, Constraints(items), m) /\ m.conflicts \subseteq Conflicts
    BY <1>1, MergingIs
  <1>3. \A q \in D : IsRequirement(q)
    BY <1>1 DEF AreItems, AskedBy
  <1>4. /\ result.status = IF c.conflicts = {} /\ CycleConflicts(depends) = {}
                           THEN "success" ELSE "conflict"
        /\ result.modules = c.required
        /\ result.gates = RequiredOf(m.merged, "gate")
        /\ result.requirements = m.merged
    BY DEF ResolveBlueprint
  <1>5. CASE ~Compatible(D)
    <2>1. m.conflicts # {}
      BY <1>2, <1>5 DEF MergedOf
    <2>2. IsWalkable(m.merged)
      BY <1>2, <1>3 DEF MergedOf, RequirementEntries, IsWalkable, OfKind, IsRequirement
    <2>3. c.conflicts # {}
      BY <1>2, <2>1, <2>2, ClosureIs
    <2>4. result.status # "success"
      BY <1>4, <2>3
    <2>5. legal = FALSE
      BY <1>5
    <2> HIDE DEF result, D, m, c
    <2>6. MeetsContract(D, result)
      <3> HIDE DEF legal
      <3>1. (result.status = "success") = legal /\ (legal => FALSE)
        BY <2>4, <2>5
      <3> QED BY <3>1 DEF MeetsContract, legal, needed, modules
    <2> QED BY <2>6 DEF D, result
  <1>6. CASE Compatible(D)
    <2> HIDE DEF D, items, m, c, needed, result, modules, depends, legal
    <2>1. /\ c.required = needed
          /\ c.required \subseteq DOMAIN m.merged
          /\ c.conflicts = {} <=> \A i \in needed : DependenciesOf(D, i) \subseteq modules
      BY <1>2, <1>3, <1>6, NeededIs DEF c, needed, modules
    <2>2. /\ DOMAIN m.merged = {q.id : q \in D}
          /\ \A i \in DOMAIN m.merged :
               /\ m.merged[i].dependsOn = DependenciesOf(D, i)
               /\ m.merged[i].depth = Max({r.depth : r \in {q \in D : q.id = i}})
          /\ RequiredOf(m.merged, "gate")
               = {r.id : r \in {q \in D : q.kind = "gate" /\ q.required}}
      <3>1. Asks(D, m)
        BY <1>2, <1>3, <1>6, MergedAsks
      <3> QED BY <3>1 DEF Asks
    <2>3. IsGraph(depends)
      BY <1>3, <2>1, <2>2 DEF IsGraph, IsRequirement, depends
    <2>4. CycleConflicts(depends) = {} <=> \A C \in SUBSET c.required : ~Bites(depends, C)
      <3>1. DOMAIN depends = c.required
        BY DEF depends
      <3> QED BY <2>3, <3>1, CyclesAre
    <2>5. ASSUME NEW C \in SUBSET c.required
          PROVE  Bites(depends, C) <=> C # {} /\ \A i \in C : DependenciesOf(D, i) \intersect C # {}
      <3>1. ASSUME NEW i \in C PROVE depends[i] \intersect C = DependenciesOf(D, i) \intersect C
        BY <2>1, <2>2 DEF depends
      <3> QED BY <3>1 DEF Bites
    <2>6. CycleConflicts(depends) = {} <=> ~Cyclic(D, needed)
      BY <2>1, <2>4, <2>5 DEF Cyclic
    <2>7. (result.status = "success") = legal
      BY <1>4, <1>6, <2>1, <2>6 DEF legal
    <2>8. legal => /\ result.modules = needed
                   /\ result.gates = {r.id : r \in {q \in D : q.kind = "gate" /\ q.required}}
                   /\ \A i \in DOMAIN result.requirements :
                        result.requirements[i].depth
                          = Max({r.depth : r \in {q \in D : q.id = i}})
      BY <1>4, <2>1, <2>2
    <2>9. MeetsContract(D, result)
      BY <2>7, <2>8 DEF MeetsContract, legal, needed, modules
    <2> QED BY <2>9 DEF D, result
  <1> QED BY <1>5, <1>6

ResolverInv ==
  answer # NoAnswer =>
    /\ IsCatalog(supplied.templates)
    /\ answer = ResolveBlueprint(supplied.profile, supplied.templates)

(* Whatever the catalogs, their profiles and their number: what the service *)
(* answers is what the contract says of the templates it read - which are   *)
(* the runtime's constitution and the catalog's others.                     *)
THEOREM ResolutionsMeetContract == SpecResolver => []ResolutionMeetsContract
  <1>1. InitResolver => ResolverInv
    BY DEF InitResolver, ResolverInv
  <1>2. ResolverInv /\ [ResolveAny]_resolverVars => ResolverInv'
    <2> SUFFICES ASSUME ResolverInv, [ResolveAny]_resolverVars PROVE ResolverInv'
      OBVIOUS
    <2>1. CASE ResolveAny
      <3>1. PICK t \in Catalogs : ResolveProfile(t.profile, t.constitution, t.delegated)
        BY <2>1 DEF ResolveAny
      <3> DEFINE templates == SnapshotFor(t.constitution, t.delegated)
                 S == DOMAIN t.delegated
      <3>2. /\ supplied' = [profile |-> t.profile, templates |-> templates]
            /\ answer' = ResolveBlueprint(t.profile, templates)
        BY <3>1 DEF ResolveProfile
      <3>3. /\ IsTemplate(t.constitution) /\ IsFiniteSet(S)
            /\ \A n \in S : IsTemplate(t.delegated[n])
        BY ResolverAssumption
      <3>4. IsFiniteSet({t.delegated[n] : n \in Others(t.constitution, t.delegated)})
        <4>1. IsFiniteSet(Others(t.constitution, t.delegated))
          BY <3>3, FS_Subset DEF Others
        <4> DEFINE T == Others(t.constitution, t.delegated)
                   F(n) == t.delegated[n]
        <4>2. IsFiniteSet({F(n) : n \in T})
          <5> HIDE DEF F, T
          <5>1. [n \in T |-> F(n)] \in Surjection(T, {F(n) : n \in T})
            BY DEF Surjection
          <5> QED BY <4>1, <5>1, FS_Surjection DEF T
        <4> QED BY <4>2
      <3>5. IsFiniteSet(templates)
        BY <3>4, FS_AddElement, FS_Singleton, FS_Union DEF SnapshotFor
      <3>6. \A u \in templates : IsTemplate(u)
        BY <3>3 DEF SnapshotFor, Others
      <3>7. IsCatalog(templates)
        BY <3>5, <3>6 DEF IsCatalog
      <3> HIDE DEF templates
      <3> QED BY <3>2, <3>7 DEF ResolverInv
    <2>2. CASE UNCHANGED resolverVars
      BY <2>2 DEF resolverVars, ResolverInv, NoAnswer
    <2> QED BY <2>1, <2>2
  <1>3. ResolverInv => ResolutionMeetsContract
    BY ResolutionIs DEF ResolverInv, ResolutionMeetsContract
  <1> QED BY <1>1, <1>2, <1>3, PTL DEF SpecResolver

\* The entries of a success, each made of all that is asked of its id.
LEMMA SuccessIs ==
  ASSUME NEW profile, NEW templates, IsCatalog(templates),
         ResolveBlueprint(profile, templates).status = "success"
  PROVE  LET D == AllAsked(profile, templates)
             r == ResolveBlueprint(profile, templates)
             C == Constraints(AskedItems(profile, templates))
         IN /\ Compatible(D) /\ \A q \in D : IsRequirement(q)
            /\ r.modules = Needed(D, {q.id : q \in {p \in D : p.kind = "module"}})
            /\ r.gates = {q.id : q \in {p \in D : p.kind = "gate" /\ p.required}}
            /\ r.requirements \in [{q.id : q \in D} -> RequirementEntries(C)]
            /\ \A i \in DOMAIN r.requirements : EntryOf(D, i, r.requirements[i])
  <1> DEFINE items == AskedItems(profile, templates)
             D == AllAsked(profile, templates)
             r == ResolveBlueprint(profile, templates)
             m == Merging(items)
  <1>1. AreItems(items) /\ AskedBy(items) = D
    BY ItemsAsk
  <1>2. MergedOf(D, Constraints(items), m) /\ r.requirements = m.merged
    BY <1>1, MergingIs DEF ResolveBlueprint
  <1>3. \A q \in D : IsRequirement(q)
    BY <1>1 DEF AreItems, AskedBy
  <1>4. MeetsContract(D, r)
    BY ResolutionIs
  <1> HIDE DEF items, D, r, m
  <1>5. /\ Compatible(D)
        /\ r.modules = Needed(D, {q.id : q \in {p \in D : p.kind = "module"}})
        /\ r.gates = {q.id : q \in {p \in D : p.kind = "gate" /\ p.required}}
    BY <1>4 DEF MeetsContract, r
  <1>6. /\ r.requirements \in [{q.id : q \in D} -> RequirementEntries(Constraints(items))]
        /\ \A i \in DOMAIN r.requirements : EntryOf(D, i, r.requirements[i])
    BY <1>2, <1>5 DEF MergedOf
  <1> QED BY <1>3, <1>5, <1>6 DEF items, D, r

(* What more requirements ask for is closed for fewer. *)
LEMMA NeededGrows ==
  ASSUME NEW D, NEW E, D \subseteq E
  PROVE  Needed(D, {q.id : q \in {p \in D : p.kind = "module"}})
           \subseteq Needed(E, {q.id : q \in {p \in E : p.kind = "module"}})
  <1> DEFINE few == {q.id : q \in {p \in D : p.kind = "module"}}
             many == {q.id : q \in {p \in E : p.kind = "module"}}
  <1>1. few \subseteq many
    OBVIOUS
  <1>2. ASSUME NEW S \in SUBSET many, IsClosed(E, many, S)
        PROVE  IsClosed(D, few, S \intersect few)
    <2>1. {q.id : q \in {p \in D : p.kind = "module" /\ p.required}} \subseteq S \intersect few
      BY <1>2 DEF IsClosed
    <2>2. ASSUME NEW i \in S \intersect few
          PROVE  DependenciesOf(D, i) \intersect few \subseteq S \intersect few
      <3>1. DependenciesOf(D, i) \subseteq DependenciesOf(E, i)
        BY DEF DependenciesOf
      <3>2. DependenciesOf(E, i) \intersect many \subseteq S
        BY <1>2, <2>2 DEF IsClosed
      <3> QED BY <1>1, <3>1, <3>2
    <2> HIDE DEF few, many
    <2> QED BY <2>1, <2>2 DEF IsClosed
  <1> HIDE DEF few, many
  <1>3. ASSUME NEW i \in Needed(D, few) PROVE i \in Needed(E, many)
    <2>1. i \in few /\ \A S \in SUBSET few : IsClosed(D, few, S) => i \in S
      BY <1>3 DEF Needed
    <2>2. ASSUME NEW S \in SUBSET many, IsClosed(E, many, S) PROVE i \in S
      <3>1. S \intersect few \in SUBSET few /\ IsClosed(D, few, S \intersect few)
        BY <1>2, <2>2
      <3> QED BY <2>1, <3>1
    <2> QED BY <1>1, <2>1, <2>2 DEF Needed
  <1> QED BY <1>3 DEF few, many

(* The promise of the resolution contract to whoever adds a template: it   *)
(* never takes away a module or a gate that was required, a dependency, a  *)
(* constraint or any of the depth asked; it can only make resolveBlueprint *)
(* refuse.                                                                 *)
THEOREM LayersNeverWeaken ==
  ASSUME NEW profile, NEW templates, NEW more, IsCatalog(more), templates \subseteq more,
         ResolveBlueprint(profile, templates).status = "success",
         ResolveBlueprint(profile, more).status = "success"
  PROVE  LET r == ResolveBlueprint(profile, templates)
             s == ResolveBlueprint(profile, more)
         IN /\ r.modules \subseteq s.modules /\ r.gates \subseteq s.gates
            /\ \A i \in DOMAIN r.requirements :
                 LET before == r.requirements[i]
                     after == s.requirements[i]
                 IN /\ i \in DOMAIN s.requirements /\ before.kind = after.kind
                    /\ before.required => after.required
                    /\ before.depth <= after.depth
                    /\ before.dependsOn \subseteq after.dependsOn
                    /\ before.constraint \in {NoConstraint, after.constraint}
  <1> DEFINE D == AllAsked(profile, templates)
             E == AllAsked(profile, more)
             r == ResolveBlueprint(profile, templates)
             s == ResolveBlueprint(profile, more)
  <1>1. IsCatalog(templates)
    BY FS_Subset DEF IsCatalog
  <1>2. D \subseteq E
    BY DEF AllAsked
  <1>3. /\ r.modules = Needed(D, {q.id : q \in {p \in D : p.kind = "module"}})
        /\ r.gates = {q.id : q \in {p \in D : p.kind = "gate" /\ p.required}}
        /\ DOMAIN r.requirements = {q.id : q \in D}
        /\ \A i \in DOMAIN r.requirements : EntryOf(D, i, r.requirements[i])
    BY <1>1, SuccessIs
  <1>4. /\ s.modules = Needed(E, {q.id : q \in {p \in E : p.kind = "module"}})
        /\ s.gates = {q.id : q \in {p \in E : p.kind = "gate" /\ p.required}}
        /\ DOMAIN s.requirements = {q.id : q \in E}
        /\ \A i \in DOMAIN s.requirements : EntryOf(E, i, s.requirements[i])
    BY SuccessIs
  <1> HIDE DEF D, E, r, s
  <1>5. r.modules \subseteq s.modules /\ r.gates \subseteq s.gates
    BY <1>2, <1>3, <1>4, NeededGrows
  <1>6. ASSUME NEW i \in DOMAIN r.requirements
        PROVE  LET before == r.requirements[i]
                   after == s.requirements[i]
               IN /\ i \in DOMAIN s.requirements /\ before.kind = after.kind
                  /\ before.required => after.required
                  /\ before.depth <= after.depth
                  /\ before.dependsOn \subseteq after.dependsOn
                  /\ before.constraint \in {NoConstraint, after.constraint}
    <2>1. i \in DOMAIN s.requirements
      BY <1>2, <1>3, <1>4, <1>6
    <2>2. EntryOf(D, i, r.requirements[i]) /\ EntryOf(E, i, s.requirements[i])
      BY <1>3, <1>4, <1>6, <2>1
    <2> QED BY <1>2, <2>1, <2>2 DEF EntryOf
  <1> QED BY <1>5, <1>6 DEF r, s

(* What the layers ask for is all that counts: who asks for it, in which   *)
(* template, with what precedence, in what order and how often changes     *)
(* neither whether resolveBlueprint succeeds nor anything it resolves.     *)
THEOREM PrecedenceDecidesNothing ==
  ASSUME NEW profile, NEW templates, NEW profile2, NEW templates2,
         IsCatalog(templates), IsCatalog(templates2),
         AllAsked(profile, templates) = AllAsked(profile2, templates2)
  PROVE  LET r == ResolveBlueprint(profile, templates)
             s == ResolveBlueprint(profile2, templates2)
         IN /\ r.status = s.status
            /\ r.status = "success" => /\ r.modules = s.modules /\ r.gates = s.gates
                                       /\ r.requirements = s.requirements
  <1> DEFINE D == AllAsked(profile, templates)
             E == AllAsked(profile2, templates2)
             C == Constraints(AskedItems(profile, templates))
             B == Constraints(AskedItems(profile2, templates2))
             r == ResolveBlueprint(profile, templates)
             s == ResolveBlueprint(profile2, templates2)
  <1>1. MeetsContract(D, r) /\ MeetsContract(D, s)
    BY ResolutionIs
  <1>2. r.status \in {"success", "conflict"} /\ s.status \in {"success", "conflict"}
    BY DEF ResolveBlueprint
  <1>3. r.status = "success" =>
          /\ r.modules = Needed(D, {q.id : q \in {p \in D : p.kind = "module"}})
          /\ r.gates = {q.id : q \in {p \in D : p.kind = "gate" /\ p.required}}
          /\ r.requirements \in [{q.id : q \in D} -> RequirementEntries(C)]
          /\ \A i \in DOMAIN r.requirements : EntryOf(D, i, r.requirements[i])
    BY SuccessIs
  <1>4. s.status = "success" =>
          /\ s.modules = Needed(E, {q.id : q \in {p \in E : p.kind = "module"}})
          /\ s.gates = {q.id : q \in {p \in E : p.kind = "gate" /\ p.required}}
          /\ s.requirements \in [{q.id : q \in E} -> RequirementEntries(B)]
          /\ \A i \in DOMAIN s.requirements : EntryOf(E, i, s.requirements[i])
    BY SuccessIs
  <1>5. D = E
    OBVIOUS
  <1> HIDE DEF D, E, C, B, r, s
  <1>6. s.status = "success" =>
          /\ s.modules = Needed(D, {q.id : q \in {p \in D : p.kind = "module"}})
          /\ s.gates = {q.id : q \in {p \in D : p.kind = "gate" /\ p.required}}
          /\ s.requirements \in [{q.id : q \in D} -> RequirementEntries(B)]
          /\ \A i \in DOMAIN s.requirements : EntryOf(D, i, s.requirements[i])
    BY <1>4, <1>5
  <1>7. r.status = s.status
    BY <1>1, <1>2 DEF MeetsContract
  <1>8. ASSUME r.status = "success" PROVE r.requirements = s.requirements
    <2>1. ASSUME NEW i \in {q.id : q \in D} PROVE r.requirements[i] = s.requirements[i]
      <3> DEFINE e == r.requirements[i]
                 f == s.requirements[i]
      <3>1. e \in RequirementEntries(C) /\ f \in RequirementEntries(B) /\ EntryOf(D, i, e) /\ EntryOf(D, i, f)
        BY <1>3, <1>6, <1>7, <1>8, <2>1
      <3> HIDE DEF e, f
      <3>2. e.kind = f.kind /\ e.depth = f.depth /\ e.dependsOn = f.dependsOn
        BY <3>1 DEF EntryOf, RequirementEntries
      <3>3. e.constraint = f.constraint
        BY <3>1 DEF EntryOf
      <3>4. e.required = f.required
        BY <3>1 DEF EntryOf, RequirementEntries
      <3>5. e = f
        BY <3>1, <3>2, <3>3, <3>4 DEF RequirementEntries
      <3> QED BY <3>5 DEF e, f
    <2> QED BY <1>3, <1>6, <1>7, <1>8, <2>1
  <1> QED BY <1>3, <1>6, <1>7, <1>8 DEF r, s

-----------------------------------------------------------------------------
(***************************************************************************)
(* The factory.                                                            *)
(***************************************************************************)

\* The modules a resolution requires depend on each other in no cycle.
LEMMA ResolvedIsAcyclic ==
  ASSUME NEW profile, NEW templates, IsCatalog(templates), NEW result,
         result = ResolveBlueprint(profile, templates), result.status = "success"
  PROVE  /\ result.modules \union result.gates \subseteq Ids
         /\ \A C \in SUBSET result.modules : C # {} =>
              \E i \in C : result.requirements[i].dependsOn \intersect C = {}
  <1> DEFINE items == AskedItems(profile, templates)
             m == Merging(items)
             c == DependencyClosure(m)
             depends == [i \in c.required |-> m.merged[i].dependsOn \intersect c.required]
  <1>1. AreItems(items)
    BY ItemsAsk
  <1>2. MergedOf(AskedBy(items), Constraints(items), m) /\ m.conflicts \subseteq Conflicts
    BY <1>1, MergingIs
  <1>3. DOMAIN m.merged \subseteq Ids /\ \A i \in DOMAIN m.merged : m.merged[i].dependsOn \subseteq Ids
    BY <1>1, <1>2 DEF MergedOf, RequirementEntries, AreItems, AskedBy, IsRequirement
  <1>4. /\ CycleConflicts(depends) = {}
        /\ result.modules = c.required
        /\ result.gates = RequiredOf(m.merged, "gate")
        /\ result.requirements = m.merged
    BY DEF ResolveBlueprint
  <1> HIDE DEF m
  <1>5. IsWalkable(m.merged)
    BY <1>3 DEF IsWalkable, OfKind
  <1>6. c.required \subseteq OfKind(m.merged, "module")
    BY <1>2, <1>5, ClosureIs
  <1> HIDE DEF c
  <1>7. c.required \subseteq Ids /\ RequiredOf(m.merged, "gate") \subseteq Ids
    BY <1>3, <1>6 DEF RequiredOf, OfKind
  <1>8. IsGraph(depends) /\ DOMAIN depends = c.required
    BY <1>7 DEF IsGraph
  <1> HIDE DEF depends
  <1>9. \A C \in SUBSET c.required : ~Bites(depends, C)
    BY <1>4, <1>8, CyclesAre
  <1>10. ASSUME NEW C \in SUBSET c.required, C # {}
         PROVE  \E i \in C : m.merged[i].dependsOn \intersect C = {}
    <2>1. PICK i \in C : depends[i] \intersect C = {}
      BY <1>9, <1>10 DEF Bites
    <2>2. depends[i] \intersect C = m.merged[i].dependsOn \intersect C
      BY DEF depends
    <2> QED BY <2>1, <2>2
  <1> QED BY <1>4, <1>7, <1>10

\* The items of a roadmap are one for each id, and there are finitely many.
LEMMA RoadmapCounts ==
  ASSUME NEW result, result.modules \union result.gates \subseteq Ids
  PROVE  LET I == result.modules \union result.gates IN
         /\ IsFiniteSet(I) /\ Cardinality(I) \in Nat
         /\ Cardinality(Roadmap(result)) \in Nat
         /\ Cardinality(I) <= Cardinality(Roadmap(result))
  <1> DEFINE I == result.modules \union result.gates
             F(id) == RoadmapItem(result, id)
             R == {F(id) : id \in I}
  <1>1. IsFiniteSet(I)
    BY ResolverAssumption, FS_Subset
  <1>2. R = Roadmap(result)
    BY DEF Roadmap
  <1>3. \A id : F(id).id = id
    BY DEF RoadmapItem
  <1> HIDE DEF F, I
  <1>4. IsFiniteSet(R)
    <2>1. [id \in I |-> F(id)] \in Surjection(I, R)
      BY DEF Surjection
    <2> HIDE DEF R
    <2> QED BY <1>1, <2>1, FS_Surjection
  <1>5. [item \in R |-> item.id] \in Surjection(R, I)
    BY <1>3 DEF Surjection
  <1> HIDE DEF R
  <1>6. Cardinality(I) <= Cardinality(R)
    BY <1>4, <1>5, FS_Surjection
  <1> QED BY <1>1, <1>2, <1>4, <1>6, FS_CardinalityType DEF I

(* The roadmap of a success can be done, step after step; it has a start.  *)
LEMMA RoadmapIsDoable ==
  ASSUME NEW profile, NEW templates, IsCatalog(templates), NEW result,
         result = ResolveBlueprint(profile, templates), result.status = "success"
  PROVE  LET I == result.modules \union result.gates
             R == Roadmap(result)
         IN /\ {item.id : item \in R} = I
            /\ Doable(R) = I
            /\ I # {} => Ready(R) # {}
  <1> DEFINE I == result.modules \union result.gates
             R == Roadmap(result)
             waits(id) == result.requirements[id].dependsOn \intersect result.modules
             Step(done) == {item.id : item \in {j \in R : j.dependsOn \subseteq done}}
             J == {X \in SUBSET I : X \subseteq Step(X)}
             s0 == {}
             step == [X \in J |-> Step(X)]
             mu == [X \in J |-> IF Step(X) = X THEN 0 ELSE Cardinality(I \ X)]
             n == Cardinality(R)
             g == CHOOSE f : f = [k \in Nat |-> IF k = 0 THEN {} ELSE Step(f[k - 1])]
  <1>1. /\ I \subseteq Ids
        /\ \A C \in SUBSET result.modules : C # {} =>
             \E i \in C : result.requirements[i].dependsOn \intersect C = {}
    BY ResolvedIsAcyclic
  <1>2. /\ \A id \in I : \E item \in R : item.id = id /\ item.dependsOn = waits(id)
        /\ \A item \in R : item.id \in I /\ item.dependsOn = waits(item.id)
    <2> DEFINE F(id) == RoadmapItem(result, id)
    <2>1. \A id : F(id).id = id /\ F(id).dependsOn = waits(id)
      BY DEF RoadmapItem
    <2>2. R = {F(id) : id \in I}
      BY DEF Roadmap
    <2> HIDE DEF F, R, waits, I
    <2> QED BY <2>1, <2>2
  <1> HIDE DEF R, waits, I
  <1>3. {item.id : item \in R} = I
    BY <1>2
  <1>4. \A X : Step(X) = {id \in I : waits(id) \subseteq X}
    BY <1>2
  <1>5. I # {} => Ready(R) # {}
    <2> SUFFICES ASSUME I # {} PROVE \E id \in I : waits(id) = {}
      BY <1>2 DEF Ready
    <2> QED BY <1>1 DEF I, waits
  <1>6. ASSUME NEW X \in J, Step(X) = X PROVE X = I
    <2> DEFINE C == result.modules \ X
    <2>1. C = {}
      <3> SUFFICES ASSUME C # {} PROVE FALSE
        OBVIOUS
      <3>1. PICK i \in C : result.requirements[i].dependsOn \intersect C = {}
        BY <1>1
      <3>2. waits(i) \subseteq X /\ i \in I
        BY <3>1 DEF waits, I
      <3> HIDE DEF Step
      <3>3. i \in Step(X)
        BY <1>4, <3>2
      <3> QED BY <1>6, <3>3
    <2>2. \A id \in I : waits(id) \subseteq X
      BY <2>1 DEF waits
    <2> HIDE DEF Step
    <2>3. I \subseteq Step(X)
      BY <1>4, <2>2
    <2> QED BY <1>6, <2>3
  <1>7. IsFiniteSet(I) /\ n \in Nat /\ Cardinality(I) <= n /\ Cardinality(I) \in Nat
    <2>1. result.modules \union result.gates \subseteq Ids
      BY <1>1 DEF I
    <2> QED BY <2>1, RoadmapCounts DEF I, R
  <1>8. s0 \in J
    OBVIOUS
  <1>9. ASSUME NEW X \in J PROVE Step(X) \in J /\ X \subseteq Step(X)
    <2>1. X \subseteq Step(X) /\ Step(X) \subseteq I
      BY <1>4
    <2>2. Step(X) \subseteq Step(Step(X))
      BY <1>4, <2>1
    <2> QED BY <2>1, <2>2
  <1> HIDE DEF Step
  <1>10. step \in [J -> J]
    BY <1>9
  <1>11. ASSUME NEW X \in J
         PROVE  IsFiniteSet(I \ X) /\ Cardinality(I \ X) \in Nat /\ Cardinality(I \ X) <= Cardinality(I)
    BY <1>7, FS_Subset, FS_CardinalityType
  <1>12. mu \in [J -> Nat]
    BY <1>11
  <1>13. ASSUME NEW X \in J PROVE mu[step[X]] = 0 \/ mu[step[X]] < mu[X]
    <2>1. step[X] = Step(X) /\ Step(X) \in J /\ X \subseteq Step(X) /\ Step(X) \subseteq I
      BY <1>9
    <2>2. CASE Step(X) = X
      BY <2>1, <2>2
    <2>3. CASE Step(X) # X
      <3>1. I \ Step(X) \subseteq I \ X /\ I \ Step(X) # I \ X
        BY <2>1, <2>3
      <3>2. Cardinality(I \ Step(X)) < Cardinality(I \ X)
        <4> DEFINE S == I \ Step(X)  T == I \ X
        <4>1. /\ S \subseteq T /\ S # T /\ IsFiniteSet(T)
              /\ Cardinality(S) \in Nat /\ Cardinality(T) \in Nat
          BY <1>11, <2>1, <3>1
        <4> HIDE DEF S, T
        <4> QED BY <4>1, FS_Subset DEF S, T
      <3>3. mu[X] = Cardinality(I \ X)
        BY <2>3
      <3>4. mu[Step(X)] = 0 \/ mu[Step(X)] = Cardinality(I \ Step(X))
        BY <2>1
      <3> QED BY <2>1, <3>2, <3>3, <3>4
    <2> QED BY <2>2, <2>3
  <1>14. PICK f \in [Nat -> J] : f[0] = s0 /\ \A k \in Nat : f[k + 1] = step[f[k]]
    <2> HIDE DEF J, s0, step
    <2> QED BY <1>8, <1>10, LoopExists
  <1>15. f = [k \in Nat |-> IF k = 0 THEN {} ELSE Step(f[k - 1])]
    <2> HIDE DEF J
    <2>1. ASSUME NEW k \in Nat, k # 0 PROVE f[k] = Step(f[k - 1])
      <3>1. k - 1 \in Nat /\ (k - 1) + 1 = k /\ f[k - 1] \in J
        BY <2>1
      <3> QED BY <1>14, <3>1
    <2> QED BY <1>14, <2>1
  <1>16. g = [k \in Nat |-> IF k = 0 THEN {} ELSE Step(g[k - 1])]
    <2> HIDE DEF J
    <2> QED BY <1>15
  <1>17. Doable(R) = g[n]
    BY DEF Doable, Repeat, Step
  <1> HIDE DEF g
  <1>18. g[0] = s0 /\ \A k \in Nat : g[k] \in J => g[k + 1] = step[g[k]]
    <2> HIDE DEF J
    <2>1. \A k \in Nat : k + 1 \in Nat /\ k + 1 # 0 /\ (k + 1) - 1 = k
      OBVIOUS
    <2> QED BY <1>16, <2>1
  <1>19. mu[s0] <= n
    <2>1. mu[s0] = 0 \/ mu[s0] = Cardinality(I \ {})
      BY <1>8
    <2>2. I \ {} = I
      OBVIOUS
    <2> HIDE DEF mu, s0
    <2> QED BY <1>7, <2>1, <2>2
  <1>20. g[n] \in J /\ mu[g[n]] = 0
    <2> HIDE DEF s0, J, step, mu, n
    <2>1. IsLoop(J, s0, step, mu, g)
      BY <1>8, <1>10, <1>12, <1>13, <1>18 DEF IsLoop
    <2> QED BY <1>7, <1>19, <2>1, LoopEnds
  <1>21. g[n] = I
    <2> SUFFICES ASSUME Step(g[n]) # g[n] PROVE FALSE
      BY <1>6, <1>20
    <2> DEFINE X == g[n]
    <2>1. X \in J /\ Cardinality(I \ X) = 0 /\ IsFiniteSet(I \ X)
      BY <1>11, <1>20
    <2> HIDE DEF X
    <2>2. I \ X = {}
      BY <2>1, FS_EmptySet
    <2>3. X \subseteq Step(X) /\ Step(X) \subseteq I
      BY <1>9, <2>1
    <2> QED BY <2>2, <2>3 DEF X
  <1> QED BY <1>3, <1>5, <1>17, <1>21 DEF I, R

\* The foundation asks of every profile for a module.
LEMMA FoundationAsks ==
  ASSUME NEW profile
  PROVE  /\ IsCatalog(FoundationTemplates)
         /\ \E r \in AllAsked(profile, FoundationTemplates) : r.kind = "module" /\ r.required
  <1> DEFINE universal == [id |-> 1, rank |-> 0, activation |-> {},
                           requirements |-> UniversalModules \o UniversalGates]
  <1>1. universal \in FoundationTemplates
    BY DEF FoundationTemplates
  <1>2. IsFiniteSet(FoundationTemplates)
    <2>1. \A a, b, c, d, e, f, h : IsFiniteSet({a, b, c, d, e, f, h})
      <3> SUFFICES ASSUME NEW a, NEW b, NEW c, NEW d, NEW e, NEW f, NEW h
                   PROVE  IsFiniteSet({a, b, c, d, e, f, h})
        OBVIOUS
      <3>1. IsFiniteSet({a} \union {b} \union {c} \union {d} \union {e} \union {f} \union {h})
        BY FS_Singleton, FS_Union
      <3>2. {a} \union {b} \union {c} \union {d} \union {e} \union {f} \union {h}
              = {a, b, c, d, e, f, h}
        OBVIOUS
      <3> QED BY <3>1, <3>2
    <2> QED BY <2>1 DEF FoundationTemplates
  <1>3. IsActive(profile, universal)
    BY DEF IsActive
  <1>4. /\ 1 \in DOMAIN universal.requirements
        /\ universal.requirements[1] = Module("product:purpose", 0, {})
    <2>1. /\ UniversalModules[1] = Module("product:purpose", 0, {})
          /\ Len(UniversalModules) \in Nat /\ Len(UniversalModules) >= 1
      BY DEF UniversalModules
    <2>2. Len(UniversalGates) \in Nat
      BY DEF UniversalGates
    <2>3. /\ DOMAIN (UniversalModules \o UniversalGates)
               = 1..(Len(UniversalModules) + Len(UniversalGates))
          /\ (UniversalModules \o UniversalGates)[1] = UniversalModules[1]
      BY <2>1, <2>2
    <2> QED BY <2>1, <2>2, <2>3
  <1>5. universal.requirements[1] \in AllAsked(profile, FoundationTemplates)
    <2> HIDE DEF universal
    <2> QED BY <1>1, <1>3, <1>4 DEF AllAsked
  <1> QED BY <1>1, <1>2, <1>4, <1>5, FactoryAssumption DEF IsCatalog, Module

\* So a success requires a module.
LEMMA FoundationRequires ==
  ASSUME NEW level, Resolution(level).status = "success"
  PROVE  Resolution(level).modules # {}
  <1> DEFINE profile == [blueprintLevel |-> level]
             D == AllAsked(profile, FoundationTemplates)
             result == Resolution(level)
             modules == {r.id : r \in {q \in D : q.kind = "module"}}
  <1>1. MeetsContract(D, result)
    <2> HIDE DEF profile
    <2> QED BY ResolutionIs, FoundationAsks DEF Resolution, profile
  <1>2. PICK r \in D : r.kind = "module" /\ r.required
    BY FoundationAsks
  <1> HIDE DEF D, result
  <1>3. result.modules = Needed(D, modules)
    BY <1>1 DEF MeetsContract, result
  <1>4. r.id \in modules
    BY <1>2
  <1>5. \A S : IsClosed(D, modules, S) => r.id \in S
    BY <1>2 DEF IsClosed
  <1>6. r.id \in Needed(D, modules)
    <2> HIDE DEF modules
    <2> QED BY <1>4, <1>5 DEF Needed
  <1> QED BY <1>3, <1>6 DEF result

LEMMA RoadmapsAreDoable ==
  ASSUME NEW level \in 0..5, Resolutions[level].status = "success"
  PROVE  /\ {item.id : item \in Roadmaps[level]} = DoableAt[level]
         /\ Ready(Roadmaps[level]) # {}
  <1> DEFINE result == Resolution(level)
  <1>1. Resolutions[level] = result /\ Roadmaps[level] = Roadmap(result)
    BY DEF Resolutions, Roadmaps
  <1>2. DoableAt[level] = Doable(Roadmap(result))
    BY <1>1 DEF DoableAt
  <1>3. result.modules # {}
    BY <1>1, FoundationRequires
  <1>4. /\ IsCatalog(FoundationTemplates)
        /\ result = ResolveBlueprint([blueprintLevel |-> level], FoundationTemplates)
    BY FoundationAsks DEF Resolution
  <1> HIDE DEF result
  <1>5. LET I == result.modules \union result.gates
            R == Roadmap(result)
        IN {item.id : item \in R} = I /\ Doable(R) = I /\ (I # {} => Ready(R) # {})
    BY <1>1, <1>4, RoadmapIsDoable
  <1> QED BY <1>1, <1>2, <1>3, <1>5

Intents == {i \in [DOMAIN Signals -> UNION {Signals[s] : s \in DOMAIN Signals}] :
              \A s \in DOMAIN Signals : i[s] \in Signals[s]}
Shown == {Plan(i) : i \in {j \in Intents : Plannable(j)}}
FactoryInv ==
  /\ intent \in Intents
  /\ pending = NoPlan \/ (pending.at \in {"preview", "confirm"} /\ pending.intent \in Intents)
  /\ pending.at = "confirm" => pending.reviewed \in Shown /\ Len(created) < MaxCreated
  /\ plan = NoPlan \/ plan \in Shown
  /\ created \in Seq([profile : Shown, reviewed : Shown]) /\ Len(created) <= MaxCreated
  /\ edits \in 0..MaxEdits

LEMMA LevelsAre ==
  ASSUME NEW i \in Intents
  PROVE  RecommendBlueprintLevel(i) \in 0..5
  <1> DEFINE S == SignalledLevels(i) \union {i.minimumBlueprintLevel}
  <1>1. i.minimumBlueprintLevel \in 0..5
    <2>1. "minimumBlueprintLevel" \in DOMAIN Signals /\ Signals["minimumBlueprintLevel"] = 0..5
      BY DEF Signals
    <2> QED BY <2>1 DEF Intents
  <1>2. S \subseteq 0..5 /\ 0 \in S
    BY <1>1 DEF SignalledLevels
  <1> HIDE DEF S
  <1>3. \E x \in S : \A y \in S : x >= y
    <2>1. CASE 5 \in S
      BY <1>2, <2>1
    <2>2. CASE 5 \notin S /\ 4 \in S
      BY <1>2, <2>2
    <2>3. CASE 5 \notin S /\ 4 \notin S /\ 3 \in S
      BY <1>2, <2>3
    <2>4. CASE 5 \notin S /\ 4 \notin S /\ 3 \notin S /\ 2 \in S
      BY <1>2, <2>4
    <2>5. CASE 5 \notin S /\ 4 \notin S /\ 3 \notin S /\ 2 \notin S
      BY <1>2, <2>5
    <2> QED BY <2>1, <2>2, <2>3, <2>4, <2>5
  <1>4. Max(S) \in S
    BY <1>3 DEF Max
  <1> QED BY <1>2, <1>4 DEF RecommendBlueprintLevel, S

LEMMA ShownAre ==
  ASSUME NEW p \in Shown
  PROVE  /\ ProfileType(p)
         /\ Resolutions[p.blueprintLevel].status = "success"
  <1>1. PICK i \in Intents : Plannable(i) /\ p = Plan(i)
    BY DEF Shown
  <1>2. p.intent = i /\ p.blueprintLevel = RecommendBlueprintLevel(i)
    BY <1>1 DEF Plan, ProfileFromIntent
  <1>3. i.text # "blank" /\ Resolutions[p.blueprintLevel].status = "success"
    BY <1>1, <1>2 DEF Plannable
  <1>4. \A s \in DOMAIN Signals : i[s] \in Signals[s]
    BY DEF Intents
  <1> QED BY <1>2, <1>3, <1>4, LevelsAre DEF ProfileType

LEMMA FactoryStarts == InitFactory => FactoryInv
  <1> SUFFICES ASSUME InitFactory PROVE FactoryInv
    OBVIOUS
  <1>1. DefaultIntent \in Intents
    <2>1. \A s \in DOMAIN Signals : DefaultIntent[s] \in Signals[s]
      BY DEF DefaultIntent, Signals
    <2>2. DefaultIntent = [s \in DOMAIN Signals |-> DefaultIntent[s]]
      BY DEF DefaultIntent, Signals
    <2> HIDE DEF Signals, DefaultIntent
    <2> QED BY <2>1, <2>2 DEF Intents
  <1> QED BY <1>1, FactoryAssumption DEF InitFactory, FactoryInv, NoPlan

LEMMA FactorySteps == FactoryInv /\ [NextFactory]_factoryVars => FactoryInv'
  <1> SUFFICES ASSUME FactoryInv, [NextFactory]_factoryVars PROVE FactoryInv'
    OBVIOUS
  <1> USE DEF FactoryInv
  <1>1. ASSUME NEW s \in DOMAIN Signals, NEW value \in Signals[s], Edit(s, value)
        PROVE  FactoryInv'
    <2>1. intent' \in Intents
      BY <1>1 DEF Edit, Intents
    <2>2. edits' \in 0..MaxEdits
      BY <1>1, FactoryAssumption DEF Edit
    <2> QED BY <1>1, <2>1, <2>2 DEF Edit
  <1>2. CASE Preview
    BY <1>2 DEF Preview
  <1>3. CASE PreviewAnswer
    <2>1. pending.intent \in Intents
      BY <1>3 DEF PreviewAnswer, NoPlan
    <2>2. plan' = NoPlan \/ plan' \in Shown
      BY <1>3, <2>1 DEF PreviewAnswer, ShownOn, Shown
    <2>3. NoPlan.at # "confirm"
      BY DEF NoPlan
    <2> QED BY <1>3, <2>2, <2>3 DEF PreviewAnswer
  <1>4. CASE Confirm
    BY <1>4 DEF Confirm
  <1>5. CASE CreateFromBootstrap
    <2> DEFINE new == [profile |-> Plan(pending.intent), reviewed |-> pending.reviewed]
    <2>1. pending.intent \in Intents /\ pending.reviewed \in Shown
      BY <1>5 DEF CreateFromBootstrap, NoPlan
    <2>2. new \in [profile : Shown, reviewed : Shown]
      BY <1>5, <2>1 DEF CreateFromBootstrap, Shown
    <2>3. NoPlan.at # "confirm"
      BY DEF NoPlan
    <2>4. created' = Append(created, new)
      BY <1>5 DEF CreateFromBootstrap
    <2> HIDE DEF new
    <2>5. /\ created' \in Seq([profile : Shown, reviewed : Shown])
          /\ Len(created') <= MaxCreated
      BY <1>5, <2>2, <2>4, FactoryAssumption DEF CreateFromBootstrap
    <2> QED BY <1>5, <2>3, <2>5 DEF CreateFromBootstrap
  <1>6. CASE ConfirmFails
    BY <1>6 DEF ConfirmFails, NoPlan
  <1>7. CASE UNCHANGED factoryVars
    BY <1>7 DEF factoryVars
  <1> QED BY <1>1, <1>2, <1>3, <1>4, <1>5, <1>6, <1>7 DEF NextFactory

(* Whatever is edited while a call is pending, the forms, plans and         *)
(* projects are well formed: a plan that is shown, or of which a project is *)
(* made, is of a full intent, with no text left blank.                      *)
THEOREM FactoryTypes == SpecFactory => []TypeOKFactory
  <1>1. FactoryInv => TypeOKFactory
    <2> SUFFICES ASSUME FactoryInv PROVE TypeOKFactory
      OBVIOUS
    <2>1. \A s \in DOMAIN Signals : intent[s] \in Signals[s]
      BY DEF FactoryInv, Intents
    <2>2. plan = NoPlan \/ ProfileType(plan)
      BY ShownAre DEF FactoryInv
    <2>3. ASSUME NEW n \in DOMAIN created PROVE ProfileType(created[n].profile)
      <3>1. created[n] \in [profile : Shown, reviewed : Shown]
        <4> DEFINE X == [profile : Shown, reviewed : Shown]
        <4>1. created \in Seq(X)
          BY DEF FactoryInv
        <4> HIDE DEF X
        <4>2. created[n] \in X
          BY <4>1, ElementOfSeq
        <4> QED BY <4>2 DEF X
      <3> QED BY <3>1, ShownAre
    <2>4. Len(created) \in 0..MaxCreated
      BY FactoryAssumption DEF FactoryInv
    <2> QED BY <2>1, <2>2, <2>3, <2>4 DEF FactoryInv, TypeOKFactory, NoPlan
  <1> QED BY <1>1, FactoryStarts, FactorySteps, PTL DEF SpecFactory

(* However long the page is edited, previewed and confirmed: every plan it  *)
(* shows can be carried out in the order of its roadmap, and has a start.   *)
THEOREM PlansCanBeCarriedOut == SpecFactory => []PlansAreExecutable
  <1>1. FactoryInv => PlansAreExecutable
    <2> SUFFICES ASSUME FactoryInv, plan # NoPlan
                 PROVE  /\ {item.id : item \in Roadmaps[plan.blueprintLevel]}
                             = DoableAt[plan.blueprintLevel]
                        /\ Ready(Roadmaps[plan.blueprintLevel]) # {}
      BY DEF PlansAreExecutable
    <2>1. plan \in Shown
      BY DEF FactoryInv
    <2>2. plan.blueprintLevel \in 0..5 /\ Resolutions[plan.blueprintLevel].status = "success"
      BY <2>1, ShownAre DEF ProfileType
    <2> QED BY <2>2, RoadmapsAreDoable
  <1> QED BY <1>1, FactoryStarts, FactorySteps, PTL DEF SpecFactory

-----------------------------------------------------------------------------
(* The guided page from a profile to a prompt.                             *)

JourneyCalls ==
  [kind : {"resolve"}, form : Texts]
    \union [kind : {"create"}, form : Texts, project : PreviewToken..MaxProjects]
    \union [kind : {"persist"}, at : {"gate", "work", "done"}, ids : Tokens,
            project : PreviewToken..MaxProjects, title : Texts]
    \union [kind : {"prompt"}, project : PreviewToken..MaxProjects,
            of : {"preview", "canonical"}]

JourneyTypes == TypeOKJourney /\ asked \subseteq JourneyCalls

(* The buttons wait for the call they made; only prompts are also asked    *)
(* for from the list of stages, which does not.                            *)
OneCallOfAButton ==
  \A c, d \in asked : c.kind # "prompt" /\ d.kind # "prompt" => c = d

(* A project is asked for while there is room, its answer names one that   *)
(* is stored, and what is stored is what the page shows unless it has been *)
(* edited meanwhile.                                                       *)
CreatesAreOfThePage ==
  \A c \in asked : c.kind = "create" =>
    /\ c.form = shown.form \/ "form" \in late
    /\ IF c.project = PreviewToken THEN Len(stored.projects) < MaxProjects
       ELSE c.project \in DOMAIN stored.projects /\ stored.projects[c.project] = c.form

(* A profile is resolved for the project of the page, or for none. *)
ResolvesAreOfThePage ==
  \A c \in asked : c.kind = "resolve" => shown.ids = PreviewToken \/ c.form = shown.form

(* A call to store the work is for the project of the page, unless the     *)
(* page has gone back to a preview meanwhile, and for its title unless     *)
(* edited meanwhile, and what it has inserted is there.                    *)
PersistsAreOfThePage ==
  \A c \in asked : c.kind = "persist" =>
    /\ shown.ids \in {PreviewToken, c.ids}
    /\ c.title = shown.title \/ "title" \in late
    /\ c.at \in {"work", "done"} => c.ids \in stored.gates
    /\ c.at = "done" => [project |-> c.ids, title |-> c.title] \in stored.work

(* The same of the project and of the work the page shows. *)
ProjectIsOfThePage ==
  shown.ids # PreviewToken =>
    /\ shown.ids \in DOMAIN stored.projects
    /\ \/ /\ shown.form = stored.projects[shown.ids]
          /\ shown.resolution.form \in {shown.form, NoText}
       \/ "form" \in late

WorkIsOfThePage ==
  shown.work # NoWork =>
    /\ shown.ids \in {PreviewToken, shown.work.project}
    /\ shown.work \in stored.work
    /\ shown.title = shown.work.title \/ "title" \in late

CallsAreOfThePage == CreatesAreOfThePage /\ ResolvesAreOfThePage /\ PersistsAreOfThePage
WorkHasItsGate == \A w \in stored.work : w.project \in stored.gates

StoredType ==
  [projects : Seq(Texts), gates : SUBSET Tokens, work : SUBSET [project : Tokens, title : Texts]]

JourneyInv ==
  /\ JourneyTypes /\ OneCallOfAButton /\ CallsAreOfThePage
  /\ ProjectIsOfThePage /\ WorkIsOfThePage /\ WorkHasItsGate

LEMMA StagesStay ==
  /\ \A i \in DOMAIN Stages : Stages[i] \in {Stages[j] : j \in DOMAIN Stages}
  /\ {"project", "blueprint", "work", "gate", "prompt"} = {Stages[j] : j \in DOMAIN Stages}
  /\ \A s \in {Stages[j] : j \in DOMAIN Stages} :
       /\ NextStage(s) \in {Stages[j] : j \in DOMAIN Stages}
       /\ PreviousStage(s) \in {Stages[j] : j \in DOMAIN Stages}
<1>1. DOMAIN Stages = 1..5 BY DEF Stages
<1>2. /\ Stages[1] = "project" /\ Stages[2] = "blueprint" /\ Stages[3] = "work"
      /\ Stages[4] = "gate" /\ Stages[5] = "prompt"
  BY DEF Stages
<1>3. {"project", "blueprint", "work", "gate", "prompt"} = {Stages[j] : j \in DOMAIN Stages}
  BY <1>1, <1>2
<1>4. ASSUME NEW s \in {Stages[j] : j \in DOMAIN Stages}
      PROVE  /\ NextStage(s) \in {Stages[j] : j \in DOMAIN Stages}
             /\ PreviousStage(s) \in {Stages[j] : j \in DOMAIN Stages}
  <2>1. \E i \in 1..5 : Stages[i] = s
    BY <1>1
  <2>2. StageIndex(s) \in 1..5 /\ Stages[StageIndex(s)] = s
    BY <1>1, <2>1 DEF StageIndex
  <2>3. s # "prompt" => StageIndex(s) + 1 \in 1..5
    BY <1>2, <2>2
  <2>4. s # "project" => StageIndex(s) - 1 \in 1..5
    BY <1>2, <2>2
  <2> QED BY <1>1, <2>3, <2>4 DEF NextStage, PreviousStage
<1> QED BY <1>3, <1>4

(* What the page is reset to. *)
LEMMA EmptyPage ==
  /\ PreviewToken \in PreviewToken..MaxProjects /\ Tokens \subseteq PreviewToken..MaxProjects
  /\ NoResolution \in [project : PreviewToken..MaxProjects, form : Texts \union {NoText}]
  /\ NoWork \in [project : PreviewToken..MaxProjects, title : Texts \union {NoText}]
BY JourneyAssumption DEF PreviewToken, Tokens, NoResolution, NoWork

LEMMA JourneyInit == InitJourney => JourneyInv
<1> SUFFICES ASSUME InitJourney PROVE JourneyInv
  OBVIOUS
<1>1. shown \in ShownType
  <2>1. PICK t \in Texts :
          shown = [stage |-> "project", form |-> t, title |-> t, resolution |-> NoResolution,
                   ids |-> PreviewToken, work |-> NoWork, projection |-> NoText]
    BY DEF InitJourney
  <2>2. "project" \in {Stages[i] : i \in DOMAIN Stages}
    BY StagesStay
  <2> QED BY <2>1, <2>2, EmptyPage DEF ShownType
<1>2. JourneyTypes
  <2>1. stored.projects \in Seq(Texts) /\ Len(stored.projects) = 0
    BY DEF InitJourney
  <2>2. stored \in StoredType
    BY <2>1 DEF InitJourney, StoredType
  <2> QED
    BY <1>1, <2>1, <2>2, JourneyAssumption DEF InitJourney, JourneyTypes, TypeOKJourney, StoredType
<1>3. shown.ids = PreviewToken /\ shown.work = NoWork
  BY DEF InitJourney
<1> QED
  BY <1>2, <1>3
  DEF InitJourney, JourneyInv, OneCallOfAButton, CallsAreOfThePage, CreatesAreOfThePage,
      ResolvesAreOfThePage, PersistsAreOfThePage, ProjectIsOfThePage, WorkIsOfThePage,
      WorkHasItsGate

(* Only the stage moves. *)
LEMMA GoingKeepsJourney ==
  ASSUME JourneyInv, NEW s \in {Stages[j] : j \in DOMAIN Stages}, GoTo(s)
  PROVE  JourneyInv'
<1>1. shown' \in ShownType
  BY DEF JourneyInv, JourneyTypes, TypeOKJourney, GoTo, ShownType
<1>2. /\ shown'.ids = shown.ids /\ shown'.work = shown.work /\ shown'.form = shown.form
      /\ shown'.title = shown.title /\ shown'.resolution = shown.resolution
  BY DEF JourneyInv, JourneyTypes, TypeOKJourney, GoTo, ShownType
<1>3. JourneyTypes' /\ OneCallOfAButton'
  BY <1>1 DEF GoTo, JourneyInv, JourneyTypes, TypeOKJourney, OneCallOfAButton
<1>4. CallsAreOfThePage'
  BY <1>2 DEF GoTo, JourneyInv, CallsAreOfThePage, CreatesAreOfThePage, ResolvesAreOfThePage,
              PersistsAreOfThePage
<1> QED
  BY <1>2, <1>3, <1>4
  DEF GoTo, JourneyInv, ProjectIsOfThePage, WorkIsOfThePage, WorkHasItsGate

(* A call is made: a prompt, or by a button that waited for the last one.  *)
LEMMA AskingKeepsJourney ==
  ASSUME JourneyInv, NEW call \in JourneyCalls, Ask(call), UNCHANGED shown,
         call.kind = "prompt" \/ NotPending,
         call.kind \in {"resolve", "create"} => call.form = shown.form,
         call.kind = "create" =>
           call.project = PreviewToken /\ Len(stored.projects) < MaxProjects,
         call.kind = "persist" =>
           call.at = "gate" /\ call.ids = shown.ids /\ call.title = shown.title
  PROVE  JourneyInv'
<1> USE DEF Ask
<1>1. JourneyTypes'
  BY DEF JourneyInv, JourneyTypes, TypeOKJourney, JourneyCalls
<1>2. OneCallOfAButton'
  BY DEF JourneyInv, OneCallOfAButton, NotPending
<1>3. CreatesAreOfThePage'
  BY DEF JourneyInv, CallsAreOfThePage, CreatesAreOfThePage
<1>4. ResolvesAreOfThePage'
  BY DEF JourneyInv, CallsAreOfThePage, ResolvesAreOfThePage
<1>5. PersistsAreOfThePage'
  BY DEF JourneyInv, CallsAreOfThePage, PersistsAreOfThePage
<1> QED
  BY <1>1, <1>2, <1>3, <1>4, <1>5
  DEF JourneyInv, CallsAreOfThePage, ProjectIsOfThePage, WorkIsOfThePage, WorkHasItsGate

(* A call is over, and the page is left as it says.                        *)
LEMMA AnswersKeepJourney ==
  ASSUME JourneyInv, NEW call \in asked, Answered(call), UNCHANGED stored,
         shown' \in ShownType, shown'.form = shown.form, shown'.title = shown.title,
         ProjectIsOfThePage', WorkIsOfThePage',
         shown'.ids = shown.ids \/ call.kind # "prompt"
  PROVE  JourneyInv'
<1> USE DEF Answered
<1>1. JourneyTypes' /\ OneCallOfAButton' /\ WorkHasItsGate'
  BY DEF JourneyInv, JourneyTypes, TypeOKJourney, OneCallOfAButton, WorkHasItsGate
<1>2. CASE shown'.ids = shown.ids
  <2>1. CallsAreOfThePage'
    BY <1>2 DEF JourneyInv, CallsAreOfThePage, CreatesAreOfThePage, ResolvesAreOfThePage,
                PersistsAreOfThePage
  <2> QED BY <1>1, <2>1 DEF JourneyInv
<1>3. CASE call.kind # "prompt"
  <2>1. \A c \in asked' : c.kind = "prompt"
    BY <1>3 DEF JourneyInv, OneCallOfAButton
  <2>2. CallsAreOfThePage'
    BY <2>1 DEF CallsAreOfThePage, CreatesAreOfThePage, ResolvesAreOfThePage,
                PersistsAreOfThePage
  <2> QED BY <1>1, <2>2 DEF JourneyInv
<1> QED BY <1>2, <1>3

(* A call has come one step further, and left the page alone.              *)
LEMMA AdvancingKeepsJourney ==
  ASSUME JourneyInv, NEW call \in asked, NEW next \in JourneyCalls,
         asked' = (asked \ {call}) \union {next}, next.kind = call.kind,
         call.kind # "prompt", next.kind # "resolve", UNCHANGED <<shown, inputs, late>>,
         stored' \in StoredType, Len(stored'.projects) <= MaxProjects,
         \A i \in DOMAIN stored.projects :
           i \in DOMAIN stored'.projects /\ stored'.projects[i] = stored.projects[i],
         stored.work \subseteq stored'.work, WorkHasItsGate',
         CreatesAreOfThePage', PersistsAreOfThePage'
  PROVE  JourneyInv'
<1>1. JourneyTypes'
  BY DEF JourneyInv, JourneyTypes, TypeOKJourney, JourneyCalls, StoredType
<1>2. OneCallOfAButton'
  BY DEF JourneyInv, OneCallOfAButton
<1>3. WorkIsOfThePage'
  BY DEF JourneyInv, WorkIsOfThePage
<1>4. ProjectIsOfThePage'
  BY DEF JourneyInv, ProjectIsOfThePage
<1>5. ResolvesAreOfThePage'
  BY DEF JourneyInv, CallsAreOfThePage, ResolvesAreOfThePage
<1> QED BY <1>1, <1>2, <1>3, <1>4, <1>5 DEF JourneyInv, CallsAreOfThePage

(* generatePrompt and the list of stages. *)
LEMMA PromptingKeepsJourney ==
  ASSUME JourneyInv, GeneratePrompt
  PROVE  JourneyInv'
<1> DEFINE call == [kind |-> "prompt", project |-> shown.resolution.project,
                    of |-> IF shown.ids = PreviewToken THEN "preview" ELSE "canonical"]
<1>1. CASE \E s \in {"project", "work"} : GoTo(s)
  BY <1>1, StagesStay, GoingKeepsJourney
<1>2. CASE Ask(call) /\ UNCHANGED shown
  <2>1. call \in JourneyCalls
    BY DEF JourneyInv, JourneyTypes, TypeOKJourney, ShownType, JourneyCalls
  <2> QED BY <1>2, <2>1, AskingKeepsJourney
<1> QED BY <1>1, <1>2 DEF GeneratePrompt

LEMMA PageKeepsJourney ==
  ASSUME JourneyInv,
         \/ \E t \in Texts : EditForm(t) \/ EditTitle(t)
         \/ ResolvePreview \/ CreateCanonicalProject \/ PersistCanonicalWork
         \/ GoBack \/ GoOn
         \/ \E i \in DOMAIN Stages : OpenStage(Stages[i])
  PROVE  JourneyInv'
<1> USE DEF JourneyInv, JourneyTypes, TypeOKJourney
<1>0. ASSUME NEW field \in {"form", "title"}, NEW storing, Edited(field, storing),
             inputs < MaxInputs, shown' \in ShownType
      PROVE  /\ JourneyTypes' /\ OneCallOfAButton' /\ WorkHasItsGate'
             /\ UNCHANGED <<asked, stored>>
             /\ \A c \in asked : c.kind = storing => field \in late'
             /\ \A other \in {"form", "title"} \ {field} : other \in late => other \in late'
  <2>1. inputs' \in 0..MaxInputs
    <3>1. inputs \in 0..MaxInputs /\ inputs' = inputs + 1
      BY <1>0 DEF Edited
    <3> QED BY <1>0, <3>1, JourneyAssumption
  <2>2. late' \subseteq {"form", "title"} /\ UNCHANGED <<asked, stored>>
    BY <1>0 DEF Edited
  <2>3. JourneyTypes' /\ OneCallOfAButton' /\ WorkHasItsGate'
    BY <1>0, <2>1, <2>2 DEF OneCallOfAButton, WorkHasItsGate
  <2>4. /\ \A c \in asked : c.kind = storing => field \in late'
        /\ \A other \in {"form", "title"} \ {field} : other \in late => other \in late'
    BY <1>0 DEF Edited
  <2> QED BY <2>2, <2>3, <2>4
<1>1. ASSUME NEW t \in Texts, EditForm(t) PROVE JourneyInv'
  <2>1. /\ shown' \in ShownType /\ shown'.ids = PreviewToken /\ shown'.work = NoWork
        /\ shown'.title = shown.title
    BY <1>1, EmptyPage DEF EditForm, ShownType
  <2>2. /\ JourneyTypes' /\ OneCallOfAButton' /\ WorkHasItsGate' /\ UNCHANGED <<asked, stored>>
        /\ \A c \in asked : c.kind = "create" => "form" \in late'
        /\ "title" \in late => "title" \in late'
    <3>1. "form" \in {"form", "title"} /\ "title" \in {"form", "title"} \ {"form"}
      OBVIOUS
    <3>2. Edited("form", "create") /\ inputs < MaxInputs
      BY <1>1 DEF EditForm
    <3> HIDE DEF JourneyTypes
    <3> QED BY <1>0, <2>1, <3>1, <3>2
  <2>3. CreatesAreOfThePage'
    BY <2>2 DEF CallsAreOfThePage, CreatesAreOfThePage
  <2>4. ResolvesAreOfThePage' /\ PersistsAreOfThePage'
    BY <2>1, <2>2 DEF CallsAreOfThePage, ResolvesAreOfThePage, PersistsAreOfThePage
  <2>5. ProjectIsOfThePage' /\ WorkIsOfThePage'
    BY <2>1 DEF ProjectIsOfThePage, WorkIsOfThePage
  <2> QED
    BY <2>2, <2>3, <2>4, <2>5 DEF CallsAreOfThePage
<1>2. ASSUME NEW t \in Texts, EditTitle(t) PROVE JourneyInv'
  <2>1. /\ shown' \in ShownType /\ shown'.ids = shown.ids /\ shown'.work = NoWork
        /\ shown'.form = shown.form /\ shown'.resolution = shown.resolution
    BY <1>2, EmptyPage DEF EditTitle, ShownType
  <2>2. /\ JourneyTypes' /\ OneCallOfAButton' /\ WorkHasItsGate' /\ UNCHANGED <<asked, stored>>
        /\ \A c \in asked : c.kind = "persist" => "title" \in late'
        /\ "form" \in late => "form" \in late'
    <3>1. "title" \in {"form", "title"} /\ "form" \in {"form", "title"} \ {"title"}
      OBVIOUS
    <3>2. Edited("title", "persist") /\ inputs < MaxInputs
      BY <1>2 DEF EditTitle
    <3> HIDE DEF JourneyTypes
    <3> QED BY <1>0, <2>1, <3>1, <3>2
  <2>3. CreatesAreOfThePage' /\ ResolvesAreOfThePage'
    BY <2>1, <2>2 DEF CallsAreOfThePage, CreatesAreOfThePage, ResolvesAreOfThePage
  <2>4. PersistsAreOfThePage'
    BY <2>1, <2>2 DEF CallsAreOfThePage, PersistsAreOfThePage
  <2>5. ProjectIsOfThePage' /\ WorkIsOfThePage'
    BY <2>1, <2>2 DEF ProjectIsOfThePage, WorkIsOfThePage
  <2> QED
    BY <2>2, <2>3, <2>4, <2>5 DEF CallsAreOfThePage
<1>3. CASE ResolvePreview
  <2>1. [kind |-> "resolve", form |-> shown.form] \in JourneyCalls
    BY DEF ShownType, JourneyCalls
  <2> QED BY <1>3, <2>1, AskingKeepsJourney DEF ResolvePreview
<1>4. CASE CreateCanonicalProject
  <2>1. [kind |-> "create", form |-> shown.form, project |-> PreviewToken] \in JourneyCalls
    BY JourneyAssumption DEF ShownType, JourneyCalls, PreviewToken
  <2> QED BY <1>4, <2>1, AskingKeepsJourney DEF CreateCanonicalProject
<1>5. CASE PersistCanonicalWork
  <2> DEFINE call == [kind |-> "persist", at |-> "gate", ids |-> shown.ids,
                      project |-> shown.resolution.project, title |-> shown.title]
  <2>1. CASE GoTo("gate")
    BY <2>1, StagesStay, GoingKeepsJourney
  <2>2. CASE shown.ids # PreviewToken /\ Ask(call) /\ UNCHANGED shown
    <3>1. call \in JourneyCalls
      BY <2>2, JourneyAssumption DEF ShownType, JourneyCalls, PreviewToken, Tokens
    <3> QED BY <1>5, <2>2, <3>1, AskingKeepsJourney DEF PersistCanonicalWork
  <2> QED BY <1>5, <2>1, <2>2 DEF PersistCanonicalWork
<1>6. CASE GoBack
  BY <1>6, StagesStay, GoingKeepsJourney DEF GoBack, ShownType
<1>7. CASE GoOn
  BY <1>7, StagesStay, GoingKeepsJourney, PromptingKeepsJourney DEF GoOn, ShownType
<1>8. ASSUME NEW i \in DOMAIN Stages, OpenStage(Stages[i]) PROVE JourneyInv'
  BY <1>8, StagesStay, GoingKeepsJourney, PromptingKeepsJourney DEF OpenStage
<1> QED BY <1>1, <1>2, <1>3, <1>4, <1>5, <1>6, <1>7, <1>8

(* The inserts, one after the other. *)
LEMMA InsertsKeepJourney ==
  ASSUME JourneyInv, NEW call \in asked,
         InsertProject(call) \/ InsertGate(call) \/ InsertWork(call)
  PROVE  JourneyInv'
<1> USE DEF JourneyInv, JourneyTypes, TypeOKJourney
<1>0. call \in JourneyCalls
  OBVIOUS
<1>1. CASE InsertProject(call)
  <2> DEFINE n == Len(stored.projects)
             next == [call EXCEPT !.project = n + 1]
  <2>0. /\ n \in Nat /\ n < MaxProjects /\ call.form \in Texts /\ stored.projects \in Seq(Texts)
        /\ call.form = shown.form \/ "form" \in late
    BY <1>0, <1>1
    DEF InsertProject, CallsAreOfThePage, CreatesAreOfThePage, JourneyCalls, StoredType
  <2>1. n + 1 \in Tokens
    BY <2>0, JourneyAssumption DEF Tokens
  <2>2. /\ next \in JourneyCalls /\ next.kind = "create" /\ next.project = n + 1
        /\ next.form = call.form
    BY <1>0, <1>1, <2>1, JourneyAssumption
    DEF InsertProject, JourneyCalls, Tokens, PreviewToken
  <2>3. \A c \in asked' : c = next \/ c.kind = "prompt"
    BY <1>1 DEF InsertProject, OneCallOfAButton
  <2>4. /\ stored'.projects = Append(stored.projects, call.form)
        /\ stored'.gates = stored.gates /\ stored'.work = stored.work
    BY <1>1 DEF InsertProject
  <2>5. /\ stored'.projects \in Seq(Texts) /\ Len(stored'.projects) = n + 1
        /\ stored'.projects[n + 1] = call.form
        /\ n + 1 \in DOMAIN stored'.projects
        /\ \A i \in DOMAIN stored.projects :
             i \in DOMAIN stored'.projects /\ stored'.projects[i] = stored.projects[i]
    BY <2>0, <2>4
  <2>6. CreatesAreOfThePage' /\ PersistsAreOfThePage'
    <3>1. next.project # PreviewToken
      BY <2>1, <2>2 DEF PreviewToken, Tokens
    <3>2. next.form = shown'.form \/ "form" \in late'
      BY <1>1, <2>0, <2>2 DEF InsertProject
    <3> HIDE DEF next
    <3>3. CreatesAreOfThePage'
      BY <2>2, <2>3, <2>5, <3>1, <3>2 DEF CreatesAreOfThePage
    <3> QED BY <2>2, <2>3, <3>3 DEF PersistsAreOfThePage
  <2>7. stored' \in StoredType /\ Len(stored'.projects) <= MaxProjects
    <3>1. Len(stored'.projects) <= MaxProjects
      BY <2>0, <2>5, JourneyAssumption
    <3>2. stored' \in StoredType
      <4>1. stored' = [stored EXCEPT !.projects = stored'.projects]
        BY <1>1, <2>4 DEF InsertProject
      <4> QED BY <2>5, <4>1 DEF StoredType
    <3> QED BY <3>1, <3>2
  <2>8. stored.work \subseteq stored'.work /\ WorkHasItsGate'
    BY <2>4 DEF WorkHasItsGate
  <2>9. /\ asked' = (asked \ {call}) \union {next} /\ UNCHANGED <<shown, inputs, late>>
        /\ call.kind = "create"
    BY <1>1 DEF InsertProject
  <2> HIDE DEF next, JourneyInv
  <2> QED
    BY <2>2, <2>5, <2>6, <2>7, <2>8, <2>9, AdvancingKeepsJourney
<1>2. CASE InsertGate(call)
  <2> DEFINE next == [call EXCEPT !.at = "work"]
  <2>1. /\ next \in JourneyCalls /\ next.kind = "persist" /\ next.at = "work"
        /\ next.ids = call.ids /\ next.title = call.title /\ call.ids \in Tokens
    BY <1>0, <1>2 DEF InsertGate, JourneyCalls
  <2>2. /\ stored'.projects = stored.projects /\ stored'.gates = stored.gates \union {call.ids}
        /\ stored'.work = stored.work
    BY <1>2 DEF InsertGate
  <2>3. stored' \in StoredType
    BY <1>2, <2>1 DEF InsertGate, StoredType
  <2>4. \A c \in asked' : c = next \/ c.kind = "prompt"
    BY <1>2 DEF InsertGate, OneCallOfAButton
  <2>5. /\ asked' = (asked \ {call}) \union {next} /\ UNCHANGED <<shown, inputs, late>>
        /\ call.kind = "persist" /\ call \in asked
    BY <1>2 DEF InsertGate
  <2> HIDE DEF next
  <2>6. CreatesAreOfThePage'
    BY <2>1, <2>4 DEF CreatesAreOfThePage
  <2>7. PersistsAreOfThePage'
    BY <2>1, <2>2, <2>4, <2>5 DEF CallsAreOfThePage, PersistsAreOfThePage
  <2>8. WorkHasItsGate'
    BY <2>2 DEF WorkHasItsGate
  <2> HIDE DEF JourneyInv
  <2> QED
    BY <2>1, <2>2, <2>3, <2>5, <2>6, <2>7, <2>8, AdvancingKeepsJourney
    DEF JourneyInv
<1>3. CASE InsertWork(call)
  <2> DEFINE next == [call EXCEPT !.at = "done"]
             row == [project |-> call.ids, title |-> call.title]
  <2>1. /\ next \in JourneyCalls /\ next.kind = "persist" /\ next.at = "done"
        /\ next.ids = call.ids /\ next.title = call.title
        /\ call.ids \in Tokens /\ call.title \in Texts
    BY <1>0, <1>3 DEF InsertWork, JourneyCalls
  <2>2. /\ stored'.projects = stored.projects /\ stored'.gates = stored.gates
        /\ stored'.work = stored.work \union {row}
    BY <1>3 DEF InsertWork
  <2>3. stored' \in StoredType
    BY <1>3, <2>1 DEF InsertWork, StoredType
  <2>4. \A c \in asked' : c = next \/ c.kind = "prompt"
    BY <1>3 DEF InsertWork, OneCallOfAButton
  <2>5. /\ asked' = (asked \ {call}) \union {next} /\ UNCHANGED <<shown, inputs, late>>
        /\ call.kind = "persist" /\ call.at = "work" /\ call \in asked
    BY <1>3 DEF InsertWork
  <2>6. call.ids \in stored.gates
    BY <2>5 DEF CallsAreOfThePage, PersistsAreOfThePage
  <2> HIDE DEF next
  <2>7. CreatesAreOfThePage'
    BY <2>1, <2>4 DEF CreatesAreOfThePage
  <2>8. PersistsAreOfThePage'
    BY <2>1, <2>2, <2>4, <2>5, <2>6 DEF CallsAreOfThePage, PersistsAreOfThePage
  <2>9. WorkHasItsGate'
    BY <2>2, <2>6 DEF WorkHasItsGate
  <2> HIDE DEF JourneyInv
  <2> QED
    BY <2>1, <2>2, <2>3, <2>5, <2>7, <2>8, <2>9, AdvancingKeepsJourney
    DEF JourneyInv
<1> QED BY <1>1, <1>2, <1>3

(* The answers, late as they may be. *)
LEMMA AnswersComeBack ==
  ASSUME JourneyInv, NEW call \in asked,
         \/ ResolveAnswer(call) \/ ProjectAnswer(call) \/ PersistAnswer(call)
         \/ PromptAnswer(call) \/ FailedAnswer(call)
  PROVE  JourneyInv'
<1> USE DEF JourneyInv, JourneyTypes, TypeOKJourney
<1>0. call \in JourneyCalls
  OBVIOUS
<1>1. CASE ResolveAnswer(call)
  <2>1. /\ shown' \in ShownType /\ shown'.ids = shown.ids /\ shown'.work = shown.work
        /\ shown'.form = shown.form /\ shown'.title = shown.title
        /\ shown'.resolution.form = call.form
    <3>1. call.form \in Texts
      BY <1>0, <1>1 DEF ResolveAnswer, JourneyCalls
    <3> QED BY <1>1, <3>1, StagesStay, EmptyPage DEF ResolveAnswer, ShownType
  <2>2. /\ UNCHANGED <<stored, inputs, late>> /\ Answered(call)
        /\ shown.ids = PreviewToken \/ call.form = shown.form
    BY <1>1 DEF ResolveAnswer, Answered, CallsAreOfThePage, ResolvesAreOfThePage
  <2>3. ProjectIsOfThePage' /\ WorkIsOfThePage'
    BY <2>1, <2>2 DEF ProjectIsOfThePage, WorkIsOfThePage
  <2> HIDE DEF JourneyInv
  <2> QED BY <2>1, <2>2, <2>3, AnswersKeepJourney
<1>2. CASE ProjectAnswer(call)
  <2>1. /\ call.form \in Texts /\ call.project \in PreviewToken..MaxProjects
        /\ call.project \in DOMAIN stored.projects
        /\ stored.projects[call.project] = call.form
        /\ call.form = shown.form \/ "form" \in late
    BY <1>0, <1>2 DEF ProjectAnswer, JourneyCalls, CallsAreOfThePage, CreatesAreOfThePage
  <2>2. /\ shown' \in ShownType /\ shown'.ids = call.project /\ shown'.work = NoWork
        /\ shown'.form = shown.form /\ shown'.title = shown.title
        /\ shown'.resolution.form = call.form
    BY <1>2, <2>1, StagesStay, EmptyPage DEF ProjectAnswer, ShownType, WorkAfterCreate
  <2>3. UNCHANGED <<stored, inputs, late>> /\ Answered(call) /\ call.kind = "create"
    BY <1>2 DEF ProjectAnswer, Answered
  <2>4. ProjectIsOfThePage' /\ WorkIsOfThePage'
    BY <2>1, <2>2, <2>3 DEF ProjectIsOfThePage, WorkIsOfThePage
  <2> HIDE DEF JourneyInv
  <2> QED BY <2>2, <2>3, <2>4, AnswersKeepJourney
<1>3. CASE PersistAnswer(call)
  <2>1. /\ call.ids \in Tokens /\ call.title \in Texts
        /\ shown.ids \in {PreviewToken, call.ids}
        /\ call.title = shown.title \/ "title" \in late
        /\ [project |-> call.ids, title |-> call.title] \in stored.work
    BY <1>0, <1>3 DEF PersistAnswer, JourneyCalls, CallsAreOfThePage, PersistsAreOfThePage
  <2>2. /\ shown' \in ShownType /\ shown'.ids = shown.ids
        /\ shown'.work = [project |-> call.ids, title |-> call.title]
        /\ shown'.form = shown.form /\ shown'.title = shown.title
        /\ shown'.resolution = shown.resolution
    BY <1>3, <2>1, StagesStay, EmptyPage DEF PersistAnswer, ShownType
  <2>3. UNCHANGED <<stored, inputs, late>> /\ Answered(call)
    BY <1>3 DEF PersistAnswer, Answered
  <2>4. ProjectIsOfThePage' /\ WorkIsOfThePage'
    BY <2>1, <2>2, <2>3 DEF ProjectIsOfThePage, WorkIsOfThePage
  <2> HIDE DEF JourneyInv
  <2> QED BY <2>2, <2>3, <2>4, AnswersKeepJourney
<1>4. CASE PromptAnswer(call) \/ FailedAnswer(call)
  <2>1. /\ shown' \in ShownType /\ shown'.ids = shown.ids /\ shown'.work = shown.work
        /\ shown'.form = shown.form /\ shown'.title = shown.title
        /\ shown'.resolution.form \in {shown.resolution.form, NoText}
    <3>1. CASE PromptAnswer(call)
      BY <3>1, StagesStay DEF PromptAnswer, PreviewPrompt, CanonicalPrompt, ShownType
    <3>2. CASE FailedAnswer(call)
      <4>1. NoResolution.form = NoText BY DEF NoResolution
      <4> QED BY <3>2, <4>1, EmptyPage DEF FailedAnswer, ShownType
    <3> QED BY <1>4, <3>1, <3>2
  <2>2. UNCHANGED <<stored, inputs, late>> /\ Answered(call)
    BY <1>4 DEF PromptAnswer, FailedAnswer, Answered
  <2>3. ProjectIsOfThePage' /\ WorkIsOfThePage'
    BY <2>1, <2>2 DEF ProjectIsOfThePage, WorkIsOfThePage
  <2> HIDE DEF JourneyInv
  <2> QED BY <2>1, <2>2, <2>3, AnswersKeepJourney
<1> QED BY <1>1, <1>2, <1>3, <1>4

(* Types, and what each call on its way knows of the page and the tables.  *)
THEOREM JourneyInvariant == SpecJourney => []JourneyInv
<1>1. JourneyInv /\ [NextJourney]_journeyVars => JourneyInv'
  <2> SUFFICES ASSUME JourneyInv, [NextJourney]_journeyVars PROVE JourneyInv'
    OBVIOUS
  <2>1. CASE NextJourney
    BY <2>1, PageKeepsJourney, InsertsKeepJourney, AnswersComeBack DEF NextJourney
  <2>2. CASE UNCHANGED journeyVars
    BY <2>2
    DEF journeyVars, JourneyInv, JourneyTypes, TypeOKJourney, OneCallOfAButton,
        CallsAreOfThePage, CreatesAreOfThePage, ResolvesAreOfThePage, PersistsAreOfThePage,
        ProjectIsOfThePage, WorkIsOfThePage, WorkHasItsGate
  <2> QED BY <2>1, <2>2
<1> QED BY <1>1, JourneyInit, PTL DEF SpecJourney

(* Whatever is edited while calls are pending and whichever insert fails,  *)
(* the project and the work the page of createCanonicalProject and         *)
(* persistCanonicalWork calls persisted are stored, the work under the     *)
(* page's own project and with its gate.  The profile and the title beside *)
(* those words are the stored ones too, except for a field that was edited *)
(* under the call that stored it: the page keeps the text it was not told. *)
THEOREM PersistedIsStored == SpecJourney => []CanonicalWorkIsStored
<1>1. JourneyInv => CanonicalWorkIsStored
  <2> SUFFICES ASSUME JourneyInv PROVE CanonicalWorkIsStored
    OBVIOUS
  <2>1. shown.ids # PreviewToken =>
          /\ shown.ids \in DOMAIN stored.projects
          /\ \/ /\ shown.form = stored.projects[shown.ids]
                /\ shown.resolution.form \in {stored.projects[shown.ids], NoText}
             \/ "form" \in late
    BY DEF JourneyInv, ProjectIsOfThePage
  <2>2. shown.work # NoWork =>
          /\ shown.work \in stored.work
          /\ shown.title = shown.work.title \/ "title" \in late
          /\ shown.ids # PreviewToken => shown.work.project = shown.ids
    BY DEF JourneyInv, WorkIsOfThePage
  <2> QED
    BY <2>1, <2>2 DEF JourneyInv, WorkHasItsGate, CanonicalWorkIsStored, ProjectChip, WorkChip,
                      GateChip
<1> QED BY <1>1, JourneyInvariant, PTL

-----------------------------------------------------------------------------
(* The history of prompts.  Rows are sorted without ties, so that the place *)
(* of a row is the number of those before it, and rows are only added, so   *)
(* that a row never moves forward.                                          *)

Sorted(rows) ==
  /\ IsFiniteSet(rows) /\ rows \subseteq PromptType
  /\ \A p, q \in rows : SnapshotKey(p) = SnapshotKey(q) => p = q

LEMMA RowIsTyped ==
  ASSUME NEW p \in PromptType
  PROVE  p.generatedAt \in Nat /\ KeyRank[p.revision] \in Nat /\ p.revision \in Revisions
<1>1. p.revision \in Revisions /\ p.generatedAt \in 1..MaxPromptTime
  BY DEF PromptType
<1>2. p.generatedAt \in Nat
  BY <1>1, PromptAssumption
<1> QED BY <1>1, <1>2, PromptAssumption

LEMMA NewerIsStrict ==
  ASSUME NEW p \in PromptType, NEW q \in PromptType, NEW r \in PromptType
  PROVE  /\ ~NewerRow(p, p)
         /\ NewerRow(p, q) /\ NewerRow(q, r) => NewerRow(p, r)
<1>1. /\ p.generatedAt \in Nat /\ q.generatedAt \in Nat /\ r.generatedAt \in Nat
      /\ KeyRank[p.revision] \in Nat /\ KeyRank[q.revision] \in Nat /\ KeyRank[r.revision] \in Nat
  BY RowIsTyped
<1> QED BY <1>1 DEF NewerRow

LEMMA NewerIsTotal ==
  ASSUME NEW rows, Sorted(rows), NEW p \in rows, NEW q \in rows, p # q
  PROVE  NewerRow(p, q) \/ NewerRow(q, p)
<1>1. p \in PromptType /\ q \in PromptType
  BY DEF Sorted
<1>2. /\ p.generatedAt \in Nat /\ q.generatedAt \in Nat
      /\ KeyRank[p.revision] \in Nat /\ KeyRank[q.revision] \in Nat
      /\ p.revision \in Revisions /\ q.revision \in Revisions
  BY <1>1, RowIsTyped
<1>3. p.generatedAt # q.generatedAt \/ p.revision # q.revision
  BY DEF Sorted, SnapshotKey
<1>4. p.generatedAt # q.generatedAt \/ KeyRank[p.revision] # KeyRank[q.revision]
  BY <1>2, <1>3, PromptAssumption
<1> QED BY <1>2, <1>4 DEF NewerRow

LEMMA PlaceType ==
  ASSUME NEW rows, IsFiniteSet(rows), NEW p
  PROVE  Place(p, rows) \in Nat /\ IsFiniteSet({q \in rows : NewerRow(q, p)})
<1>1. IsFiniteSet({q \in rows : NewerRow(q, p)})
  BY FS_Subset
<1> QED BY <1>1, FS_CardinalityType DEF Place

(* A row moves backwards only. *)
LEMMA PlaceGrows ==
  ASSUME NEW rows, NEW more, IsFiniteSet(more), rows \subseteq more, NEW p
  PROVE  Place(p, rows) <= Place(p, more)
<1>1. IsFiniteSet({q \in more : NewerRow(q, p)})
  BY PlaceType
<1>2. {q \in rows : NewerRow(q, p)} \in SUBSET {q \in more : NewerRow(q, p)}
  OBVIOUS
<1> QED BY <1>1, <1>2, FS_Subset DEF Place

LEMMA PlaceOfNewer ==
  ASSUME NEW rows, Sorted(rows), NEW p \in rows, NEW q \in rows, NewerRow(q, p)
  PROVE  Place(q, rows) < Place(p, rows)
<1> DEFINE before == {r \in rows : NewerRow(r, p)}
           earlier == {r \in rows : NewerRow(r, q)}
<1>1. IsFiniteSet(before) /\ IsFiniteSet(earlier)
  BY FS_Subset DEF Sorted
<1>2. p \in PromptType /\ q \in PromptType /\ \A r \in rows : r \in PromptType
  BY DEF Sorted
<1>3. earlier \subseteq before
  BY <1>2, NewerIsStrict
<1>4. q \in before /\ q \notin earlier
  BY <1>2, NewerIsStrict
<1>5. Cardinality(earlier) \in Nat /\ Cardinality(before) \in Nat
  BY <1>1, FS_CardinalityType
<1> HIDE DEF before, earlier
<1>6. Cardinality(earlier) <= Cardinality(before) /\ Cardinality(earlier) # Cardinality(before)
  BY <1>1, <1>3, <1>4, FS_Subset
<1>7. Cardinality(earlier) < Cardinality(before)
  BY <1>5, <1>6
<1> QED BY <1>7 DEF Place, before, earlier

LEMMA PlacesDiffer ==
  ASSUME NEW rows, Sorted(rows), NEW p \in rows, NEW q \in rows, Place(p, rows) = Place(q, rows)
  PROVE  p = q
<1>1. Place(p, rows) \in Nat /\ Place(q, rows) \in Nat
  BY PlaceType DEF Sorted
<1>2. SUFFICES ASSUME p # q PROVE FALSE
  OBVIOUS
<1>3. CASE NewerRow(p, q)
  BY <1>1, <1>3, PlaceOfNewer
<1>4. CASE NewerRow(q, p)
  BY <1>1, <1>4, PlaceOfNewer
<1> QED BY <1>2, <1>3, <1>4, NewerIsTotal

(* Every place up to that of a row is taken. *)
LEMMA PlacesAreTaken ==
  ASSUME NEW rows, Sorted(rows), NEW p \in rows, NEW n \in 0..Place(p, rows)
  PROVE  \E q \in rows : Place(q, rows) = n
<1> DEFINE size == Cardinality(rows)
           place == [q \in rows |-> Place(q, rows)]
<1>1. IsFiniteSet(rows) /\ size \in Nat
  BY FS_CardinalityType DEF Sorted
<1>2. ASSUME NEW q \in rows PROVE Place(q, rows) \in 0..size - 1
  <2> DEFINE before == {r \in rows : NewerRow(r, q)}
  <2>1. q \in PromptType
    BY DEF Sorted
  <2>2. q \notin before /\ before \in SUBSET rows
    BY <2>1, NewerIsStrict
  <2>3. Place(q, rows) = Cardinality(before) /\ Place(q, rows) \in Nat
    BY <1>1, PlaceType DEF Place
  <2> HIDE DEF before
  <2>4. Cardinality(before) <= size /\ Cardinality(before) # size
    BY <1>1, <2>2, FS_Subset
  <2> QED BY <1>1, <2>3, <2>4
<1>3. place \in Injection(rows, 0..size - 1)
  <2>1. place \in [rows -> 0..size - 1]
    BY <1>2
  <2>2. \A q, r \in rows : place[q] = place[r] => q = r
    BY PlacesDiffer
  <2> HIDE DEF place
  <2> QED BY <2>1, <2>2, Fun_IsInj
<1>4. IsFiniteSet(0..size - 1) /\ Cardinality(0..size - 1) = size
  <2>1. 0 \in Int /\ size - 1 \in Int
    BY <1>1
  <2> HIDE DEF size
  <2>2. /\ IsFiniteSet(0..size - 1)
        /\ Cardinality(0..size - 1) = IF 0 > size - 1 THEN 0 ELSE (size - 1) - 0 + 1
    BY <2>1, FS_Interval
  <2> QED BY <1>1, <2>2
<1>5. place \in Surjection(rows, 0..size - 1)
  <2> HIDE DEF place
  <2> QED BY <1>3, <1>4, FS_Injection
<1>6. n \in 0..size - 1
  BY <1>1, <1>2
<1>7. \E q \in rows : place[q] = n
  <2> HIDE DEF place
  <2> QED BY <1>5, <1>6 DEF Surjection
<1> QED BY <1>7

(* One page of some rows, and the row beyond it. *)
Page(rows, base) ==
  {p \in rows : Place(p, rows) >= base /\ Place(p, rows) < base + PageLimit}

LEMMA PageHasNext ==
  ASSUME NEW rows, Sorted(rows), NEW base \in Nat, NEW p \in rows,
         Place(p, rows) >= base + PageSize
  PROVE  HasNext(Page(rows, base))
<1> DEFINE f == [n \in 0..PageSize |-> CHOOSE q \in rows : Place(q, rows) = base + n]
<1>0. PageSize \in Nat
  BY PromptAssumption
<1>1. ASSUME NEW n \in 0..PageSize
      PROVE  f[n] \in Page(rows, base) /\ Place(f[n], rows) = base + n
  <2>1. Place(p, rows) \in Nat
    BY PlaceType DEF Sorted
  <2>2. base + n \in 0..Place(p, rows)
    BY <1>0, <2>1
  <2>3. f[n] \in rows /\ Place(f[n], rows) = base + n
    BY <2>2, PlacesAreTaken
  <2>4. base + n >= base /\ base + n < base + (PageSize + 1)
    BY <1>0
  <2> HIDE DEF f
  <2> QED BY <2>3, <2>4 DEF Page, PageLimit
<1>2. f \in Injection(0..PageSize, Page(rows, base))
  <2>1. f \in [0..PageSize -> Page(rows, base)]
    BY <1>1
  <2>2. ASSUME NEW m \in 0..PageSize, NEW n \in 0..PageSize, f[m] = f[n] PROVE m = n
    <3> HIDE DEF f
    <3>1. base + m = base + n
      BY <1>1, <2>2
    <3> QED BY <3>1
  <2> HIDE DEF f
  <2> QED BY <2>1, <2>2, Fun_IsInj
<1>3. IsFiniteSet(Page(rows, base))
  <2>1. Page(rows, base) \in SUBSET rows
    BY DEF Page
  <2> QED BY <2>1, FS_Subset DEF Sorted
<1>4. Cardinality(0..PageSize) = PageSize + 1
  <2>1. Cardinality(0..PageSize) = IF 0 > PageSize THEN 0 ELSE PageSize - 0 + 1
    BY <1>0, FS_Interval
  <2> QED BY <1>0, <2>1
<1> HIDE DEF f
<1>5. Cardinality(0..PageSize) <= Cardinality(Page(rows, base))
  BY <1>2, <1>3, FS_Injection
<1>6. Cardinality(Page(rows, base)) \in Nat
  BY <1>3, FS_CardinalityType
<1> QED BY <1>0, <1>4, <1>5, <1>6 DEF HasNext

LEMMA PageItems ==
  ASSUME NEW rows, Sorted(rows), NEW base \in Nat, NEW p \in rows,
         Place(p, rows) >= base, Place(p, rows) < base + PageSize
  PROVE  p \in Items(Page(rows, base))
<1> DEFINE page == Page(rows, base)
           before == {q \in page : NewerRow(q, p)}
           place == [q \in before |-> Place(q, rows)]
<1>0. PageSize \in Nat /\ Place(p, rows) \in Nat /\ before \subseteq rows
  BY PlaceType, PromptAssumption DEF Page, Sorted
<1>1. ASSUME NEW q \in before PROVE Place(q, rows) \in base..Place(p, rows) - 1
  <2>1. q \in rows /\ NewerRow(q, p) /\ Place(q, rows) >= base
    BY DEF Page
  <2>2. Place(q, rows) \in Nat /\ Place(q, rows) < Place(p, rows)
    BY <2>1, PlaceType, PlaceOfNewer DEF Sorted
  <2> QED BY <1>0, <2>1, <2>2
<1>2. place \in Injection(before, base..Place(p, rows) - 1)
  <2>1. place \in [before -> base..Place(p, rows) - 1]
    BY <1>1
  <2>2. ASSUME NEW q \in before, NEW r \in before, place[q] = place[r] PROVE q = r
    BY <1>0, <2>2, PlacesDiffer
  <2> HIDE DEF place, before
  <2> QED BY <2>1, <2>2, Fun_IsInj
<1>3. /\ IsFiniteSet(base..Place(p, rows) - 1)
      /\ Cardinality(base..Place(p, rows) - 1) <= Place(p, rows) - base
  <2>1. base \in Int /\ Place(p, rows) - 1 \in Int
    BY <1>0
  <2>2. /\ IsFiniteSet(base..Place(p, rows) - 1)
        /\ Cardinality(base..Place(p, rows) - 1) =
             IF base > Place(p, rows) - 1 THEN 0 ELSE (Place(p, rows) - 1) - base + 1
    BY <2>1, FS_Interval
  <2> QED BY <1>0, <2>2
<1> HIDE DEF before, place
<1>4. IsFiniteSet(before) /\ Cardinality(before) <= Cardinality(base..Place(p, rows) - 1)
  BY <1>2, <1>3, FS_Injection
<1>5. Cardinality(before) \in Nat /\ Cardinality(base..Place(p, rows) - 1) \in Nat
  BY <1>3, <1>4, FS_CardinalityType
<1>6. Cardinality(before) < PageSize
  BY <1>0, <1>3, <1>4, <1>5
<1>7. p \in page
  BY <1>0 DEF Page, PageLimit
<1> QED BY <1>6, <1>7 DEF Items, Place, before

Regenerations ==
  {NoPromptCall} \union [at : {"collect"}, got : Revisions]
    \union {k \in [at : {"record"}, prompt : PromptType] : k.prompt.revision = k.prompt.source}

Readers ==
  [at : {"profile", "load", "shown"}, page : Nat \ {0}, known : SUBSET PromptType,
   seen : SUBSET PromptType, since : Revisions, got : Revisions,
   due : SUBSET {"rows", "latest"}, rows : SUBSET PromptType, latest : SUBSET PromptType]

(* A known prompt that was not shown so far is beyond the pages loaded.    *)
Ahead(k) ==
  IF "rows" \in k.due
    THEN \A p \in k.known \ k.seen : Place(p, prompts) >= (k.page - 1) * PageSize
    ELSE \A p \in k.known \ (k.seen \union Items(k.rows)) :
           HasNext(k.rows) /\ Place(p, prompts) >= k.page * PageSize

ReaderOK(k) ==
  /\ k.known \subseteq prompts /\ k.rows \subseteq prompts /\ k.latest \subseteq prompts
  /\ \A s \in Records : k.since[s] <= sources[s]
                        /\ (k.got[s] # Unread => k.since[s] <= k.got[s])
  /\ k.at = "profile" => k.got = NothingRead
  /\ k.at = "shown" => k.due = {} /\ Items(k.rows) \subseteq k.seen
  /\ Ahead(k)

PromptsTyped ==
  /\ sources \in [Records -> 1..MaxSourceVersion] /\ promptTime \in 1..MaxPromptTime
  /\ promptCall \in [PromptCalls -> Regenerations]
  /\ reader \in Readers \union {NoReader}

PromptsInv ==
  /\ PromptsTyped /\ Sorted(prompts) /\ \A p \in prompts : p.revision = p.source
  /\ reader # NoReader => ReaderOK(reader)

LEMMA PromptsInit == ASSUME InitPrompts PROVE PromptsInv
<1>1. PromptsTyped
  <2>1. sources \in [Records -> 1..MaxSourceVersion] /\ promptTime \in 1..MaxPromptTime
    BY PromptAssumption DEF InitPrompts
  <2> QED BY <2>1 DEF InitPrompts, PromptsTyped, Regenerations
<1>2. Sorted(prompts)
  BY FS_EmptySet DEF InitPrompts, Sorted
<1> QED BY <1>1, <1>2 DEF InitPrompts, PromptsInv

(* Records are only written anew and rows only added. *)
LEMMA ReaderStays ==
  ASSUME NEW k \in Readers, ReaderOK(k), PromptsTyped, PromptsTyped', Sorted(prompts'),
         prompts \subseteq prompts', \A s \in Records : sources[s] <= sources'[s]
  PROVE  ReaderOK(k)'
<1>1. ASSUME NEW p, NEW n \in Nat, Place(p, prompts) >= n PROVE Place(p, prompts') >= n
  <2>1. IsFiniteSet(prompts) /\ IsFiniteSet(prompts')
    BY FS_Subset DEF Sorted
  <2>2. Place(p, prompts) \in Nat /\ Place(p, prompts') \in Nat
    BY <2>1, PlaceType
  <2>3. Place(p, prompts) <= Place(p, prompts')
    BY <2>1, PlaceGrows
  <2> QED BY <1>1, <2>2, <2>3
<1>2. k.page \in Nat \ {0} /\ PageSize \in Nat
  BY PromptAssumption DEF Readers
<1>3. (k.page - 1) * PageSize \in Nat /\ k.page * PageSize \in Nat
  BY <1>2
<1>4. Ahead(k)'
  BY <1>1, <1>3 DEF ReaderOK, Ahead
<1>5. ASSUME NEW s \in Records PROVE k.since[s] <= sources'[s]
  <2>1. k.since[s] \in Nat /\ sources[s] \in Nat /\ sources'[s] \in Nat
    <3>1. k.since[s] \in 0..MaxSourceVersion
      BY DEF Readers, Revisions
    <3>2. sources[s] \in 1..MaxSourceVersion /\ sources'[s] \in 1..MaxSourceVersion
      BY DEF PromptsTyped
    <3> QED BY <3>1, <3>2, PromptAssumption
  <2>2. k.since[s] <= sources[s] /\ sources[s] <= sources'[s]
    BY DEF ReaderOK
  <2> QED BY <2>1, <2>2
<1> QED BY <1>4, <1>5 DEF ReaderOK

LEMMA WritersKeepPrompts ==
  ASSUME PromptsInv, UNCHANGED reader, PromptsTyped', Sorted(prompts'),
         \A p \in prompts' : p.revision = p.source,
         prompts \subseteq prompts', \A s \in Records : sources[s] <= sources'[s]
  PROVE  PromptsInv'
<1>1. ASSUME reader # NoReader PROVE ReaderOK(reader)'
  <2>1. reader \in Readers /\ ReaderOK(reader)
    BY <1>1 DEF PromptsInv, PromptsTyped
  <2>2. SUFFICES ASSUME NEW k, k = reader PROVE ReaderOK(k)'
    BY DEF ReaderOK, Ahead
  <2> QED BY <2>1, <2>2, ReaderStays DEF PromptsInv
<1> QED BY <1>1 DEF PromptsInv

LEMMA WriteKeepsPrompts ==
  ASSUME PromptsInv, (\E s \in Records : WriteSource(s)) \/ Tick
  PROVE  PromptsInv'
<1>1. /\ sources' \in [Records -> 1..MaxSourceVersion]
      /\ \A s \in Records : sources[s] <= sources'[s]
  <2>1. ASSUME NEW s \in Records, WriteSource(s)
        PROVE  /\ sources' \in [Records -> 1..MaxSourceVersion]
               /\ \A t \in Records : sources[t] <= sources'[t]
    <3>1. sources \in [Records -> 1..MaxSourceVersion] /\ MaxSourceVersion \in Nat
      BY PromptAssumption DEF PromptsInv, PromptsTyped
    <3>2. sources[s] + 1 \in 1..MaxSourceVersion
      BY <2>1, <3>1 DEF WriteSource
    <3>3. sources' = [sources EXCEPT ![s] = sources[s] + 1]
      BY <2>1 DEF WriteSource
    <3> QED BY <3>1, <3>2, <3>3
  <2>2. ASSUME Tick, NEW s \in Records PROVE sources[s] <= sources[s]
    <3>1. sources[s] \in 1..MaxSourceVersion
      BY DEF PromptsInv, PromptsTyped
    <3> QED BY <3>1
  <2>3. CASE Tick
    BY <2>2, <2>3 DEF Tick, PromptsInv, PromptsTyped
  <2> QED BY <2>1, <2>3
<1>2. promptTime' \in 1..MaxPromptTime
  <2>1. CASE Tick
    BY <2>1, PromptAssumption DEF Tick, PromptsInv, PromptsTyped
  <2>2. CASE \E s \in Records : WriteSource(s)
    BY <2>2 DEF WriteSource, PromptsInv, PromptsTyped
  <2> QED BY <2>1, <2>2
<1>3. UNCHANGED <<prompts, promptCall, reader>>
  BY DEF WriteSource, Tick
<1> QED BY <1>1, <1>2, <1>3, WritersKeepPrompts DEF PromptsInv, PromptsTyped

(* The regenerations. *)
LEMMA CallsKeepPrompts ==
  ASSUME PromptsInv, NEW c \in PromptCalls, NEW k \in Regenerations,
         promptCall' = [promptCall EXCEPT ![c] = k], UNCHANGED <<sources, promptTime, reader>>,
         Sorted(prompts'), prompts \subseteq prompts', \A p \in prompts' : p.revision = p.source
  PROVE  PromptsInv'
<1>1. PromptsTyped'
  BY DEF PromptsInv, PromptsTyped
<1>2. ASSUME NEW s \in Records PROVE sources[s] <= sources'[s]
  <2>1. sources[s] \in 1..MaxSourceVersion
    BY DEF PromptsInv, PromptsTyped
  <2> QED BY <2>1
<1> QED BY <1>1, <1>2, WritersKeepPrompts

LEMMA NothingReadType == NothingRead \in Revisions
BY PromptAssumption DEF NothingRead, Revisions, Unread

LEMMA RegenerateKeepsPrompts ==
  ASSUME PromptsInv, NEW c \in PromptCalls, Regenerate(c) \/ DropPromptCall(c)
  PROVE  PromptsInv'
<1>1. \E k \in Regenerations : promptCall' = [promptCall EXCEPT ![c] = k]
  BY NothingReadType DEF Regenerate, DropPromptCall, Regenerations
<1>2. UNCHANGED <<sources, promptTime, prompts, reader>>
  BY DEF Regenerate, DropPromptCall
<1> QED BY <1>1, <1>2, CallsKeepPrompts DEF PromptsInv

LEMMA CollectKeepsPrompts ==
  ASSUME PromptsInv, NEW c \in PromptCalls, NEW s \in Records, Collect(c, s)
  PROVE  PromptsInv'
<1> DEFINE call == promptCall[c]
           got == [call.got EXCEPT ![s] = sources[s]]
<1>1. call \in [at : {"collect"}, got : Revisions]
  BY DEF PromptsInv, PromptsTyped, Regenerations, Collect, NoPromptCall
<1>2. got \in Revisions
  <2>1. sources[s] \in 0..MaxSourceVersion
    BY PromptAssumption DEF PromptsInv, PromptsTyped
  <2> QED BY <1>1, <2>1 DEF Revisions
<1>3. UNCHANGED <<sources, promptTime, prompts, reader>>
  BY DEF Collect
<1>4. CASE \E t \in Records : got[t] = Unread
  <2>1. promptCall' = [promptCall EXCEPT ![c] = [call EXCEPT !.got = got]]
    BY <1>4 DEF Collect
  <2>2. [call EXCEPT !.got = got] \in Regenerations
    <3> HIDE DEF got, call
    <3> QED BY <1>1, <1>2 DEF Regenerations
  <2> HIDE DEF got, call
  <2> QED BY <1>3, <2>1, <2>2, CallsKeepPrompts DEF PromptsInv
<1>5. CASE \A t \in Records : got[t] # Unread
  <2> DEFINE k == [at |-> "record", prompt |-> Projection(got)]
  <2>1. promptCall' = [promptCall EXCEPT ![c] = k]
    BY <1>5 DEF Collect
  <2>2. promptTime \in 1..MaxPromptTime
    BY DEF PromptsInv, PromptsTyped
  <2> HIDE DEF got
  <2>3. got \in [Records -> 1..MaxSourceVersion]
    <3>1. ASSUME NEW t \in Records PROVE got[t] \in 1..MaxSourceVersion
      <4>1. got[t] \in 0..MaxSourceVersion /\ got[t] # 0
        BY <1>2, <1>5 DEF Revisions, Unread
      <4> QED BY <4>1
    <3>2. got = [t \in Records |-> got[t]]
      BY <1>2 DEF Revisions
    <3> QED BY <3>1, <3>2
  <2>4. Projection(got) \in PromptType /\ Projection(got).revision = Projection(got).source
    BY <1>2, <2>2, <2>3 DEF Projection, PromptType, SourceRevision
  <2>5. k \in Regenerations
    BY <2>4 DEF Regenerations
  <2> HIDE DEF k
  <2> QED BY <1>3, <2>1, <2>5, CallsKeepPrompts DEF PromptsInv
<1> QED BY <1>4, <1>5

LEMMA RecordKeepsPrompts ==
  ASSUME PromptsInv, NEW c \in PromptCalls, Record(c)
  PROVE  PromptsInv'
<1> DEFINE new == promptCall[c].prompt
<1>1. new \in PromptType /\ new.revision = new.source
  BY DEF PromptsInv, PromptsTyped, Regenerations, Record, NoPromptCall
<1>2. UNCHANGED <<sources, promptTime, reader>> /\ NoPromptCall \in Regenerations
      /\ promptCall' = [promptCall EXCEPT ![c] = NoPromptCall]
  BY DEF Record, Regenerations
<1>3. CASE prompts' = prompts
  BY <1>2, <1>3, CallsKeepPrompts DEF PromptsInv
<1>4. CASE prompts' = prompts \union {new}
           /\ \A row \in prompts : SnapshotKey(row) # SnapshotKey(new)
  <2>1. IsFiniteSet(prompts')
    BY <1>4, FS_AddElement DEF PromptsInv, Sorted
  <2> HIDE DEF new
  <2>2. Sorted(prompts')
    BY <1>1, <1>4, <2>1 DEF PromptsInv, Sorted
  <2> QED BY <1>1, <1>2, <1>4, <2>2, CallsKeepPrompts DEF PromptsInv
<1> QED BY <1>3, <1>4 DEF Record

(* The reader. *)
LEMMA PageStarts ==
  ASSUME NEW n \in Nat \ {0}, NEW m \in Nat
  PROVE  (n - 1) * m \in Nat /\ (n - 1) * m + m = n * m /\ ((n + 1) - 1) * m = n * m
OBVIOUS

LEMMA ReaderAt ==
  ASSUME PromptsInv, reader.at \in {"profile", "load", "shown"}
  PROVE  reader \in Readers /\ ReaderOK(reader)
BY DEF PromptsInv, PromptsTyped, NoReader

LEMMA ReaderKeepsPrompts ==
  ASSUME PromptsInv, UNCHANGED <<sources, promptTime, prompts, promptCall>>,
         reader' = NoReader \/ \E k \in Readers : reader' = k /\ ReaderOK(k)
  PROVE  PromptsInv'
<1>1. reader' # NoReader => ReaderOK(reader)'
  <2> SUFFICES ASSUME NEW k \in Readers, reader' = k, ReaderOK(k) PROVE ReaderOK(reader)'
    OBVIOUS
  <2> QED BY DEF ReaderOK, Ahead
<1> QED BY <1>1 DEF PromptsInv, PromptsTyped, Sorted

(* The walk begins, or goes on, with what is current. *)
LEMMA OpenKeepsPrompts ==
  ASSUME PromptsInv, UNCHANGED <<sources, promptTime, prompts, promptCall>>,
         NEW number \in Nat \ {0}, NEW known \in SUBSET PromptType, NEW seen \in SUBSET PromptType,
         known \subseteq prompts, OpenPage(number, known, seen),
         \A p \in known \ seen : Place(p, prompts) >= (number - 1) * PageSize
  PROVE  PromptsInv'
<1> DEFINE k == [at |-> "profile", page |-> number, known |-> known, seen |-> seen,
                 since |-> sources, got |-> NothingRead,
                 due |-> {"rows", "latest"}, rows |-> {}, latest |-> {}]
<1>1. sources \in Revisions
  <2>1. 1..MaxSourceVersion \subseteq 0..MaxSourceVersion
    BY PromptAssumption
  <2> QED BY <2>1 DEF PromptsInv, PromptsTyped, Revisions
<1>2. k \in Readers
  BY <1>1, NothingReadType DEF Readers
<1>3. ASSUME NEW s \in Records PROVE sources[s] <= sources[s] /\ NothingRead[s] = Unread
  <2>1. sources[s] \in 1..MaxSourceVersion
    BY DEF PromptsInv, PromptsTyped
  <2> QED BY <2>1 DEF NothingRead
<1>4. Ahead(k)
  BY DEF Ahead
<1>5. ReaderOK(k)
  BY <1>3, <1>4 DEF ReaderOK
<1>6. reader' = k
  BY DEF OpenPage
<1> HIDE DEF k
<1> QED BY <1>2, <1>5, <1>6, ReaderKeepsPrompts

LEMMA OpenHistoryKeepsPrompts ==
  ASSUME PromptsInv, OpenHistory
  PROVE  PromptsInv'
<1>1. prompts \in SUBSET PromptType /\ IsFiniteSet(prompts)
  BY DEF PromptsInv, Sorted
<1>2. ASSUME NEW p \in prompts PROVE Place(p, prompts) >= (1 - 1) * PageSize
  <2>1. Place(p, prompts) \in Nat
    BY <1>1, PlaceType
  <2> QED BY <2>1, PromptAssumption
<1> QED BY <1>1, <1>2, OpenKeepsPrompts DEF OpenHistory

LEMMA TurnKeepsPrompts ==
  ASSUME PromptsInv, TurnPage
  PROVE  PromptsInv'
<1>1. CASE reader' = NoReader
  BY <1>1, ReaderKeepsPrompts DEF TurnPage
<1>2. CASE OpenPage(reader.page + 1, reader.known, reader.seen)
  <2>1. reader \in Readers /\ ReaderOK(reader) /\ reader.at = "shown"
    BY ReaderAt DEF TurnPage
  <2>2. /\ reader.page \in Nat \ {0} /\ reader.known \in SUBSET PromptType
        /\ reader.seen \in SUBSET PromptType /\ reader.known \subseteq prompts
    BY <2>1 DEF Readers, ReaderOK
  <2>3. ASSUME NEW p \in reader.known \ reader.seen
        PROVE  Place(p, prompts) >= reader.page * PageSize
    BY <2>1 DEF ReaderOK, Ahead
  <2>4. ((reader.page + 1) - 1) * PageSize = reader.page * PageSize /\ reader.page + 1 \in Nat \ {0}
    BY <2>2, PageStarts, PromptAssumption
  <2> QED BY <1>2, <2>2, <2>3, <2>4, OpenKeepsPrompts DEF TurnPage
<1> QED BY <1>1, <1>2 DEF TurnPage

LEMMA LoadSourcesKeepsPrompts ==
  ASSUME PromptsInv, NEW s \in Records, LoadSource(s) \/ (LoadProfile /\ s = "profile")
  PROVE  PromptsInv'
<1> DEFINE k == [reader EXCEPT !.at = "load", !.got = [reader.got EXCEPT ![s] = sources[s]]]
<1>1. reader \in Readers /\ ReaderOK(reader) /\ reader.at \in {"profile", "load"}
  BY ReaderAt DEF LoadSource, LoadProfile
<1>2. reader' = k
  <2>1. CASE LoadProfile /\ s = "profile"
    BY <1>1, <2>1 DEF LoadProfile, Readers, Revisions
  <2>2. CASE LoadSource(s)
    BY <1>1, <2>2 DEF LoadSource, Readers
  <2> QED BY <2>1, <2>2
<1>3. PICK got : got = [reader.got EXCEPT ![s] = sources[s]]
  OBVIOUS
<1>4. sources[s] \in 1..MaxSourceVersion /\ reader.got \in Revisions
  BY <1>1 DEF PromptsInv, PromptsTyped, Readers
<1>5. got \in Revisions /\ \A t \in Records : got[t] = IF t = s THEN sources[s] ELSE reader.got[t]
  BY <1>3, <1>4, PromptAssumption DEF Revisions
<1>6. /\ k \in Readers /\ k.at = "load" /\ k.got = got /\ k.page = reader.page
      /\ k.known = reader.known /\ k.seen = reader.seen /\ k.since = reader.since
      /\ k.due = reader.due /\ k.rows = reader.rows /\ k.latest = reader.latest
  BY <1>1, <1>3, <1>5 DEF Readers
<1> HIDE DEF k
<1>7. ASSUME NEW t \in Records
      PROVE  k.since[t] <= sources[t] /\ (k.got[t] # Unread => k.since[t] <= k.got[t])
  BY <1>1, <1>5, <1>6 DEF ReaderOK
<1>8. Ahead(k)
  BY <1>1, <1>6 DEF ReaderOK, Ahead
<1>9. ReaderOK(k)
  BY <1>1, <1>6, <1>7, <1>8 DEF ReaderOK
<1> QED BY <1>2, <1>6, <1>9, ReaderKeepsPrompts DEF LoadSource, LoadProfile

(* What is not on this page is beyond it, and if there is such a row the   *)
(* page has a next one.                                                    *)
LEMMA LoadRowsKeepsPrompts ==
  ASSUME PromptsInv, LoadRows
  PROVE  PromptsInv'
<1> DEFINE base == (reader.page - 1) * PageSize
           rows == Page(prompts, base)
           k == [reader EXCEPT !.due = @ \ {"rows"}, !.rows = rows]
<1>1. reader \in Readers /\ ReaderOK(reader) /\ reader.at = "load" /\ "rows" \in reader.due
  BY ReaderAt DEF LoadRows
<1>2. reader' = k
  BY DEF LoadRows, ListByProject, Page
<1>3. base \in Nat /\ base + PageSize = reader.page * PageSize /\ PageSize \in Nat
  BY <1>1, PageStarts, PromptAssumption DEF Readers
<1>4. rows \in SUBSET PromptType /\ rows \subseteq prompts
  BY DEF Page, PromptsInv, Sorted
<1> HIDE DEF rows
<1>5. /\ k \in Readers /\ k.at = "load" /\ k.got = reader.got /\ k.page = reader.page
      /\ k.known = reader.known /\ k.seen = reader.seen /\ k.since = reader.since
      /\ k.due = reader.due \ {"rows"} /\ k.rows = rows /\ k.latest = reader.latest
  BY <1>1, <1>4 DEF Readers
<1> HIDE DEF k, base
<1>6. ASSUME NEW p \in reader.known \ (reader.seen \union Items(rows))
      PROVE  HasNext(rows) /\ Place(p, prompts) >= reader.page * PageSize
  <2>1. p \in prompts /\ Place(p, prompts) >= base
    BY <1>1 DEF ReaderOK, Ahead, base
  <2>2. Place(p, prompts) \in Nat
    BY PlaceType DEF PromptsInv, Sorted
  <2>3. Sorted(prompts)
    BY DEF PromptsInv
  <2>4. ~(Place(p, prompts) < base + PageSize)
    <3>1. SUFFICES ASSUME Place(p, prompts) < base + PageSize PROVE FALSE
      OBVIOUS
    <3>2. p \in Items(rows)
      BY <1>3, <2>1, <2>3, <3>1, PageItems DEF rows
    <3> QED BY <3>2
  <2>5. Place(p, prompts) >= base + PageSize
    BY <1>3, <2>2, <2>4
  <2>6. HasNext(rows)
    BY <1>3, <2>1, <2>3, <2>5, PageHasNext DEF rows
  <2> QED BY <1>3, <2>5, <2>6
<1>7. Ahead(k)
  BY <1>5, <1>6 DEF Ahead
<1>8. ReaderOK(k)
  BY <1>1, <1>4, <1>5, <1>7 DEF ReaderOK
<1> QED BY <1>2, <1>5, <1>8, ReaderKeepsPrompts DEF LoadRows

LEMMA LoadLatestKeepsPrompts ==
  ASSUME PromptsInv, LoadLatest
  PROVE  PromptsInv'
<1> DEFINE latest == IF reader.page = 1 THEN Latest(reader.rows) ELSE ListByProject(1, 0)
           k == [reader EXCEPT !.due = @ \ {"latest"}, !.latest = latest]
<1>1. reader \in Readers /\ ReaderOK(reader) /\ reader.at = "load"
  BY ReaderAt DEF LoadLatest
<1>2. reader' = k
  BY DEF LoadLatest
<1>3. latest \subseteq prompts /\ latest \in SUBSET PromptType
  BY <1>1 DEF ReaderOK, Latest, ListByProject, PromptsInv, Sorted
<1> HIDE DEF latest
<1>4. /\ k \in Readers /\ k.at = "load" /\ k.got = reader.got /\ k.page = reader.page
      /\ k.known = reader.known /\ k.seen = reader.seen /\ k.since = reader.since
      /\ k.due = reader.due \ {"latest"} /\ k.rows = reader.rows /\ k.latest = latest
  BY <1>1, <1>3 DEF Readers
<1> HIDE DEF k
<1>5. Ahead(k)
  BY <1>1, <1>4 DEF ReaderOK, Ahead
<1>6. ReaderOK(k)
  BY <1>1, <1>3, <1>4, <1>5 DEF ReaderOK
<1> QED BY <1>2, <1>4, <1>6, ReaderKeepsPrompts DEF LoadLatest

LEMMA ShowKeepsPrompts ==
  ASSUME PromptsInv, Show
  PROVE  PromptsInv'
<1> DEFINE k == [reader EXCEPT !.at = "shown", !.seen = @ \union Items(reader.rows)]
<1>1. reader \in Readers /\ ReaderOK(reader) /\ reader.at = "load" /\ reader.due = {}
  BY ReaderAt DEF Show
<1>2. reader' = k
  BY DEF Show
<1>3. reader.seen \union Items(reader.rows) \in SUBSET PromptType
  BY <1>1 DEF Readers, Items
<1>4. /\ k \in Readers /\ k.at = "shown" /\ k.got = reader.got /\ k.page = reader.page
      /\ k.known = reader.known /\ k.seen = reader.seen \union Items(reader.rows)
      /\ k.since = reader.since /\ k.due = reader.due /\ k.rows = reader.rows
      /\ k.latest = reader.latest
  BY <1>1, <1>3 DEF Readers
<1> HIDE DEF k
<1>5. Ahead(k)
  BY <1>1, <1>4 DEF ReaderOK, Ahead
<1>6. ReaderOK(k)
  BY <1>1, <1>4, <1>5 DEF ReaderOK
<1> QED BY <1>2, <1>4, <1>6, ReaderKeepsPrompts DEF Show

(* Whoever regenerates and writes meanwhile, and whoever fails.            *)
THEOREM PromptsInvariant == SpecPrompts => []PromptsInv
<1>1. PromptsInv /\ [NextPrompts]_promptVars => PromptsInv'
  <2> SUFFICES ASSUME PromptsInv, [NextPrompts]_promptVars PROVE PromptsInv'
    OBVIOUS
  <2>1. CASE NextPrompts
    <3>1. ASSUME LoadProfile PROVE PromptsInv'
      BY <3>1, LoadSourcesKeepsPrompts, PromptAssumption
    <3> QED BY <2>1, <3>1, WriteKeepsPrompts, LoadSourcesKeepsPrompts, RegenerateKeepsPrompts,
            RecordKeepsPrompts, CollectKeepsPrompts, OpenHistoryKeepsPrompts,
            LoadRowsKeepsPrompts, LoadLatestKeepsPrompts, ShowKeepsPrompts, TurnKeepsPrompts
        DEF NextPrompts
  <2>2. CASE UNCHANGED promptVars
    BY <2>2 DEF promptVars, PromptsInv, PromptsTyped, Sorted, ReaderOK, Ahead
  <2> QED BY <2>1, <2>2
<1> QED BY <1>1, PromptsInit, PTL DEF SpecPrompts

(* Records, prompts, regenerations and the reader are always well formed,   *)
(* whoever fails between two awaits of collectSource or of historyPage.     *)
THEOREM PromptsAreTyped == SpecPrompts => []TypeOKPrompts
<1>1. PromptsInv => TypeOKPrompts
  <2> SUFFICES ASSUME PromptsInv PROVE TypeOKPrompts
    OBVIOUS
  <2>1. ASSUME NEW c \in PromptCalls PROVE promptCall[c].at \in {"none", "collect", "record"}
    <3>1. promptCall[c] \in Regenerations
      BY DEF PromptsInv, PromptsTyped
    <3> QED BY <3>1 DEF Regenerations, NoPromptCall
  <2>2. reader.at \in {"none", "profile", "load", "shown"}
    BY DEF PromptsInv, PromptsTyped, Readers, NoReader
  <2>3. prompts \subseteq PromptType
    BY DEF PromptsInv, Sorted
  <2> QED BY <2>1, <2>2, <2>3 DEF PromptsInv, PromptsTyped, TypeOKPrompts
<1> QED BY <1>1, PromptsInvariant, PTL

(* For any number of records, prompts and regenerations and any size of a  *)
(* page: a prompt that the history calls fresh names nothing older than    *)
(* what was current when its page was asked for; and a reader who turns    *)
(* historyPage to its end has seen every prompt that was there when the    *)
(* walk began, although rows are inserted before those not yet shown.      *)
THEOREM HistoriesAreFaithful == SpecPrompts => []HistoryIsFaithful
<1>1. PromptsInv => FreshPromptIsCurrent
  <2> SUFFICES ASSUME PromptsInv, reader.at = "shown", NEW p \in reader.latest,
                      ShownAsFresh(p), NEW s \in Records
               PROVE  p.source[s] >= reader.since[s]
    BY DEF FreshPromptIsCurrent
  <2>1. reader \in Readers /\ ReaderOK(reader)
    BY ReaderAt
  <2>2. p \in prompts /\ p.source = reader.got
    BY <2>1 DEF ReaderOK, PromptsInv, ShownAsFresh, SourceRevision
  <2>3. p.source[s] \in 1..MaxSourceVersion
    BY <2>2 DEF PromptsInv, Sorted, PromptType
  <2>4. reader.got[s] # Unread /\ reader.since[s] <= reader.got[s] /\ reader.since[s] \in 0..MaxSourceVersion
    BY <2>1, <2>2, <2>3 DEF ReaderOK, Unread, Readers, Revisions
  <2> QED BY <2>2, <2>3, <2>4
<1>2. PromptsInv => WalkShowsEveryPrompt
  <2> SUFFICES ASSUME PromptsInv, reader.at = "shown", ~HasNext(reader.rows)
               PROVE  reader.known \subseteq reader.seen
    BY DEF WalkShowsEveryPrompt
  <2>1. ReaderOK(reader)
    BY ReaderAt
  <2> QED BY <2>1 DEF ReaderOK, Ahead
<1> QED BY <1>1, <1>2, PromptsInvariant, PTL DEF HistoryIsFaithful

-----------------------------------------------------------------------------
(* The pages together.                                                     *)

(* A behaviour of all is one of each: what is proved of any of them alone  *)
(* holds whatever the others do meanwhile.                                 *)
LEMMA PagesApart ==
  SpecPages => /\ SpecResolver /\ SpecFactory /\ SpecPrompts /\ SpecJourney /\ SpecStudio
               /\ SpecEcosystem /\ SpecPublication /\ SpecAcceptance /\ SpecConsole
<1>1. InitPages => /\ InitResolver /\ InitFactory /\ InitPrompts /\ InitJourney /\ InitStudio
                   /\ InitEcosystem /\ InitPublication /\ InitAcceptance /\ InitConsole
  BY DEF InitPages
<1>2. [NextPages]_pagesVars
        => /\ [ResolveAny]_resolverVars /\ [NextFactory]_factoryVars
           /\ [NextPrompts]_promptVars /\ [NextJourney]_journeyVars
           /\ [NextStudio]_studioVars /\ [NextEcosystem]_ecosystemVars
           /\ [NextPublication]_publicationVars /\ [NextAcceptance]_acceptanceVars
           /\ [NextConsole]_consoleVars
  BY DEF NextPages, pagesVars, ResolverRuns, FactoryRuns, PromptsRun, JourneyRuns, StudioRuns,
         EcosystemRuns, PublicationRuns, AcceptanceRuns, ConsoleRuns
<1> QED BY <1>1, <1>2, PTL
  DEF SpecPages, SpecResolver, SpecFactory, SpecPrompts, SpecJourney, SpecStudio, SpecEcosystem,
      SpecPublication, SpecAcceptance, SpecConsole

(* The types of all the pages together. *)
THEOREM PagesAreTyped == SpecPages => []TypeOK
<1>1. TypeOKFactory /\ TypeOKPrompts /\ JourneyInv /\ TypeOKStudio /\ TypeOKEcosystem
      /\ PublicationInv /\ TypeOKAcceptance /\ TypeOKConsole
        => TypeOK
  BY DEF JourneyInv, JourneyTypes, PublicationInv, TypeOK
<1> QED BY <1>1, PagesApart, FactoryTypes, PromptsAreTyped, JourneyInvariant, StudioIsTyped,
           EcosystemIsTyped, PublicationInvariant, AcceptanceIsTyped, ConsoleIsTyped, PTL

(* What each of the pages promises holds of all running together. *)
THEOREM PagesKeepTheirPromises ==
  SpecPages => /\ [](ResolutionMeetsContract /\ PlansAreExecutable /\ HistoryIsFaithful)
               /\ [](CanonicalWorkIsStored /\ StudioShowsEvidence /\ ComplianceIsEvidenced)
               /\ [](PublicationIsBacked /\ AcceptanceIsBacked /\ DecidedAsShown)
               /\ ConsoleContract
BY PagesApart, ResolutionsMeetContract, PlansCanBeCarriedOut, HistoriesAreFaithful,
   PersistedIsStored, StudioShowsItsEvidence, ComplianceIsAudited, PublicationsAreBacked,
   AcceptancesAreBacked, DecisionsAreAsShown, ConsoleImplementsLifecycle, PTL
=============================================================================
