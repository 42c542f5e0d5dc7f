------------------------------- MODULE FiniteSums -------------------------------
(***************************************************************************)
(* Sums of natural numbers over finite sets, for the proofs about tokens,  *)
(* files and bytes.  MapThenSumSet is a fold, which a recursive function   *)
(* computes; the lemmas below show that the function exists, that the      *)
(* order in which it takes the elements does not matter, and what a sum is *)
(* of one element more.  Induction is on subsets of a finite set: a family *)
(* of them that is not empty has a minimal member.                         *)
(***************************************************************************)
EXTENDS Naturals, FiniteSetsExt, FiniteSetTheorems, TLAPS

(* The sum of w[x] for the elements x of S. *)
SumOf(w, S) == MapThenSumSet(LAMBDA x : w[x], S)

Pick(s) == CHOOSE y \in s : TRUE
Unfold(w, f, s) == IF s = {} THEN 0 ELSE w[Pick(s)] + f[s \ {Pick(s)}]
Rec(w, f, S) == f = [s \in SUBSET S |-> Unfold(w, f, s)]

(* The fold of the sum is the value of a recursive function. *)
LEMMA SumIs ==
  ASSUME NEW w, NEW S
  PROVE  SumOf(w, S) = (CHOOSE f : Rec(w, f, S))[S]
  BY DEF SumOf, MapThenSumSet, MapThenFoldSet, Rec, Unfold, Pick

(* Induction on finite sets: a family of subsets has a minimal member. *)
LEMMA MinimalCounterexample ==
  ASSUME NEW S, IsFiniteSet(S), NEW T, T \subseteq SUBSET S, T # {}
  PROVE  \E s \in T : \A t \in SUBSET s : t # s => t \notin T
  <1>1. T \subseteq FiniteSubsetsOf(S)
    BY FS_Subset DEF FiniteSubsetsOf
  <1>2. \E s \in T : \A t \in T : <<t, s>> \notin StrictSubsetOrdering(S)
    BY <1>1, FS_StrictSubsetOrderingWellFounded, WFMin
  <1> QED BY <1>2 DEF StrictSubsetOrdering

LEMMA PickIsMember == \A s : s # {} => Pick(s) \in s
  BY DEF Pick

(* Two such functions agree on every finite set both are defined for. *)
LEMMA RecAgree ==
  ASSUME NEW w, NEW S, IsFiniteSet(S), NEW f, NEW h, NEW U, NEW V, Rec(w, f, U), Rec(w, h, V),
         S \subseteq U, S \subseteq V
  PROVE  \A s \in SUBSET S : f[s] = h[s]
  <1> DEFINE T == {s \in SUBSET S : f[s] # h[s]}
  <1>1. SUFFICES ASSUME T # {} PROVE FALSE
    OBVIOUS
  <1>0. T \subseteq SUBSET S
    OBVIOUS
  <1>2. PICK s \in T : \A t \in SUBSET s : t # s => t \notin T
    <2> HIDE DEF T
    <2> QED BY <1>0, <1>1, MinimalCounterexample
  <1>3. s \in SUBSET S /\ f[s] # h[s]
    BY <1>2
  <1>4. f[s] = Unfold(w, f, s) /\ h[s] = Unfold(w, h, s)
    BY <1>3 DEF Rec
  <1>5. s # {}
    BY <1>3, <1>4 DEF Unfold
  <1>6. s \ {Pick(s)} \in SUBSET s /\ s \ {Pick(s)} # s
    BY <1>5, PickIsMember
  <1>7. f[s \ {Pick(s)}] = h[s \ {Pick(s)}]
    BY <1>2, <1>3, <1>6
  <1> QED BY <1>3, <1>4, <1>7 DEF Unfold

LEMMA RecRestricts ==
  ASSUME NEW w, NEW S, NEW f, Rec(w, f, S), NEW s \in SUBSET S
  PROVE  Rec(w, [t \in SUBSET s |-> f[t]], s)
  <1> DEFINE h == [t \in SUBSET s |-> f[t]]
  <1>1. ASSUME NEW t \in SUBSET s PROVE f[t] = Unfold(w, h, t)
    <2>1. f[t] = Unfold(w, f, t)
      BY DEF Rec
    <2>2. t \ {Pick(t)} \in SUBSET s
      OBVIOUS
    <2> QED BY <2>1, <2>2 DEF Unfold
  <1> QED BY <1>1 DEF Rec

LEMMA SumIsValue ==
  ASSUME NEW w, NEW S, IsFiniteSet(S), NEW f, Rec(w, f, S), NEW s \in SUBSET S
  PROVE  SumOf(w, s) = f[s]
  <1> DEFINE h == CHOOSE g : Rec(w, g, s)
  <1>1. Rec(w, h, s)
    BY RecRestricts
  <1>2. IsFiniteSet(s)
    BY FS_Subset
  <1> HIDE DEF h
  <1>3. h[s] = f[s]
    BY <1>1, <1>2, RecAgree
  <1> QED BY <1>3, SumIs DEF h

(* There is such a function for every finite set. *)
LEMMA RecExists ==
  ASSUME NEW w, NEW S, IsFiniteSet(S)
  PROVE  \E f : Rec(w, f, S)
  <1> DEFINE T == {s \in SUBSET S : ~ \E f : Rec(w, f, s)}
  <1>1. SUFFICES ASSUME T # {} PROVE FALSE
    OBVIOUS
  <1>0. T \subseteq SUBSET S
    OBVIOUS
  <1>2. PICK s \in T : \A t \in SUBSET s : t # s => t \notin T
    <2> HIDE DEF T
    <2> QED BY <1>0, <1>1, MinimalCounterexample
  <1> DEFINE f == [t \in SUBSET s |-> IF t = {} THEN 0
                                      ELSE w[Pick(t)] + SumOf(w, t \ {Pick(t)})]
  <1>3. ASSUME NEW t \in SUBSET s, t # s PROVE f[t] = SumOf(w, t)
    <2>1. PICK h : Rec(w, h, t)
      BY <1>2, <1>3
    <2>2. IsFiniteSet(t)
      BY FS_Subset
    <2>3. SumOf(w, t) = h[t] /\ h[t] = Unfold(w, h, t)
      <3>1. SumOf(w, t) = h[t]
        BY <2>1, <2>2, SumIsValue
      <3>2. h[t] = Unfold(w, h, t)
        BY <2>1 DEF Rec
      <3> QED BY <3>1, <3>2
    <2>4. h[t \ {Pick(t)}] = SumOf(w, t \ {Pick(t)})
      BY <2>1, <2>2, SumIsValue
    <2> QED BY <2>3, <2>4 DEF Unfold
  <1>4. ASSUME NEW t \in SUBSET s PROVE f[t] = Unfold(w, f, t)
    <2>1. CASE t = {} BY <2>1 DEF Unfold
    <2>2. CASE t # {}
      <3>1. t \ {Pick(t)} \in SUBSET s /\ t \ {Pick(t)} # s
        BY <2>2, PickIsMember
      <3>2. f[t \ {Pick(t)}] = SumOf(w, t \ {Pick(t)})
        BY <3>1, <1>3
      <3> QED BY <2>2, <3>2 DEF Unfold
    <2> QED BY <2>1, <2>2
  <1>5. Rec(w, f, s)
    BY <1>4 DEF Rec
  <1> QED BY <1>2, <1>5

LEMMA SumUnfolds ==
  ASSUME NEW w, NEW S, IsFiniteSet(S)
  PROVE  SumOf(w, S) = IF S = {} THEN 0 ELSE w[Pick(S)] + SumOf(w, S \ {Pick(S)})
  <1>1. PICK f : Rec(w, f, S)
    BY RecExists
  <1>2. f[S] = Unfold(w, f, S)
    BY <1>1 DEF Rec
  <1> QED BY <1>1, <1>2, SumIsValue DEF Unfold

LEMMA SumType ==
  ASSUME NEW w, NEW S, IsFiniteSet(S), \A r \in S : w[r] \in Nat
  PROVE  SumOf(w, S) \in Nat
  <1> DEFINE T == {s \in SUBSET S : SumOf(w, s) \notin Nat}
  <1>1. SUFFICES ASSUME T # {} PROVE FALSE
    OBVIOUS
  <1>0. T \subseteq SUBSET S
    OBVIOUS
  <1>2. PICK s \in T : \A t \in SUBSET s : t # s => t \notin T
    <2> HIDE DEF T
    <2> QED BY <1>0, <1>1, MinimalCounterexample
  <1>3. IsFiniteSet(s)
    BY FS_Subset
  <1>4. s # {} /\ Pick(s) \in s
    <2>1. s = {} => SumOf(w, s) = 0
      BY <1>3, SumUnfolds
    <2> QED BY <1>2, <2>1, PickIsMember
  <1>5. SumOf(w, s \ {Pick(s)}) \in Nat
    BY <1>2, <1>4
  <1> QED BY <1>2, <1>3, <1>4, <1>5, SumUnfolds

(* Any element may be taken out first. *)
LEMMA SumExchange ==
  ASSUME NEW w, NEW S, IsFiniteSet(S), \A r \in S : w[r] \in Nat
  PROVE  \A x \in S : SumOf(w, S) = w[x] + SumOf(w, S \ {x})
  <1> DEFINE T == {s \in SUBSET S : \E x \in s : SumOf(w, s) # w[x] + SumOf(w, s \ {x})}
  <1>1. SUFFICES ASSUME T # {} PROVE FALSE
    OBVIOUS
  <1>0. T \subseteq SUBSET S
    OBVIOUS
  <1>2. PICK s \in T : \A t \in SUBSET s : t # s => t \notin T
    <2> HIDE DEF T
    <2> QED BY <1>0, <1>1, MinimalCounterexample
  <1>3. PICK x \in s : SumOf(w, s) # w[x] + SumOf(w, s \ {x})
    BY <1>2
  <1> DEFINE p == Pick(s)
             a == s \ {p}
             b == s \ {x}
  <1>4. /\ IsFiniteSet(s) /\ IsFiniteSet(a) /\ IsFiniteSet(b)
        /\ p \in s /\ SumOf(w, s) = w[p] + SumOf(w, a)
    BY <1>3, FS_Subset, SumUnfolds, PickIsMember
  <1>5. p # x
    BY <1>3, <1>4
  <1>6. SumOf(w, a) = w[x] + SumOf(w, a \ {x})
    BY <1>2, <1>3, <1>4, <1>5
  <1>7. SumOf(w, b) = w[p] + SumOf(w, b \ {p})
    BY <1>2, <1>3, <1>4, <1>5
  <1>8. a \ {x} = b \ {p} /\ IsFiniteSet(a \ {x})
    BY <1>4, FS_Subset
  <1>9. SumOf(w, a \ {x}) \in Nat /\ w[p] \in Nat /\ w[x] \in Nat
    BY <1>3, <1>4, <1>8, SumType
  <1>10. SumOf(w, s) = w[p] + (w[x] + SumOf(w, a \ {x})) /\ SumOf(w, s) # w[x] + SumOf(w, b)
    BY <1>3, <1>4, <1>6
  <1>11. SumOf(w, b) = w[p] + SumOf(w, a \ {x})
    BY <1>7, <1>8
  <1> HIDE DEF p, a, b
  <1> QED BY <1>9, <1>10, <1>11

(* The sum with one element more. *)
LEMMA SumAdds ==
  ASSUME NEW w, NEW S, IsFiniteSet(S), \A r \in S : w[r] \in Nat,
         NEW x, x \notin S, w[x] \in Nat
  PROVE  SumOf(w, S \union {x}) = SumOf(w, S) + w[x]
  <1>1. (S \union {x}) \ {x} = S /\ IsFiniteSet(S \union {x})
    BY FS_AddElement
  <1>2. SumOf(w, S \union {x}) = w[x] + SumOf(w, S)
    BY <1>1, SumExchange
  <1> QED BY <1>2, SumType

LEMMA SumOfNone == \A w : SumOf(w, {}) = 0
  BY FS_EmptySet, SumUnfolds

(* A sum is at least each of its terms. *)
LEMMA SumIsAtLeast ==
  ASSUME NEW w, NEW S, IsFiniteSet(S), \A r \in S : w[r] \in Nat, NEW x \in S
  PROVE  w[x] <= SumOf(w, S)
  <1>1. SumOf(w, S) = w[x] + SumOf(w, S \ {x})
    BY SumExchange
  <1>2. IsFiniteSet(S \ {x})
    BY FS_Subset
  <1>3. SumOf(w, S \ {x}) \in Nat
    BY <1>2, SumType
  <1> QED BY <1>1, <1>3

(* Only the values in S matter. *)
LEMMA SumAgrees ==
  ASSUME NEW v, NEW w, NEW S, \A x \in S : v[x] = w[x]
  PROVE  SumOf(v, S) = SumOf(w, S)
  <1>1. \A f, s : s \in SUBSET S => Unfold(v, f, s) = Unfold(w, f, s)
    BY PickIsMember DEF Unfold
  <1>2. \A f : Rec(v, f, S) <=> Rec(w, f, S)
    BY <1>1 DEF Rec
  <1>3. (CHOOSE f : Rec(v, f, S)) = (CHOOSE f : Rec(w, f, S))
    BY <1>2
  <1> QED BY <1>3, SumIs

(* Terms of at most k each, of which only those in T are not zero. *)
LEMMA SumIsAtMost ==
  ASSUME NEW w, NEW S, IsFiniteSet(S), \A r \in S : w[r] \in Nat,
         NEW T, T \subseteq S, NEW k \in Nat,
         \A r \in T : w[r] <= k, \A r \in S \ T : w[r] = 0
  PROVE  SumOf(w, S) <= k * Cardinality(T)
  <1> DEFINE Fits(s) == SumOf(w, s) <= k * Cardinality(s \intersect T)
             B == {s \in SUBSET S : ~ Fits(s)}
  <1>1. SUFFICES ASSUME B # {} PROVE FALSE
    <2>1. S \intersect T = T
      OBVIOUS
    <2> QED BY <2>1
  <1>0. B \subseteq SUBSET S
    OBVIOUS
  <1>2. PICK s \in B : \A t \in SUBSET s : t # s => t \notin B
    <2> HIDE DEF B
    <2> QED BY <1>0, <1>1, MinimalCounterexample
  <1>3. s \subseteq S /\ ~ Fits(s) /\ IsFiniteSet(s)
    BY <1>2, FS_Subset
  <1>4. s # {}
    <2>1. SumOf(w, {}) = 0 /\ {} \intersect T = {} /\ Cardinality({}) = 0 /\ k * 0 = 0
      BY SumOfNone, FS_EmptySet
    <2>2. Fits({})
      BY <2>1
    <2> HIDE DEF Fits
    <2> QED BY <1>3, <2>2
  <1> DEFINE x == Pick(s)
             a == s \ {x}
  <1>5. x \in s /\ a \subseteq S /\ IsFiniteSet(a)
    BY <1>3, <1>4, PickIsMember, FS_Subset
  <1> HIDE DEF x
  <1>6. Fits(a)
    BY <1>2, <1>5
  <1>7. SumOf(w, s) = w[x] + SumOf(w, a) /\ SumOf(w, a) \in Nat /\ w[x] \in Nat
    <2>1. SumOf(w, s) = w[x] + SumOf(w, a)
      BY <1>3, <1>5, SumExchange
    <2> QED BY <1>3, <1>5, <2>1, SumType
  <1>8. IsFiniteSet(a \intersect T)
    BY <1>5, FS_Subset
  <1>9. Cardinality(a \intersect T) \in Nat
    BY <1>8, FS_CardinalityType
  <1>10. CASE x \in T
    <2>1. s \intersect T = (a \intersect T) \union {x} /\ x \notin a \intersect T
      BY <1>5, <1>10
    <2>2. Cardinality(s \intersect T) = Cardinality(a \intersect T) + 1
      BY <1>8, <2>1, FS_AddElement
    <2>3. w[x] <= k
      BY <1>10
    <2>4. k * (Cardinality(a \intersect T) + 1) = k * Cardinality(a \intersect T) + k
      BY <1>9
    <2>5. k * Cardinality(a \intersect T) \in Nat
      BY <1>9
    <2> QED BY <1>3, <1>6, <1>7, <2>2, <2>3, <2>4, <2>5
  <1>11. CASE x \notin T
    <2>1. s \intersect T = a \intersect T
      BY <1>11
    <2>2. w[x] = 0
      BY <1>3, <1>5, <1>11
    <2>3. SumOf(w, s) = SumOf(w, a)
      BY <1>7, <2>2
    <2> QED BY <1>3, <1>6, <2>1, <2>3
  <1> QED BY <1>10, <1>11
==============================================================================
