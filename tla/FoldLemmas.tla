-------------------------------- MODULE FoldLemmas --------------------------------
(***************************************************************************)
(* What a fold over a finite set computes.  The operators of the fold are  *)
(* constants of this module, so that its theorems hold, by INSTANCE, for   *)
(* each fold of the engines.                                               *)
(***************************************************************************)
EXTENDS Integers, Folds, FiniteSetTheorems, WellFoundedInduction, TLAPS

CONSTANTS Op(_, _), \* folds one weight into a value
          Weight(_) \* what an element contributes

Pick(S) == CHOOSE x \in S : TRUE
Fold(base, S) == MapThenFoldSet(Op, base, Weight, Pick, S)

Rec(base, g, s) == IF s = {} THEN base ELSE Op(Weight(Pick(s)), g[s \ {Pick(s)}])

(* g solves the recursion of the fold on the subsets of S.                 *)
Solves(base, S, g) == g = [s \in SUBSET S |-> Rec(base, g, s)]

(* Of a collection of subsets of a finite set one is minimal.              *)
LEMMA SmallestSubset ==
  ASSUME NEW S, IsFiniteSet(S), NEW Bad \in SUBSET (SUBSET S), Bad # {}
  PROVE  \E T \in Bad : \A U \in SUBSET T : U # T => U \notin Bad
<1>1. IsWellFoundedOn(StrictSubsetOrdering(S), SUBSET S)
  BY FS_StrictSubsetOrderingWellFounded, FS_FiniteSubsetsOfFinite
<1>2. PICK T \in Bad : \A U \in Bad : <<U, T>> \notin StrictSubsetOrdering(S)
  BY <1>1, WFMin
<1> QED  BY <1>2 DEF StrictSubsetOrdering

LEMMA FoldUnfolds == \A base, S : Fold(base, S) = (CHOOSE g : Solves(base, S, g))[S]
BY DEF Fold, MapThenFoldSet, Solves, Rec, Pick

LEMMA PickIn == \A S : S # {} => Pick(S) \in S
BY DEF Pick

(* The recursion has one solution.                                         *)
LEMMA SolutionUnique ==
  ASSUME NEW base, NEW S, IsFiniteSet(S), NEW g, NEW h, Solves(base, S, g), Solves(base, S, h)
  PROVE  g = h
<1> DEFINE Bad == { s \in SUBSET S : g[s] # h[s] }
<1>1. \A s \in SUBSET S : g[s] = Rec(base, g, s) /\ h[s] = Rec(base, h, s)
  BY DEF Solves
<1>2. SUFFICES ASSUME Bad # {} PROVE FALSE
  <2>1. (\A s \in SUBSET S : g[s] = h[s]) => g = h
    BY DEF Solves
  <2> QED  BY <2>1
<1>3. PICK T \in Bad : \A U \in SUBSET T : U # T => U \notin Bad
  <2>1. Bad \in SUBSET (SUBSET S)
    OBVIOUS
  <2> HIDE DEF Bad
  <2> QED  BY <1>2, <2>1, SmallestSubset
<1>4. CASE T = {}
  BY <1>1, <1>3, <1>4 DEF Rec
<1>5. CASE T # {}
  <2>1. T \ {Pick(T)} # T /\ T \ {Pick(T)} \in SUBSET T
    BY <1>5, PickIn
  <2>2. g[T \ {Pick(T)}] = h[T \ {Pick(T)}]
    BY <1>3, <2>1
  <2> QED  BY <1>1, <1>3, <1>5, <2>2 DEF Rec
<1> QED  BY <1>4, <1>5

(* The recursion the fold is defined by holds of it.                       *)
LEMMA FoldRecursion ==
  ASSUME NEW base, NEW S, IsFiniteSet(S)
  PROVE  Fold(base, S) = IF S = {} THEN base ELSE Op(Weight(Pick(S)), Fold(base, S \ {Pick(S)}))
<1> DEFINE F(s)   == IF s = {} THEN base ELSE Op(Weight(Pick(s)), Fold(base, s \ {Pick(s)}))
           Bad    == { s \in SUBSET S : Fold(base, s) # F(s) }
<1>1. SUFFICES ASSUME Bad # {} PROVE FALSE
  OBVIOUS
<1>2. PICK T \in Bad : \A U \in SUBSET T : U # T => U \notin Bad
  BY <1>1, SmallestSubset
<1> DEFINE g == [s \in SUBSET T |-> IF s = T THEN F(T) ELSE Fold(base, s)]
<1>3. Solves(base, T, g)
  <2> SUFFICES ASSUME NEW s \in SUBSET T PROVE g[s] = Rec(base, g, s)
    BY DEF Solves
  <2>1. g[s] = F(s)
    BY <1>2
  <2>2. CASE s = {}
    BY <2>1, <2>2 DEF Rec
  <2>3. CASE s # {}
    <3>1. s \ {Pick(s)} # T /\ s \ {Pick(s)} \in SUBSET T
      BY <2>3, PickIn
    <3>2. g[s \ {Pick(s)}] = Fold(base, s \ {Pick(s)})
      BY <3>1
    <3> QED  BY <2>1, <2>3, <3>2 DEF Rec
  <2> QED  BY <2>2, <2>3
<1>4. IsFiniteSet(T)
  BY <1>2, FS_Subset
<1>5. (CHOOSE f : Solves(base, T, f)) = g
  <2> HIDE DEF g
  <2>1. Solves(base, T, CHOOSE f : Solves(base, T, f))
    BY <1>3
  <2> QED  BY <1>3, <1>4, <2>1, SolutionUnique
<1>6. Fold(base, T) = F(T)
  BY <1>5, FoldUnfolds
<1> QED  BY <1>2, <1>6
-----------------------------------------------------------------------------------
(* Folding in one element of S keeps the values of T, and two elements     *)
(* fold in the same way in either order.                                   *)
AnyOrder(base, S, T) ==
  /\ base \in T
  /\ \A x \in S, v \in T : Op(Weight(x), v) \in T
  /\ \A x, y \in S, v \in T :
       Op(Weight(x), Op(Weight(y), v)) = Op(Weight(y), Op(Weight(x), v))

LEMMA FoldType ==
  ASSUME NEW base, NEW S, IsFiniteSet(S), NEW T, AnyOrder(base, S, T)
  PROVE  \A s \in SUBSET S : Fold(base, s) \in T
<1> DEFINE Bad == { s \in SUBSET S : Fold(base, s) \notin T }
<1>1. SUFFICES ASSUME Bad # {} PROVE FALSE
  OBVIOUS
<1>2. PICK s \in Bad : \A u \in SUBSET s : u # s => u \notin Bad
  <2>1. Bad \in SUBSET (SUBSET S)
    OBVIOUS
  <2> HIDE DEF Bad
  <2> QED  BY <1>1, <2>1, SmallestSubset
<1>3. Fold(base, s) = IF s = {} THEN base ELSE Op(Weight(Pick(s)), Fold(base, s \ {Pick(s)}))
  BY <1>2, FS_Subset, FoldRecursion
<1>4. CASE s # {}
  <2>1. Pick(s) \in s /\ Pick(s) \in S
    BY <1>4, PickIn
  <2>2. Fold(base, s \ {Pick(s)}) \in T
    BY <1>2, <2>1
  <2> QED  BY <1>2, <1>3, <1>4, <2>1, <2>2 DEF AnyOrder
<1> QED  BY <1>2, <1>3, <1>4 DEF AnyOrder

(* Any element may be the first to be taken out.                           *)
LEMMA FoldRemove ==
  ASSUME NEW base, NEW S, IsFiniteSet(S), NEW T, AnyOrder(base, S, T)
  PROVE  \A s \in SUBSET S : \A x \in s : Fold(base, s) = Op(Weight(x), Fold(base, s \ {x}))
<1> DEFINE Bad == { s \in SUBSET S : \E x \in s : Fold(base, s) # Op(Weight(x), Fold(base, s \ {x})) }
<1>1. SUFFICES ASSUME Bad # {} PROVE FALSE
  OBVIOUS
<1>2. PICK s \in Bad : \A u \in SUBSET s : u # s => u \notin Bad
  BY <1>1, SmallestSubset
<1>3. PICK x \in s : Fold(base, s) # Op(Weight(x), Fold(base, s \ {x}))
  BY <1>2
<1> DEFINE p == Pick(s)
<1>4. p \in s /\ s \in SUBSET S
  BY <1>2, <1>3, PickIn
<1>5. Fold(base, s) = Op(Weight(p), Fold(base, s \ {p}))
  BY <1>3, <1>4, FS_Subset, FoldRecursion
<1>6. p # x
  BY <1>3, <1>5
<1> HIDE DEF p
<1>7. Fold(base, s \ {p}) = Op(Weight(x), Fold(base, (s \ {p}) \ {x}))
  <2>1. s \ {p} \in SUBSET s /\ s \ {p} # s /\ x \in s \ {p}
    BY <1>4, <1>6
  <2> QED  BY <1>2, <1>4, <2>1
<1>8. Fold(base, s \ {x}) = Op(Weight(p), Fold(base, (s \ {x}) \ {p}))
  <2>1. s \ {x} \in SUBSET s /\ s \ {x} # s /\ p \in s \ {x}
    BY <1>4, <1>6
  <2> QED  BY <1>2, <1>4, <2>1
<1>9. PICK rest \in T : rest = Fold(base, (s \ {x}) \ {p})
  BY <1>4, FoldType
<1>10. (s \ {p}) \ {x} = (s \ {x}) \ {p}
  OBVIOUS
<1>11. /\ Fold(base, s) = Op(Weight(p), Op(Weight(x), rest))
       /\ Fold(base, s \ {x}) = Op(Weight(p), rest)
  BY <1>5, <1>7, <1>8, <1>9, <1>10
<1>12. x \in S /\ p \in S
  BY <1>4
<1>13. Op(Weight(p), Op(Weight(x), rest)) = Op(Weight(x), Op(Weight(p), rest))
  BY <1>12 DEF AnyOrder
<1> QED  BY <1>3, <1>11, <1>13

(* The fold of a set with one element more.                                *)
THEOREM FoldAdd ==
  ASSUME NEW base, NEW S, IsFiniteSet(S), NEW x, x \notin S, NEW T, AnyOrder(base, S \cup {x}, T)
  PROVE  Fold(base, S) \in T /\ Fold(base, S \cup {x}) = Op(Weight(x), Fold(base, S))
<1>1. IsFiniteSet(S \cup {x}) /\ (S \cup {x}) \ {x} = S
  BY FS_AddElement
<1> QED  BY <1>1, FoldType, FoldRemove
===================================================================================
