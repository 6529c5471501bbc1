------------------------------ MODULE SumFacts ------------------------------
(***************************************************************************)
(* What the sums of the models are: facts about SumFunctionOnSet of the    *)
(* community modules, which adds up the values of a function on a finite   *)
(* set.  It is defined by recursion over the subsets; that the recursion   *)
(* is well founded follows from the order of the finite subsets.           *)
(***************************************************************************)
EXTENDS Integers, Functions, FiniteSets, FiniteSetTheorems, WellFoundedInduction,
        TLAPS

(* The recursion behind SumFunctionOnSet. *)
Pick(s) == CHOOSE x \in s : TRUE

Rest(s) == s \ {Pick(s)}

Adds(g, f, S) ==
  g = [s \in SUBSET S |-> IF s = {} THEN 0 ELSE f[Pick(s)] + g[Rest(s)]]

LEMMA SumIsRecursive ==
  ASSUME NEW f, NEW S
  PROVE  SumFunctionOnSet(f, S) = (CHOOSE g : Adds(g, f, S))[S]
BY DEF SumFunctionOnSet, FoldFunctionOnSet, MapThenFoldSet, Adds, Rest, Pick

LEMMA PickRest ==
  ASSUME NEW s, s # {}
  PROVE  Pick(s) \in s /\ Rest(s) \subseteq s /\ Rest(s) # s
BY DEF Pick, Rest

(* Among sets of subsets of a finite set there are least ones.              *)
LEMMA LeastSubset ==
  ASSUME NEW S, IsFiniteSet(S), NEW Q \in SUBSET SUBSET S, Q # {}
  PROVE  \E T \in Q : \A U \in SUBSET T : U # T => U \notin Q
<1>1. IsWellFoundedOn(StrictSubsetOrdering(S), FiniteSubsetsOf(S))
  BY FS_StrictSubsetOrderingWellFounded
<1>2. Q \subseteq FiniteSubsetsOf(S)
  BY FS_FiniteSubsetsOfFinite
<1>3. PICK T \in Q : \A U \in Q : ~(<<U, T>> \in StrictSubsetOrdering(S))
  BY <1>1, <1>2, WFMin
<1>4. QED
  BY <1>3 DEF StrictSubsetOrdering

(* Two functions that add up the values of f agree where both are defined.  *)
LEMMA AddsUnique ==
  ASSUME NEW f, NEW S, IsFiniteSet(S), NEW T \in SUBSET S, NEW U \in SUBSET S,
         NEW g, NEW h, Adds(g, f, T), Adds(h, f, U)
  PROVE  \A s \in SUBSET (T \cap U) : g[s] = h[s]
<1> DEFINE Q == {s \in SUBSET (T \cap U) : g[s] # h[s]}
<1> SUFFICES ASSUME Q # {} PROVE FALSE
  OBVIOUS
<1>0. Q \in SUBSET SUBSET S
  OBVIOUS
<1> HIDE DEF Q
<1>1. PICK s \in Q : \A r \in SUBSET s : r # s => r \notin Q
  BY <1>0, LeastSubset
<1> USE DEF Q
<1>2. CASE s = {}
  BY <1>1, <1>2 DEF Adds
<1>3. CASE s # {}
  <2>1. Rest(s) \in SUBSET s /\ Rest(s) # s
    BY <1>3, PickRest
  <2>2. g[Rest(s)] = h[Rest(s)]
    BY <1>1, <2>1
  <2>3. g[s] = f[Pick(s)] + g[Rest(s)] /\ h[s] = f[Pick(s)] + h[Rest(s)]
    BY <1>1, <1>3 DEF Adds
  <2>4. QED
    BY <1>1, <2>2, <2>3
<1>4. QED
  BY <1>2, <1>3

LEMMA AddsExists ==
  ASSUME NEW f, NEW S, IsFiniteSet(S)
  PROVE  \A T \in SUBSET S : \E g : Adds(g, f, T)
<1> DEFINE Q == {T \in SUBSET S : ~\E g : Adds(g, f, T)}
<1> SUFFICES ASSUME Q # {} PROVE FALSE
  OBVIOUS
<1>0. Q \in SUBSET SUBSET S
  OBVIOUS
<1> HIDE DEF Q
<1>1. PICK T \in Q : \A U \in SUBSET T : U # T => U \notin Q
  BY <1>0, LeastSubset
<1> USE DEF Q
<1>2. \A U \in SUBSET T : U # T => \E g : Adds(g, f, U)
  BY <1>1
<1> DEFINE G(U) == CHOOSE g : Adds(g, f, U)
           g == [s \in SUBSET T |-> IF s = {} THEN 0 ELSE f[Pick(s)] + G(Rest(s))[Rest(s)]]
<1>3. \A U \in SUBSET T : U # T => Adds(G(U), f, U)
  BY <1>2
<1> HIDE DEF G
<1>4. \A s \in SUBSET T : s # T => g[s] = G(s)[s]
  <2> SUFFICES ASSUME NEW s \in SUBSET T, s # T PROVE g[s] = G(s)[s]
    OBVIOUS
  <2>1. Adds(G(s), f, s)
    BY <1>3
  <2>2. CASE s = {}
    BY <2>1, <2>2 DEF Adds
  <2>3. CASE s # {}
    <3>1. Rest(s) \in SUBSET s /\ Rest(s) # s /\ Rest(s) # T /\ Rest(s) \in SUBSET T
      BY <2>3, PickRest
    <3>2. Adds(G(Rest(s)), f, Rest(s))
      BY <1>3, <3>1
    <3>3. G(Rest(s))[Rest(s)] = G(s)[Rest(s)]
      BY <1>1, <2>1, <3>1, <3>2, AddsUnique
    <3>4. G(s)[s] = f[Pick(s)] + G(s)[Rest(s)]
      BY <2>1, <2>3 DEF Adds
    <3>5. QED
      BY <2>3, <3>3, <3>4
  <2>4. QED
    BY <2>2, <2>3
<1>5. \A s \in SUBSET T : s # {} => g[Rest(s)] = G(Rest(s))[Rest(s)]
  <2> SUFFICES ASSUME NEW s \in SUBSET T, s # {}
               PROVE  g[Rest(s)] = G(Rest(s))[Rest(s)]
    OBVIOUS
  <2>1. Rest(s) \in SUBSET T /\ Rest(s) # T
    BY PickRest
  <2>2. QED
    BY <1>4, <2>1
<1>6. Adds(g, f, T)
  BY <1>5 DEF Adds
<1>7. QED
  BY <1>1, <1>6

(* What SumFunctionOnSet does.                                              *)

LEMMA SumAdds ==
  ASSUME NEW f, NEW S, IsFiniteSet(S), NEW T \in SUBSET S, NEW g, Adds(g, f, T)
  PROVE  SumFunctionOnSet(f, T) = g[T]
<1> DEFINE h == CHOOSE h : Adds(h, f, T)
<1>1. Adds(h, f, T)
  OBVIOUS
<1> HIDE DEF h
<1>2. h[T] = g[T]
  BY <1>1, AddsUnique
<1>3. QED
  BY <1>2, SumIsRecursive DEF h

LEMMA SumEmpty ==
  ASSUME NEW f
  PROVE  SumFunctionOnSet(f, {}) = 0
<1>1. IsFiniteSet({})
  BY FS_EmptySet
<1>2. PICK g : Adds(g, f, {})
  BY <1>1, AddsExists
<1>3. SumFunctionOnSet(f, {}) = g[{}]
  BY <1>1, <1>2, SumAdds
<1>4. QED
  BY <1>2, <1>3 DEF Adds

LEMMA SumStep ==
  ASSUME NEW f, NEW S, IsFiniteSet(S), S # {}
  PROVE  SumFunctionOnSet(f, S) = f[Pick(S)] + SumFunctionOnSet(f, Rest(S))
<1>1. PICK g : Adds(g, f, S)
  BY AddsExists
<1>2. Rest(S) \in SUBSET S
  BY PickRest
<1>3. PICK h : Adds(h, f, Rest(S))
  BY <1>2, AddsExists
<1>4. h[Rest(S)] = g[Rest(S)]
  BY <1>1, <1>2, <1>3, AddsUnique
<1>5. SumFunctionOnSet(f, S) = g[S] /\ SumFunctionOnSet(f, Rest(S)) = h[Rest(S)]
  BY <1>1, <1>2, <1>3, SumAdds
<1>6. g[S] = f[Pick(S)] + g[Rest(S)]
  BY <1>1 DEF Adds
<1>7. QED
  BY <1>4, <1>5, <1>6

(* Only the values on the set count.                                        *)
LEMMA SumSame ==
  ASSUME NEW f, NEW h, NEW S, IsFiniteSet(S), \A x \in S : f[x] = h[x]
  PROVE  SumFunctionOnSet(f, S) = SumFunctionOnSet(h, S)
<1>1. PICK g : Adds(g, f, S)
  BY AddsExists
<1>2. \A s \in SUBSET S : s # {} => f[Pick(s)] = h[Pick(s)]
  BY PickRest
<1>3. Adds(g, h, S)
  BY <1>1, <1>2 DEF Adds
<1>4. QED
  BY <1>1, <1>3, SumAdds

LEMMA SumInt ==
  ASSUME NEW f, NEW S, IsFiniteSet(S), \A x \in S : f[x] \in Int
  PROVE  SumFunctionOnSet(f, S) \in Int
<1> DEFINE Q == {T \in SUBSET S : SumFunctionOnSet(f, T) \notin Int}
<1> SUFFICES ASSUME Q # {} PROVE FALSE
  OBVIOUS
<1>0. Q \in SUBSET SUBSET S
  OBVIOUS
<1> HIDE DEF Q
<1>1. PICK T \in Q : \A U \in SUBSET T : U # T => U \notin Q
  BY <1>0, LeastSubset
<1> USE DEF Q
<1>2. CASE T = {}
  BY <1>1, <1>2, SumEmpty
<1>3. CASE T # {}
  <2>1. Pick(T) \in S /\ Rest(T) \in SUBSET T /\ Rest(T) # T /\ IsFiniteSet(T)
    BY <1>3, PickRest, FS_Subset
  <2>2. SumFunctionOnSet(f, Rest(T)) \in Int
    BY <1>1, <2>1
  <2>3. SumFunctionOnSet(f, T) = f[Pick(T)] + SumFunctionOnSet(f, Rest(T))
    BY <1>3, <2>1, SumStep
  <2>4. QED
    BY <1>1, <2>1, <2>2, <2>3
<1>4. QED
  BY <1>2, <1>3

(* The order of adding does not count: any element may come last.           *)
LEMMA SumRemove ==
  ASSUME NEW f, NEW S, IsFiniteSet(S), \A x \in S : f[x] \in Int, NEW e \in S
  PROVE  SumFunctionOnSet(f, S) = f[e] + SumFunctionOnSet(f, S \ {e})
<1> DEFINE Wrong(T) == \E x \in T :
             SumFunctionOnSet(f, T) # f[x] + SumFunctionOnSet(f, T \ {x})
           Q == {T \in SUBSET S : Wrong(T)}
<1> SUFFICES ASSUME Q # {} PROVE FALSE
  OBVIOUS
<1>0. Q \in SUBSET SUBSET S
  OBVIOUS
<1> HIDE DEF Q
<1>1. PICK T \in Q : \A U \in SUBSET T : U # T => U \notin Q
  BY <1>0, LeastSubset
<1> USE DEF Q
<1>2. PICK x \in T : SumFunctionOnSet(f, T) # f[x] + SumFunctionOnSet(f, T \ {x})
  BY <1>1
<1> DEFINE p == Pick(T)
           R == Rest(T)
<1>3. T # {} /\ IsFiniteSet(T) /\ T \in SUBSET S
  BY <1>1, <1>2, FS_Subset
<1>4. p \in T /\ R \in SUBSET T /\ R # T /\ R = T \ {p}
  BY <1>3, PickRest DEF Rest
<1>5. SumFunctionOnSet(f, T) = f[p] + SumFunctionOnSet(f, R)
  BY <1>3, SumStep
<1> HIDE DEF p, R
<1>6. x # p
  BY <1>2, <1>4, <1>5
<1>7. SumFunctionOnSet(f, R) = f[x] + SumFunctionOnSet(f, R \ {x})
  BY <1>1, <1>3, <1>4, <1>6
<1>8. T \ {x} \in SUBSET T /\ T \ {x} # T /\ p \in T \ {x} /\ (T \ {x}) \ {p} = R \ {x}
  BY <1>2, <1>4, <1>6
<1>9. SumFunctionOnSet(f, T \ {x}) = f[p] + SumFunctionOnSet(f, R \ {x})
  <2>1. T \ {x} \in SUBSET S /\ T \ {x} \notin Q
    BY <1>1, <1>3, <1>8
  <2>2. \A y \in T \ {x} : SumFunctionOnSet(f, T \ {x})
                            = f[y] + SumFunctionOnSet(f, (T \ {x}) \ {y})
    BY <2>1
  <2>3. QED
    BY <1>8, <2>2
<1>10. /\ f[p] \in Int /\ f[x] \in Int
       /\ SumFunctionOnSet(f, R \ {x}) \in Int
  <2>1. R \ {x} \in SUBSET S /\ IsFiniteSet(R \ {x})
    BY <1>3, <1>4, FS_Subset
  <2>2. QED
    BY <1>2, <1>3, <1>4, <2>1, SumInt
<1>11. QED
  BY <1>2, <1>5, <1>7, <1>9, <1>10

LEMMA SumAddElement ==
  ASSUME NEW f, NEW S, IsFiniteSet(S), NEW e, e \notin S,
         \A x \in S \cup {e} : f[x] \in Int
  PROVE  SumFunctionOnSet(f, S \cup {e}) = f[e] + SumFunctionOnSet(f, S)
<1>1. IsFiniteSet(S \cup {e}) /\ e \in S \cup {e} /\ (S \cup {e}) \ {e} = S
  BY FS_AddElement
<1>2. QED
  BY <1>1, SumRemove

LEMMA SumOne ==
  ASSUME NEW f, NEW e, f[e] \in Int
  PROVE  SumFunctionOnSet(f, {e}) = f[e]
<1>1. IsFiniteSet({}) /\ {} \cup {e} = {e}
  BY FS_EmptySet
<1>2. SumFunctionOnSet(f, {} \cup {e}) = f[e] + SumFunctionOnSet(f, {})
  BY <1>1, SumAddElement
<1>3. QED
  BY <1>1, <1>2, SumEmpty

(* One value changes.                                                       *)
LEMMA SumChange ==
  ASSUME NEW f, NEW h, NEW S, IsFiniteSet(S), NEW e \in S,
         \A x \in S : f[x] \in Int, h[e] \in Int,
         \A x \in S \ {e} : h[x] = f[x]
  PROVE  SumFunctionOnSet(h, S) = SumFunctionOnSet(f, S) - f[e] + h[e]
<1>1. IsFiniteSet(S \ {e})
  BY FS_Subset
<1>2. SumFunctionOnSet(h, S \ {e}) = SumFunctionOnSet(f, S \ {e})
  BY <1>1, SumSame
<1>3. \A x \in S : h[x] \in Int
  OBVIOUS
<1>4. /\ SumFunctionOnSet(f, S) = f[e] + SumFunctionOnSet(f, S \ {e})
      /\ SumFunctionOnSet(h, S) = h[e] + SumFunctionOnSet(h, S \ {e})
  BY <1>3, SumRemove
<1>5. SumFunctionOnSet(f, S \ {e}) \in Int
  BY <1>1, SumInt
<1>6. QED
  BY <1>2, <1>4, <1>5

LEMMA SumMonotone ==
  ASSUME NEW f, NEW h, NEW S, IsFiniteSet(S),
         \A x \in S : f[x] \in Int /\ h[x] \in Int /\ f[x] <= h[x]
  PROVE  SumFunctionOnSet(f, S) <= SumFunctionOnSet(h, S)
<1> DEFINE Q == {T \in SUBSET S : ~(SumFunctionOnSet(f, T) <= SumFunctionOnSet(h, T))}
<1> SUFFICES ASSUME Q # {} PROVE FALSE
  OBVIOUS
<1>0. Q \in SUBSET SUBSET S
  OBVIOUS
<1> HIDE DEF Q
<1>1. PICK T \in Q : \A U \in SUBSET T : U # T => U \notin Q
  BY <1>0, LeastSubset
<1> USE DEF Q
<1>2. CASE T = {}
  BY <1>1, <1>2, SumEmpty
<1>3. CASE T # {}
  <2>1. /\ Pick(T) \in S /\ Rest(T) \in SUBSET T /\ Rest(T) # T /\ IsFiniteSet(T)
        /\ IsFiniteSet(Rest(T))
    BY <1>3, PickRest, FS_Subset
  <2>2. SumFunctionOnSet(f, Rest(T)) <= SumFunctionOnSet(h, Rest(T))
    BY <1>1, <2>1
  <2>3. /\ SumFunctionOnSet(f, T) = f[Pick(T)] + SumFunctionOnSet(f, Rest(T))
        /\ SumFunctionOnSet(h, T) = h[Pick(T)] + SumFunctionOnSet(h, Rest(T))
    BY <1>3, <2>1, SumStep
  <2>4. /\ SumFunctionOnSet(f, Rest(T)) \in Int /\ SumFunctionOnSet(h, Rest(T)) \in Int
        /\ f[Pick(T)] \in Int /\ h[Pick(T)] \in Int /\ f[Pick(T)] <= h[Pick(T)]
    BY <2>1, SumInt
  <2>5. SumFunctionOnSet(f, T) <= SumFunctionOnSet(h, T)
    BY <2>2, <2>3, <2>4
  <2>6. QED
    BY <1>1, <2>5
<1>4. QED
  BY <1>2, <1>3

LEMMA SumNat ==
  ASSUME NEW f, NEW S, IsFiniteSet(S), \A x \in S : f[x] \in Nat
  PROVE  SumFunctionOnSet(f, S) \in Nat
<1> DEFINE Q == {T \in SUBSET S : SumFunctionOnSet(f, T) \notin Nat}
<1> SUFFICES ASSUME Q # {} PROVE FALSE
  OBVIOUS
<1>0. Q \in SUBSET SUBSET S
  OBVIOUS
<1> HIDE DEF Q
<1>1. PICK T \in Q : \A U \in SUBSET T : U # T => U \notin Q
  BY <1>0, LeastSubset
<1> USE DEF Q
<1>2. CASE T = {}
  BY <1>1, <1>2, SumEmpty
<1>3. CASE T # {}
  <2>1. Pick(T) \in S /\ Rest(T) \in SUBSET T /\ Rest(T) # T /\ IsFiniteSet(T)
    BY <1>3, PickRest, FS_Subset
  <2>2. SumFunctionOnSet(f, Rest(T)) \in Nat
    BY <1>1, <2>1
  <2>3. SumFunctionOnSet(f, T) = f[Pick(T)] + SumFunctionOnSet(f, Rest(T))
    BY <1>3, <2>1, SumStep
  <2>4. QED
    BY <1>1, <2>1, <2>2, <2>3
<1>4. QED
  BY <1>2, <1>3

(* Naturals: a part sums up to no more than the whole.                      *)
LEMMA SumSubset ==
  ASSUME NEW f, NEW S, IsFiniteSet(S), \A x \in S : f[x] \in Nat, NEW T \in SUBSET S
  PROVE  SumFunctionOnSet(f, T) <= SumFunctionOnSet(f, S)
<1> DEFINE Q == {U \in SUBSET S : T \subseteq U
                   /\ ~(SumFunctionOnSet(f, T) <= SumFunctionOnSet(f, U))}
<1> SUFFICES ASSUME Q # {} PROVE FALSE
  OBVIOUS
<1>0. Q \in SUBSET SUBSET S
  OBVIOUS
<1> HIDE DEF Q
<1>1. PICK U \in Q : \A V \in SUBSET U : V # U => V \notin Q
  BY <1>0, LeastSubset
<1> USE DEF Q
<1>2. IsFiniteSet(U) /\ IsFiniteSet(T) /\ U \in SUBSET S /\ T \in SUBSET U
  BY <1>1, FS_Subset
<1>3. SumFunctionOnSet(f, T) \in Nat
  BY <1>2, SumNat
<1>4. CASE U = T
  BY <1>1, <1>3, <1>4
<1>5. CASE U # T
  <2>1. PICK e \in U : e \notin T
    BY <1>2, <1>5
  <2>2. U \ {e} \in SUBSET U /\ U \ {e} # U /\ T \subseteq U \ {e}
        /\ IsFiniteSet(U \ {e})
    BY <1>2, <2>1, FS_Subset
  <2>3. SumFunctionOnSet(f, T) <= SumFunctionOnSet(f, U \ {e})
    BY <1>1, <1>2, <2>2
  <2>4. SumFunctionOnSet(f, U \ {e}) \in Nat /\ f[e] \in Nat
    BY <1>2, <2>1, <2>2, SumNat
  <2>5. SumFunctionOnSet(f, U) = f[e] + SumFunctionOnSet(f, U \ {e})
    BY <1>2, SumRemove
  <2>6. SumFunctionOnSet(f, T) <= SumFunctionOnSet(f, U)
    BY <1>3, <2>3, <2>4, <2>5
  <2>7. QED
    BY <1>1, <2>6
<1>6. QED
  BY <1>4, <1>5

(* Zeros add up to zero.                                                    *)
LEMMA SumZero ==
  ASSUME NEW f, NEW S, IsFiniteSet(S), \A x \in S : f[x] = 0
  PROVE  SumFunctionOnSet(f, S) = 0
<1> DEFINE Q == {T \in SUBSET S : SumFunctionOnSet(f, T) # 0}
<1> SUFFICES ASSUME Q # {} PROVE FALSE
  OBVIOUS
<1>1. Q \in SUBSET SUBSET S
  OBVIOUS
<1> HIDE DEF Q
<1>2. PICK T \in Q : \A U \in SUBSET T : U # T => U \notin Q
  BY <1>1, LeastSubset
<1> USE DEF Q
<1>3. T # {} /\ IsFiniteSet(T)
  BY SumEmpty, FS_Subset
<1>4. Pick(T) \in T /\ Rest(T) \subseteq T /\ Rest(T) # T
  BY <1>3, PickRest
<1>5. SumFunctionOnSet(f, T) = f[Pick(T)] + SumFunctionOnSet(f, Rest(T))
  BY <1>3, SumStep
<1>6. SumFunctionOnSet(f, Rest(T)) = 0 /\ f[Pick(T)] = 0
  BY <1>2, <1>4
<1> QED
  BY <1>5, <1>6

(* The sum over two sets with no element in common.                         *)
LEMMA SumUnion ==
  ASSUME NEW f, NEW S, NEW T, IsFiniteSet(S), IsFiniteSet(T), S \cap T = {},
         \A x \in S \cup T : f[x] \in Int
  PROVE  SumFunctionOnSet(f, S \cup T) = SumFunctionOnSet(f, S) + SumFunctionOnSet(f, T)
<1> DEFINE Wrong(U) == SumFunctionOnSet(f, S \cup U)
                         # SumFunctionOnSet(f, S) + SumFunctionOnSet(f, U)
           Q == {U \in SUBSET T : Wrong(U)}
<1> SUFFICES ASSUME Q # {} PROVE FALSE
  OBVIOUS
<1>0. Q \in SUBSET SUBSET T
  OBVIOUS
<1> HIDE DEF Q
<1>1. PICK U \in Q : \A V \in SUBSET U : V # U => V \notin Q
  BY <1>0, LeastSubset
<1>2. U \in SUBSET T /\ Wrong(U)
  BY DEF Q
<1>3. SumFunctionOnSet(f, S) \in Int
  BY SumInt
<1>4. CASE U = {}
  <2>1. S \cup U = S
    BY <1>4
  <2>2. SumFunctionOnSet(f, U) = 0
    BY <1>4, SumEmpty
  <2>3. SumFunctionOnSet(f, S \cup U) = SumFunctionOnSet(f, S)
    BY <2>1
  <2>4. QED
    BY <1>2, <1>3, <2>2, <2>3
<1>5. CASE U # {}
  <2>1. PICK e \in U : TRUE
    BY <1>5
  <2> DEFINE V == U \ {e}
  <2>2. V \in SUBSET U /\ V # U /\ V \in SUBSET T
    BY <1>2, <2>1
  <2>3. ~Wrong(V)
    BY <1>1, <2>2 DEF Q
  <2>4. IsFiniteSet(U) /\ IsFiniteSet(V)
    BY <1>2, <2>2, FS_Subset
  <2>5. IsFiniteSet(S \cup U)
    BY <2>4, FS_Union
  <2>6. SumFunctionOnSet(f, U) = f[e] + SumFunctionOnSet(f, V)
    BY <1>2, <2>1, <2>4, SumRemove
  <2>7. SumFunctionOnSet(f, S \cup U) = f[e] + SumFunctionOnSet(f, (S \cup U) \ {e})
    BY <1>2, <2>1, <2>5, SumRemove
  <2>8. (S \cup U) \ {e} = S \cup V
    BY <1>2, <2>1
  <2>9. SumFunctionOnSet(f, V) \in Int
    BY <1>2, <2>2, <2>4, SumInt
  <2>10. f[e] \in Int
    BY <1>2, <2>1
  <2>11. SumFunctionOnSet(f, S \cup V) = SumFunctionOnSet(f, S) + SumFunctionOnSet(f, V)
    BY <2>3
  <2>12. SumFunctionOnSet(f, S \cup U) = f[e] + SumFunctionOnSet(f, S \cup V)
    BY <2>7, <2>8
  <2> HIDE DEF V
  <2>13. QED
    BY <1>2, <1>3, <2>6, <2>9, <2>10, <2>11, <2>12
<1>6. QED
  BY <1>4, <1>5

(* A sum may be taken over the image of a set under a map that keeps the    *)
(* values and lets no two elements meet.                                    *)
LEMMA SumImage ==
  ASSUME NEW f, NEW h, NEW m, NEW S, IsFiniteSet(S),
         \A x \in S : f[x] \in Int /\ h[m[x]] = f[x],
         \A x, y \in S : m[x] = m[y] => x = y
  PROVE  SumFunctionOnSet(h, {m[x] : x \in S}) = SumFunctionOnSet(f, S)
<1> DEFINE Image(U) == {m[x] : x \in U}
           Wrong(U) == SumFunctionOnSet(h, Image(U)) # SumFunctionOnSet(f, U)
           Q == {U \in SUBSET S : Wrong(U)}
<1> SUFFICES ASSUME Q # {} PROVE FALSE
  OBVIOUS
<1>0. Q \in SUBSET SUBSET S
  OBVIOUS
<1> HIDE DEF Q
<1>1. PICK U \in Q : \A V \in SUBSET U : V # U => V \notin Q
  BY <1>0, LeastSubset
<1>2. U \in SUBSET S /\ Wrong(U)
  BY DEF Q
<1>3. CASE U = {}
  <2>1. Image(U) = {}
    BY <1>3
  <2>2. \A T : T = {} => SumFunctionOnSet(h, T) = 0
    BY SumEmpty
  <2>3. SumFunctionOnSet(f, U) = 0
    BY <1>3, SumEmpty
  <2> HIDE DEF Image
  <2>4. QED
    BY <1>2, <2>1, <2>2, <2>3
<1>4. CASE U # {}
  <2>1. PICK e \in U : TRUE
    BY <1>4
  <2> DEFINE V == U \ {e}
  <2>2. V \in SUBSET U /\ V # U /\ V \in SUBSET S
    BY <1>2, <2>1
  <2>3. ~Wrong(V)
    BY <1>1, <2>2 DEF Q
  <2>4. IsFiniteSet(U) /\ IsFiniteSet(V)
    BY <1>2, <2>2, FS_Subset
  <2>5. SumFunctionOnSet(f, U) = f[e] + SumFunctionOnSet(f, V)
    BY <1>2, <2>1, <2>4, SumRemove
  <2>6. Image(U) = Image(V) \cup {m[e]} /\ m[e] \notin Image(V)
    BY <1>2, <2>1
  <2>7. IsFiniteSet(Image(V))
    <3>1. [x \in V |-> m[x]] \in Surjection(V, Image(V))
      BY DEF Surjection
    <3>2. QED
      BY <2>4, <3>1, FS_Surjection
  <2>8. \A y \in Image(V) \cup {m[e]} : h[y] \in Int
    BY <1>2, <2>1
  <2>9. SumFunctionOnSet(h, Image(V) \cup {m[e]}) = h[m[e]] + SumFunctionOnSet(h, Image(V))
    BY <2>6, <2>7, <2>8, SumAddElement
  <2>10. h[m[e]] = f[e]
    BY <1>2, <2>1
  <2>11. SumFunctionOnSet(h, Image(V)) = SumFunctionOnSet(f, V)
    BY <2>3
  <2> HIDE DEF V, Image
  <2>12. QED
    BY <1>2, <2>5, <2>6, <2>9, <2>10, <2>11
<1>5. QED
  BY <1>3, <1>4

-----------------------------------------------------------------------------
(* Sums over records: trades, deals.                                        *)

(* What the quantities of the records in S add up to.                       *)
Total(S) == SumFunction([t \in S |-> t.quantity])

(* A new record adds its quantity.                                          *)
LEMMA TotalAdd ==
  ASSUME NEW S, IsFiniteSet(S), NEW t, t \notin S,
         \A x \in S \cup {t} : x.quantity \in Nat
  PROVE  Total(S \cup {t}) = Total(S) + t.quantity
<1> DEFINE f == [x \in S \cup {t} |-> x.quantity]
           g == [x \in S |-> x.quantity]
<1>1. SumFunctionOnSet(f, S \cup {t}) = f[t] + SumFunctionOnSet(f, S)
  BY SumAddElement
<1>2. SumFunctionOnSet(f, S) = SumFunctionOnSet(g, S)
  BY SumSame
<1>3. SumFunctionOnSet(g, S) \in Nat
  BY SumNat
<1>4. /\ Total(S \cup {t}) = SumFunctionOnSet(f, S \cup {t})
      /\ Total(S) = SumFunctionOnSet(g, S)
  BY DEF Total, SumFunction
<1> QED
  BY <1>1, <1>2, <1>3, <1>4

(* Natural quantities add up to a natural number.                           *)
LEMMA TotalNat ==
  ASSUME NEW S, IsFiniteSet(S), \A x \in S : x.quantity \in Nat
  PROVE  Total(S) \in Nat
BY SumNat DEF Total, SumFunction

(* Without records there is nothing to add.                                 *)
LEMMA TotalEmpty == Total({}) = 0
BY SumEmpty DEF Total, SumFunction

(* What is taken from a set of records, and what stays.                     *)
LEMMA TotalUnion ==
  ASSUME NEW S, NEW T, IsFiniteSet(S), IsFiniteSet(T), S \cap T = {},
         \A x \in S \cup T : x.quantity \in Nat
  PROVE  Total(S \cup T) = Total(S) + Total(T)
<1> DEFINE f == [x \in S \cup T |-> x.quantity]
           g == [x \in S |-> x.quantity]
           h == [x \in T |-> x.quantity]
<1>1. \A x \in S \cup T : f[x] \in Int
  OBVIOUS
<1>2. (\A x \in S : f[x] = g[x]) /\ (\A x \in T : f[x] = h[x])
  OBVIOUS
<1> HIDE DEF f, g, h
<1>3. SumFunctionOnSet(f, S \cup T) = SumFunctionOnSet(f, S) + SumFunctionOnSet(f, T)
  BY <1>1, SumUnion
<1>4. SumFunctionOnSet(f, S) = SumFunctionOnSet(g, S)
  BY <1>2, SumSame
<1>5. SumFunctionOnSet(f, T) = SumFunctionOnSet(h, T)
  BY <1>2, SumSame
<1>6. Total(S \cup T) = SumFunctionOnSet(f, S \cup T) /\ Total(S) = SumFunctionOnSet(g, S)
      /\ Total(T) = SumFunctionOnSet(h, T)
  BY DEF Total, SumFunction, f, g, h
<1>7. QED
  BY <1>3, <1>4, <1>5, <1>6

(* Records may be replaced by others of the same quantities.                *)
LEMMA TotalImage ==
  ASSUME NEW S, IsFiniteSet(S), NEW m,
         \A x \in S : x.quantity \in Nat /\ m[x].quantity = x.quantity,
         \A x, y \in S : m[x] = m[y] => x = y
  PROVE  Total({m[x] : x \in S}) = Total(S)
<1> DEFINE T == {m[x] : x \in S}
           f == [x \in S |-> x.quantity]
           h == [y \in T |-> y.quantity]
<1>1. \A x \in S : f[x] \in Int /\ h[m[x]] = f[x]
  OBVIOUS
<1>2. Total(S) = SumFunctionOnSet(f, S) /\ Total(T) = SumFunctionOnSet(h, T)
  BY DEF Total, SumFunction
<1> HIDE DEF f, h
<1>3. SumFunctionOnSet(h, {m[x] : x \in S}) = SumFunctionOnSet(f, S)
  BY <1>1, SumImage
<1> QED
  BY <1>2, <1>3

(* The totals of the parts of a set add up to the total of the whole.       *)
LEMMA TotalOfParts ==
  ASSUME NEW S, IsFiniteSet(S), NEW T, IsFiniteSet(T),
         \A t \in T : t.quantity \in Nat,
         NEW M, \A x \in S : M[x] \subseteq T,
         \A x, y \in S : x # y => M[x] \cap M[y] = {},
         NEW f, \A x \in S : f[x] = Total(M[x])
  PROVE  SumFunctionOnSet(f, S) = Total(UNION {M[x] : x \in S})
<1> DEFINE Parts(U) == UNION {M[x] : x \in U}
           Wrong(U) == SumFunctionOnSet(f, U) # Total(Parts(U))
           Q == {U \in SUBSET S : Wrong(U)}
<1> SUFFICES ASSUME Q # {} PROVE FALSE
  OBVIOUS
<1>0. Q \in SUBSET SUBSET S
  OBVIOUS
<1> HIDE DEF Q
<1>1. PICK U \in Q : \A V \in SUBSET U : V # U => V \notin Q
  BY <1>0, LeastSubset
<1>2. U \in SUBSET S /\ Wrong(U)
  BY DEF Q
<1>3. \A V \in SUBSET S : Parts(V) \subseteq T
  OBVIOUS
<1>4. \A R \in SUBSET T : IsFiniteSet(R) /\ \A t \in R : t.quantity \in Nat
  BY FS_Subset
<1>5. \A R \in SUBSET T : Total(R) \in Nat
  BY <1>4, TotalNat
<1>6. \A x \in S : f[x] \in Int
  BY <1>5
<1>7. CASE U = {}
  <2>1. Parts(U) = {} /\ SumFunctionOnSet(f, U) = 0
    BY <1>7, SumEmpty
  <2> HIDE DEF Parts
  <2> QED
    BY <1>2, <2>1, TotalEmpty
<1>8. CASE U # {}
  <2>1. PICK e \in U : TRUE
    BY <1>8
  <2> DEFINE V == U \ {e}
  <2>2. V \in SUBSET U /\ V # U /\ V \in SUBSET S
    BY <1>2, <2>1
  <2>3. ~Wrong(V)
    BY <1>1, <2>2 DEF Q
  <2>4. IsFiniteSet(U)
    BY <1>2, FS_Subset
  <2>5. SumFunctionOnSet(f, U) = f[e] + SumFunctionOnSet(f, V)
    BY <1>2, <1>6, <2>1, <2>4, SumRemove
  <2>6. Parts(U) = M[e] \cup Parts(V)
    BY <2>1
  <2>7. M[e] \cap Parts(V) = {}
    BY <1>2, <2>1
  <2>8. M[e] \in SUBSET T /\ Parts(V) \in SUBSET T /\ f[e] = Total(M[e])
    BY <1>2, <2>1
  <2> HIDE DEF V, Parts
  <2>9. Total(M[e] \cup Parts(V)) = Total(M[e]) + Total(Parts(V))
    BY <1>4, <2>7, <2>8, TotalUnion
  <2> QED
    BY <1>2, <2>3, <2>5, <2>6, <2>8, <2>9
<1> QED
  BY <1>7, <1>8
=============================================================================
