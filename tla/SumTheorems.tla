----------------------------- MODULE SumTheorems -----------------------------
(***************************************************************************)
(* What the sums of the traffic modules obey: SumFunctionOnSet of the         *)
(* community module Functions, the sum of f[x] over the x of a finite set.    *)
(* The folds behind it are recursive functions, so that it has to be shown    *)
(* first that the recursion is well-founded; every induction is the choice of *)
(* a smallest counterexample among the subsets of a finite set.               *)
(***************************************************************************)
EXTENDS Integers, FiniteSets, Functions, FiniteSetTheorems, WellFoundedInduction, TLAPS

Picked(s) == CHOOSE x \in s : TRUE
SumStep(f, g, s) == IF s = {} THEN 0 ELSE f[Picked(s)] + g[s \ {Picked(s)}]

\* g gives the sums of all subsets of S.
IsTable(f, S, g) == g = [s \in SUBSET S |-> SumStep(f, g, s)]
SumTable(f, S) == CHOOSE g : IsTable(f, S, g)

\* A collection of subsets of a finite set has a smallest member.
LEMMA Smallest ==
  ASSUME NEW S, IsFiniteSet(S), NEW C, C \subseteq SUBSET S, C # {}
  PROVE  \E s \in C : \A t \in C : t \subseteq s => t = s
<1>1. C \subseteq FiniteSubsetsOf(S)
  BY FS_FiniteSubsetsOfFinite
<1>2. \E s \in C : \A t \in C : <<t, s>> \notin StrictSubsetOrdering(S)
  BY <1>1, FS_StrictSubsetOrderingWellFounded, WFMin
<1> QED
  BY <1>2 DEF StrictSubsetOrdering

\* The sum is the entry of S in the table of S.
LEMMA SumIsEntry == ASSUME NEW f, NEW S PROVE SumFunctionOnSet(f, S) = SumTable(f, S)[S]
  BY DEF SumFunctionOnSet, FoldFunctionOnSet, MapThenFoldSet, SumTable, IsTable, SumStep, Picked

LEMMA PickIn == \A s : s # {} => Picked(s) \in s
  BY DEF Picked

\* Two tables agree where both have entries.
LEMMA TablesAgree ==
  ASSUME NEW f, NEW S, IsFiniteSet(S), NEW T \in SUBSET S,
         NEW g, IsTable(f, S, g), NEW h, IsTable(f, T, h)
  PROVE  \A s \in SUBSET T : g[s] = h[s]
<1> DEFINE C == {s \in SUBSET T : g[s] # h[s]}
<1> SUFFICES ASSUME C # {} PROVE FALSE
  OBVIOUS
<1>1. PICK s \in C : \A t \in C : t \subseteq s => t = s
  <2>1. IsFiniteSet(T)
    BY FS_Subset
  <2>2. C \subseteq SUBSET T
    OBVIOUS
  <2> HIDE DEF C
  <2> QED
    BY <2>1, <2>2, Smallest
<1>2. g[s] = SumStep(f, g, s) /\ h[s] = SumStep(f, h, s)
  BY DEF IsTable
<1>3. s # {} /\ Picked(s) \in s
  BY <1>2, PickIn DEF SumStep
<1>4. g[s \ {Picked(s)}] = h[s \ {Picked(s)}]
  BY <1>1, <1>3
<1> QED
  BY <1>2, <1>4 DEF SumStep

\* A finite set has a table.
LEMMA HasTable ==
  ASSUME NEW f, NEW S, IsFiniteSet(S)
  PROVE  IsTable(f, S, SumTable(f, S))
<1> DEFINE C == {T \in SUBSET S : ~ \E g : IsTable(f, T, g)}
<1> SUFFICES ASSUME C # {} PROVE FALSE
  <2>1. S \in SUBSET S
    OBVIOUS
  <2> QED
    BY <2>1 DEF SumTable
<1>1. PICK T \in C : \A t \in C : t \subseteq T => t = T
  <2>1. C \subseteq SUBSET S
    OBVIOUS
  <2> HIDE DEF C
  <2> QED
    BY <2>1, Smallest
<1>2. ASSUME NEW U \in SUBSET T, U # T
      PROVE  IsTable(f, U, SumTable(f, U)) /\ IsFiniteSet(U)
  <2>1. \E g : IsTable(f, U, g)
    BY <1>1, <1>2
  <2>2. IsFiniteSet(U)
    BY FS_Subset
  <2> QED
    BY <2>1, <2>2 DEF SumTable
<1> DEFINE entry(s) == IF s = {} THEN 0
                       ELSE f[Picked(s)] + SumTable(f, s \ {Picked(s)})[s \ {Picked(s)}]
           g == [s \in SUBSET T |-> entry(s)]
<1>3. ASSUME NEW s \in SUBSET T PROVE g[s] = SumStep(f, g, s)
  <2>1. CASE s = {}
    BY <2>1 DEF SumStep
  <2>2. CASE s # {}
    <3> DEFINE u == s \ {Picked(s)}
    <3>1. u \in SUBSET T /\ u # T
      BY <2>2, PickIn
    <3>2. IsTable(f, u, SumTable(f, u)) /\ IsFiniteSet(u)
      BY <3>1, <1>2
    <3>3. SumTable(f, u)[u] = SumStep(f, SumTable(f, u), u)
      BY <3>2 DEF IsTable
    <3>4. g[u] = SumTable(f, u)[u]
      <4>1. CASE u = {}
        BY <4>1, <3>1, <3>3 DEF SumStep
      <4>2. CASE u # {}
        <5> DEFINE v == u \ {Picked(u)}
        <5>1. v \in SUBSET u /\ v \in SUBSET T /\ v # T
          BY <3>1
        <5>2. IsTable(f, v, SumTable(f, v))
          BY <5>1, <1>2
        <5>3. SumTable(f, u)[v] = SumTable(f, v)[v]
          BY <3>2, <5>1, <5>2, TablesAgree
        <5> QED
          BY <4>2, <3>1, <3>3, <5>3 DEF SumStep
      <4> QED
        BY <4>1, <4>2
    <3> QED
      BY <2>2, <3>4 DEF SumStep
  <2> QED
    BY <2>1, <2>2
<1>4. IsTable(f, T, g)
  BY <1>3 DEF IsTable
<1> QED
  BY <1>1, <1>4

-----------------------------------------------------------------------------
\* The sum over no element.
LEMMA SumEmpty == ASSUME NEW f PROVE SumFunctionOnSet(f, {}) = 0
<1>1. IsTable(f, {}, SumTable(f, {}))
  BY FS_EmptySet, HasTable
<1> QED
  BY <1>1, SumIsEntry DEF IsTable, SumStep

\* The sum takes out the element the fold takes first.
LEMMA SumPicks ==
  ASSUME NEW f, NEW S, IsFiniteSet(S), S # {}
  PROVE  SumFunctionOnSet(f, S)
           = f[Picked(S)] + SumFunctionOnSet(f, S \ {Picked(S)})
<1> DEFINE T == S \ {Picked(S)}
<1>1. IsTable(f, S, SumTable(f, S))
  BY HasTable
<1>2. T \in SUBSET S /\ IsTable(f, T, SumTable(f, T))
  BY FS_Subset, HasTable
<1>3. SumTable(f, S)[T] = SumTable(f, T)[T]
  BY <1>1, <1>2, TablesAgree
<1> QED
  BY <1>1, <1>3, SumIsEntry DEF IsTable, SumStep

\* A sum of natural numbers is one.
THEOREM SumType ==
  ASSUME NEW S, IsFiniteSet(S), NEW f, \A x \in S : f[x] \in Nat
  PROVE  SumFunctionOnSet(f, S) \in Nat
<1> DEFINE C == {T \in SUBSET S : SumFunctionOnSet(f, T) \notin Nat}
<1> SUFFICES ASSUME C # {} PROVE FALSE
  OBVIOUS
<1>1. PICK T \in C : \A t \in C : t \subseteq T => t = T
  <2>1. C \subseteq SUBSET S
    OBVIOUS
  <2> HIDE DEF C
  <2> QED
    BY <2>1, Smallest
<1>2. T # {} /\ Picked(T) \in T
  BY SumEmpty, PickIn
<1>3. SumFunctionOnSet(f, T) = f[Picked(T)] + SumFunctionOnSet(f, T \ {Picked(T)})
  BY <1>2, FS_Subset, SumPicks
<1>4. SumFunctionOnSet(f, T \ {Picked(T)}) \in Nat
  BY <1>1, <1>2
<1> QED
  BY <1>2, <1>3, <1>4

\* It takes out any element.
THEOREM SumTakesOut ==
  ASSUME NEW S, IsFiniteSet(S), NEW f, \A x \in S : f[x] \in Nat, NEW e \in S
  PROVE  SumFunctionOnSet(f, S) = f[e] + SumFunctionOnSet(f, S \ {e})
<1> DEFINE C == {T \in SUBSET S : \E x \in T :
                   SumFunctionOnSet(f, T) # f[x] + SumFunctionOnSet(f, T \ {x})}
<1> SUFFICES ASSUME C # {} PROVE FALSE
  <2>1. S \in SUBSET S
    OBVIOUS
  <2> QED
    BY <2>1
<1>1. PICK T \in C : \A t \in C : t \subseteq T => t = T
  <2>1. C \subseteq SUBSET S
    OBVIOUS
  <2> HIDE DEF C
  <2> QED
    BY <2>1, Smallest
<1>2. PICK x \in T : SumFunctionOnSet(f, T) # f[x] + SumFunctionOnSet(f, T \ {x})
  OBVIOUS
<1> DEFINE p == Picked(T)
<1>3. p \in T /\ IsFiniteSet(T)
  BY <1>2, FS_Subset, PickIn
<1>4. SumFunctionOnSet(f, T) = f[p] + SumFunctionOnSet(f, T \ {p})
  BY <1>2, <1>3, SumPicks
<1>5. p # x
  BY <1>2, <1>4
<1>6. /\ SumFunctionOnSet(f, T \ {p}) = f[x] + SumFunctionOnSet(f, (T \ {p}) \ {x})
      /\ SumFunctionOnSet(f, T \ {x}) = f[p] + SumFunctionOnSet(f, (T \ {x}) \ {p})
  <2>1. T \ {p} \notin C /\ T \ {x} \notin C
    BY <1>1, <1>2, <1>3
  <2>2. T \ {p} \in SUBSET S /\ T \ {x} \in SUBSET S
    OBVIOUS
  <2>3. x \in T \ {p} /\ p \in T \ {x}
    BY <1>3, <1>5
  <2> QED
    BY <2>1, <2>2, <2>3
<1> DEFINE R == (T \ {p}) \ {x}
<1>7. /\ SumFunctionOnSet(f, T \ {p}) = f[x] + SumFunctionOnSet(f, R)
      /\ SumFunctionOnSet(f, T \ {x}) = f[p] + SumFunctionOnSet(f, R)
  <2>1. (T \ {x}) \ {p} = R
    OBVIOUS
  <2> QED
    BY <1>6, <2>1
<1>8. SumFunctionOnSet(f, R) \in Nat /\ f[p] \in Nat /\ f[x] \in Nat
  <2>1. R \in SUBSET S /\ p \in S
    BY <1>3
  <2>2. IsFiniteSet(R)
    BY <2>1, FS_Subset
  <2> QED
    BY <2>1, <2>2, SumType
<1> HIDE DEF p, R
<1>9. SumFunctionOnSet(f, T) = f[x] + SumFunctionOnSet(f, T \ {x})
  BY <1>4, <1>7, <1>8
<1> QED
  BY <1>2, <1>9

\* It grows with its terms.
THEOREM SumMonotone ==
  ASSUME NEW S, IsFiniteSet(S), NEW f, NEW g,
         \A x \in S : f[x] \in Nat /\ g[x] \in Nat /\ f[x] <= g[x]
  PROVE  SumFunctionOnSet(f, S) <= SumFunctionOnSet(g, S)
<1> DEFINE C == {T \in SUBSET S : ~(SumFunctionOnSet(f, T) <= SumFunctionOnSet(g, T))}
<1> SUFFICES ASSUME C # {} PROVE FALSE
  <2>1. S \in SUBSET S
    OBVIOUS
  <2> QED
    BY <2>1
<1>1. PICK T \in C : \A t \in C : t \subseteq T => t = T
  <2>1. C \subseteq SUBSET S
    OBVIOUS
  <2> HIDE DEF C
  <2> QED
    BY <2>1, Smallest
<1>2. T # {}
  BY SumEmpty
<1>3. PICK x \in T : TRUE
  BY <1>2
<1> DEFINE U == T \ {x}
<1>4. IsFiniteSet(T) /\ U \in SUBSET S /\ IsFiniteSet(U)
  <2>1. T \in SUBSET S /\ U \in SUBSET S
    OBVIOUS
  <2> QED
    BY <2>1, FS_Subset
<1>5. /\ SumFunctionOnSet(f, T) = f[x] + SumFunctionOnSet(f, U)
      /\ SumFunctionOnSet(g, T) = g[x] + SumFunctionOnSet(g, U)
  <2>1. x \in T /\ (\A y \in T : f[y] \in Nat /\ g[y] \in Nat)
    BY <1>3
  <2> QED
    BY <1>4, <2>1, SumTakesOut
<1>6. SumFunctionOnSet(f, U) \in Nat /\ SumFunctionOnSet(g, U) \in Nat
  BY <1>4, SumType
<1>7. SumFunctionOnSet(f, U) <= SumFunctionOnSet(g, U)
  BY <1>1, <1>3, <1>4
<1>8. f[x] \in Nat /\ g[x] \in Nat /\ f[x] <= g[x]
  OBVIOUS
<1> HIDE DEF U
<1>9. SumFunctionOnSet(f, T) <= SumFunctionOnSet(g, T)
  BY <1>5, <1>6, <1>7, <1>8
<1> QED
  BY <1>9

\* It depends on its terms only.
THEOREM SumSame ==
  ASSUME NEW S, IsFiniteSet(S), NEW f, NEW g,
         \A x \in S : f[x] \in Nat /\ g[x] = f[x]
  PROVE  SumFunctionOnSet(f, S) = SumFunctionOnSet(g, S)
<1>1. SumFunctionOnSet(f, S) <= SumFunctionOnSet(g, S)
  BY SumMonotone
<1>2. SumFunctionOnSet(g, S) <= SumFunctionOnSet(f, S)
  BY SumMonotone
<1>3. SumFunctionOnSet(f, S) \in Nat /\ SumFunctionOnSet(g, S) \in Nat
  BY SumType
<1> QED
  BY <1>1, <1>2, <1>3

\* A sum that one term of changes, changes by as much.
THEOREM SumChanges ==
  ASSUME NEW S, IsFiniteSet(S), NEW f, NEW g, NEW e \in S, NEW d \in Nat,
         \A x \in S : f[x] \in Nat,
         \A x \in S : g[x] = IF x = e THEN f[x] + d ELSE f[x]
  PROVE  SumFunctionOnSet(g, S) = SumFunctionOnSet(f, S) + d
<1> DEFINE T == S \ {e}
<1>1. IsFiniteSet(T)
  BY FS_Subset
<1>2. SumFunctionOnSet(f, T) = SumFunctionOnSet(g, T)
  BY <1>1, SumSame
<1>3. /\ SumFunctionOnSet(f, S) = f[e] + SumFunctionOnSet(f, T)
      /\ SumFunctionOnSet(g, S) = g[e] + SumFunctionOnSet(g, T)
  BY SumTakesOut
<1>4. SumFunctionOnSet(f, T) \in Nat /\ f[e] \in Nat /\ g[e] = f[e] + d
  BY <1>1, SumType
<1> HIDE DEF T
<1> QED
  BY <1>2, <1>3, <1>4

\* A sum of nothing is nothing.
THEOREM SumNothing ==
  ASSUME NEW S, IsFiniteSet(S), NEW f, \A x \in S : f[x] = 0
  PROVE  SumFunctionOnSet(f, S) = 0
<1> DEFINE C == {T \in SUBSET S : SumFunctionOnSet(f, T) # 0}
<1> SUFFICES ASSUME C # {} PROVE FALSE
  OBVIOUS
<1>1. PICK T \in C : \A t \in C : t \subseteq T => t = T
  <2>1. C \subseteq SUBSET S
    OBVIOUS
  <2> HIDE DEF C
  <2> QED
    BY <2>1, Smallest
<1>2. T # {} /\ Picked(T) \in T
  BY SumEmpty, PickIn
<1>3. SumFunctionOnSet(f, T) = f[Picked(T)] + SumFunctionOnSet(f, T \ {Picked(T)})
  BY <1>2, FS_Subset, SumPicks
<1>4. SumFunctionOnSet(f, T \ {Picked(T)}) = 0
  BY <1>1, <1>2
<1> QED
  BY <1>2, <1>3, <1>4
=============================================================================
